------------------------------ MODULE Ownership ------------------------------
(***************************************************************************)
(* Who owns the memory behind strings and data.  The initializers of the   *)
(* class clusters NSString and NSData copy the client's bytes, keep them,  *)
(* free them at once, or share those of another object; substrings share   *)
(* with their receiver.  Which one it is depends on the text: short ASCII  *)
(* fits into a tagged pointer, other ASCII is kept as it is, everything    *)
(* else may have to be converted.                                          *)
(*                                                                         *)
(* A text is the sequence of its characters, in whatever encoding the      *)
(* client's bytes are in.  An initializer is one step; a release that has  *)
(* dropped the last reference lets -dealloc follow as a step of its own.   *)
(***************************************************************************)
EXTENDS Naturals, Sequences

CONSTANTS Object,   \* addresses of instances
          Block,    \* addresses malloc can return
          None,     \* NULL, or nil
          Client,   \* the code that uses the library, as a retainer
          Text,     \* the texts the client stores in its blocks
          Ranges,   \* the NSRanges it passes: [location, length]
          Ascii,    \* ASCII characters
          Short,    \* others that fit into 15 bits
          Long,     \* all others
          Bom,      \* the byte order mark
          Broken,   \* an invalid sequence of bytes
          Junk,     \* what is read where no character is
          Tagged,   \* longest ASCII text in a tagged pointer
          Large     \* shortest data that gets a block of its own

Char == Ascii \cup Short \cup Long \cup {Bom, Broken, Junk}

ASSUME TextIsText == Text \subseteq Seq(Char)
ASSUME RangesAreRanges == Ranges \subseteq [location : Nat, length : Nat]
ASSUME AddressesDiffer == /\ Object \cap Block = {}
                          /\ None \notin Object \cup Block
                          /\ Client \notin Object
ASSUME LimitsAreNumbers == Tagged \in Nat /\ Large \in Nat

VARIABLES memory,     \* what is in each allocated block and instance
          mine,       \* the blocks the client has to free
          object,     \* the live instances
          retainers   \* who retains an instance

vars == <<memory, mine, object, retainers>>

(* An instance: its class; its length characters from start on, at a block *)
(* or inside of an instance; whether -dealloc frees them; the instance it  *)
(* shares them with; the block the client agreed to keep for it.           *)
Instance == [class  : {"string", "data", "mutable"},
             at     : Object \cup Block,
             start  : Nat,
             length : Nat,
             frees  : BOOLEAN,
             shares : Object \cup {None},
             agreed : Block \cup {None}]

Live     == DOMAIN object
Value(o) == SubSeq(memory[object[o].at], object[o].start + 1,
                                         object[o].start + object[o].length)

Init == /\ memory = <<>>
        /\ mine = {}
        /\ object = <<>>
        /\ retainers = [o \in Object |-> {}]

-----------------------------------------------------------------------------
(* What the UTF information of a text says.                                *)
Chars(t)    == {t[i] : i \in 1..Len(t)}
HasBom(t)   == t # <<>> /\ t[1] = Bom
Body(t)     == IF HasBom(t) THEN Tail(t) ELSE t
IsBroken(t) == Broken \in Chars(t)
IsAscii(t)  == Chars(t) \subseteq Ascii
Is15Bit(t)  == Chars(t) \subseteq Ascii \cup Short
IsTagged(t) == IsAscii(t) /\ Len(t) <= Tagged

-----------------------------------------------------------------------------
(* The outcomes.  Each frees the blocks in gone on the way, which were the *)
(* client's.                                                               *)

Put(f, x, v)    == [y \in DOMAIN f \cup {x} |-> IF y = x THEN v ELSE f[y]]
Remove(f, gone) == [y \in DOMAIN f \ gone |-> f[y]]

(* An exception, nil, @"", a tagged pointer or the receiver.               *)
NoInstance(gone) == /\ memory' = Remove(memory, gone)
                    /\ mine' = mine \ gone
                    /\ UNCHANGED <<object, retainers>>

\* Slip: a sharing instance does not retain.
AppearUnretained(o, instance) ==
    /\ o \notin Live
    /\ object' = Put(object, o, instance)
    /\ retainers' = [retainers EXCEPT ![o] = {Client}]

Appear(o, instance) ==
    /\ o \notin Live
    /\ object' = Put(object, o, instance)
    /\ retainers' = [p \in Object |->
                        IF p = o THEN {Client}
                        ELSE IF p = instance.shares THEN retainers[p] \cup {o}
                        ELSE retainers[p]]

(* Characters in the instance itself, in a block of its own, in a block of *)
(* the client, or in the memory of another instance.                       *)
Inline(gone, o, class, t) ==
    /\ memory' = Put(Remove(memory, gone), o, t)
    /\ mine' = mine \ gone
    /\ Appear(o, [class |-> class, at |-> o, start |-> 0, length |-> Len(t),
                  frees |-> FALSE, shares |-> None, agreed |-> None])

InBlock(gone, o, class, t) ==
    \E b \in Block \ DOMAIN memory :
        /\ memory' = Put(Remove(memory, gone), b, t)
        /\ mine' = mine \ gone
        /\ Appear(o, [class |-> class, at |-> b, start |-> 0, length |-> Len(t),
                      frees |-> TRUE, shares |-> None, agreed |-> None])

Keep(b, o, class, frees, n) ==
    /\ mine' = IF frees THEN mine \ {b} ELSE mine
    /\ Appear(o, [class |-> class, at |-> b, start |-> 0,
                  length |-> n, frees |-> frees, shares |-> None,
                  agreed |-> IF frees THEN None ELSE b])
    /\ UNCHANGED memory

Share(p, o, class, r) ==
    /\ Appear(o, [class |-> class, at |-> object[p].at,
                  start |-> object[p].start + r.location, length |-> r.length,
                  frees |-> FALSE, shares |-> p, agreed |-> None])
    /\ UNCHANGED <<memory, mine>>

(* A string with a copy of t.                                              *)
CopyOf(gone, o, t, inline) ==
    IF t = <<>> \/ IsTagged(t) THEN NoInstance(gone)
    ELSE IF inline THEN Inline(gone, o, "string", t)
    ELSE InBlock(gone, o, "string", t)

CopyUTF8(gone, o, t)  == CopyOf(gone, o, t, IsAscii(t))
CopyUTF16(gone, o, t) == CopyOf(gone, o, t, Is15Bit(t))
CopyUTF32(gone, o, t) == CopyOf(gone, o, t, IsAscii(t) \/ ~Is15Bit(t))

(* A data with a copy of t.                                                *)
CopyData(gone, o, t) == IF Len(t) < Large THEN Inline(gone, o, "data", t)
                                          ELSE InBlock(gone, o, "data", t)

CopyMutable(gone, o, t) == IF t = <<>> THEN Inline(gone, o, "mutable", t)
                                       ELSE InBlock(gone, o, "mutable", t)

-----------------------------------------------------------------------------
(* The client.  It frees or gives away only what is its own and what it    *)
(* has not agreed to keep for an instance.                                 *)

Spare(b) == b \in mine /\ \A o \in Live : object[o].agreed # b
Held(o)  == o \in Live /\ Client \in retainers[o]
Given(b, flag) == IF flag THEN {b} ELSE {}

Malloc(b, t) == /\ b \notin DOMAIN memory
                /\ memory' = Put(memory, b, t)
                /\ mine' = mine \cup {b}
                /\ UNCHANGED <<object, retainers>>

Free(b) == Spare(b) /\ NoInstance({b})

Write(b, t) == /\ Spare(b)
               /\ memory' = [memory EXCEPT ![b] = t]
               /\ UNCHANGED <<mine, object, retainers>>

-----------------------------------------------------------------------------
(* Strings from the client's bytes.                                        *)

(* initWithUTF8String:, mulleInitWithUTF8Characters:length: and, with nil  *)
(* for the exception, mulleInitOrNilWithUTF8Characters:length:             *)
InitWithUTF8(b, o) == /\ b \in mine
                      /\ IF IsBroken(memory[b])
                         THEN NoInstance({})
                         ELSE CopyUTF8({}, o, Body(memory[b]))

InitWithCharacters(b, o) == /\ b \in mine
                            /\ IF IsBroken(memory[b])
                               THEN NoInstance({})
                               ELSE CopyUTF32({}, o, Body(memory[b]))

(* mulleInitWithUTF16Characters:length:                                    *)
InitWithUTF16Characters(b, o) == /\ b \in mine
                                 /\ IF IsBroken(memory[b])
                                    THEN NoInstance({})
                                    ELSE CopyUTF16({}, o, Body(memory[b]))

(* mulleInitWithUTF16String: frees the client's bytes before it throws, and *)
(* copies ASCII from the start of the buffer, so that of a text behind a   *)
(* byte order mark the last character is missing.  The client passes no    *)
(* other text: the code would convert it as if it were UTF-8, into a block *)
(* it does not fit in, and what that does is undefined.                    *)
InitWithUTF16String(b, o) ==
    LET t == Body(memory[b]) IN
    /\ Spare(b) /\ (IsBroken(t) \/ IsAscii(t))
    /\ IF IsBroken(t) THEN NoInstance({b})
       ELSE IF t = <<>> \/ IsTagged(t) THEN NoInstance({})
       ELSE Inline({}, o, "string", SubSeq(memory[b], 1, Len(t)))

\* Slip: bytes that had to be converted are not freed.
KeepConverted(b, o, flag) ==
    LET t == memory[b] IN
    /\ Spare(b) /\ ~HasBom(t)
    /\ IF IsBroken(t) THEN NoInstance({})
       ELSE IF t = <<>> THEN NoInstance(Given(b, flag))
       ELSE IF IsAscii(t) THEN Keep(b, o, "string", flag, Len(t))
       ELSE /\ \E c \in Block \ DOMAIN memory :
                  /\ memory' = Put(memory, c, t)
                  /\ Appear(o, [class |-> "string", at |-> c, start |-> 0,
                                length |-> Len(t), frees |-> TRUE,
                                shares |-> None, agreed |-> None])
            /\ mine' = mine \ Given(b, flag)

(* mulleInitWithUTF8CharactersNoCopy:, not with a byte order mark: then    *)
(* the pointer that is kept is not the one that was allocated.             *)
InitWithUTF8NoCopy(b, o, flag) ==
    LET t == memory[b] IN
    /\ Spare(b) /\ ~HasBom(t)
    /\ IF IsBroken(t) THEN NoInstance({})
       ELSE IF t = <<>> THEN NoInstance(Given(b, flag))
       ELSE IF IsAscii(t) THEN Keep(b, o, "string", flag, Len(t))
       ELSE InBlock(Given(b, flag), o, "string", t)

(* The n characters at b, of which those past the end of the block are not *)
(* the client's.                                                           *)
CharactersAt(b, n) ==
    [i \in 1..n |-> IF i <= Len(memory[b]) THEN memory[b][i] ELSE Junk]

(* mulleInitWithCharactersNoCopy:length: frees also before it throws.  It  *)
(* takes the length n as it is told.                                       *)
InitWithCharactersNoCopy(b, o, flag, n) ==
    LET t == CharactersAt(b, n) IN
    /\ Spare(b)
    /\ IF IsBroken(t) \/ Body(t) = <<>> THEN NoInstance(Given(b, flag))
       ELSE IF HasBom(t) THEN CopyUTF32(Given(b, flag), o, Body(t))
       ELSE Keep(b, o, "string", flag, n)

(* initWithBytesNoCopy:length:encoding:freeWhenDone: tells it the length   *)
(* in bytes, if the encoding is NSUnicodeStringEncoding.                   *)
CharSize == 4

InitWithUnicodeBytesNoCopy(b, o, flag) ==
    InitWithCharactersNoCopy(b, o, flag, CharSize * Len(memory[b]))

(* initWithBytesNoCopy:length:encoding:freeWhenDone:YES for all other      *)
(* encodings (and UTF-8 without a terminating zero) copies, then frees;    *)
(* after an exception it does not.                                         *)
InitByCopyAndFree(b, o) ==
    /\ Spare(b)
    /\ IF IsBroken(memory[b]) THEN NoInstance({})
       ELSE \/ CopyUTF8({b}, o, Body(memory[b]))
            \/ CopyUTF16({b}, o, Body(memory[b]))
            \/ CopyUTF32({b}, o, Body(memory[b]))

-----------------------------------------------------------------------------
(* Strings from other instances.                                           *)

SkipBom(t) == [location |-> Len(t) - Len(Body(t)), length |-> Len(Body(t))]

(* mulleInitWithDataNoCopy:encoding: with UTF-8 and UTF-32.  The client    *)
(* does not pass a mutable data, which the code does not look at.          *)
ShareUTF8(p, o) ==
    LET t == Value(p) IN
    /\ Held(p) /\ object[p].class = "data"
    /\ IF IsBroken(t) \/ Body(t) = <<>> THEN NoInstance({})
       ELSE IF IsAscii(Body(t)) THEN Share(p, o, "string", SkipBom(t))
       ELSE InBlock({}, o, "string", Body(t))

ShareUTF32(p, o) ==
    LET t == Value(p) IN
    /\ Held(p) /\ object[p].class = "data"
    /\ IF IsBroken(t) \/ Body(t) = <<>> THEN NoInstance({})
       ELSE Share(p, o, "string", SkipBom(t))

(* initWithData:encoding: copies, from any data.                           *)
InitStringWithData(p, o) ==
    /\ Held(p) /\ object[p].class # "string"
    /\ IF IsBroken(Value(p)) THEN NoInstance({})
       ELSE CopyUTF8({}, o, Body(Value(p))) \/ CopyUTF32({}, o, Body(Value(p)))

Part(t, r) == SubSeq(t, r.location + 1, r.location + r.length)

SubstringWithRange(p, o, r) ==
    /\ Held(p) /\ object[p].class = "string"
    /\ r.location + r.length <= object[p].length
    /\ IF r.length \in {0, object[p].length} \/ IsTagged(Part(Value(p), r))
       THEN NoInstance({})
       ELSE Share(p, o, "string", r)

-----------------------------------------------------------------------------
(* Data.                                                                   *)

InitWithBytes(b, o) == b \in mine /\ CopyData({}, o, memory[b])

(* initWithBytes:length:copy:YES freeWhenDone:YES                          *)
InitWithBytesAndFree(b, o) == Spare(b) /\ CopyData({b}, o, memory[b])

(* initWithBytesNoCopy:length:freeWhenDone:                                *)
InitWithBytesNoCopy(b, o, flag) == /\ Spare(b)
                                   /\ Keep(b, o, "data", flag, Len(memory[b]))

(* dataWithBytesNoCopy:length: frees when done, although it is documented  *)
(* that the client keeps the bytes.                                        *)
DataWithBytesNoCopy(b, o) ==
    /\ Spare(b)
    /\ mine' = mine \ {b}
    /\ Appear(o, [class |-> "data", at |-> b, start |-> 0,
                  length |-> Len(memory[b]), frees |-> TRUE, shares |-> None,
                  agreed |-> b])
    /\ UNCHANGED memory

\* Slip: initWithData: shares with a mutable data, too.
ShareAlways(p, o) == /\ Held(p) /\ object[p].class # "string"
                     /\ Share(p, o, "data", [location |-> 0, length |-> object[p].length])

InitWithData(p, o) ==
    /\ Held(p) /\ object[p].class # "string"
    /\ IF object[p].class = "mutable"
       THEN CopyData({}, o, Value(p))
       ELSE Share(p, o, "data", [location |-> 0, length |-> object[p].length])

(* Mutable data always copies; a NoCopy initializer then frees.            *)
InitMutable(b, o)        == b \in mine /\ CopyMutable({}, o, memory[b])
InitMutableNoCopy(b, o)  == Spare(b) /\ CopyMutable({b}, o, memory[b])
InitMutableWithData(p, o) == /\ Held(p) /\ object[p].class # "string"
                             /\ CopyMutable({}, o, Value(p))

(* A mutation may move the storage.                                        *)
Mutate(o, t) ==
    /\ Held(o) /\ object[o].class = "mutable"
    /\ \E b \in (Block \ DOMAIN memory) \cup ({object[o].at} \cap Block) :
          /\ memory' = Put(Remove(memory, {object[o].at}), b, t)
          /\ object' = [object EXCEPT ![o].at = b, ![o].length = Len(t),
                                      ![o].frees = TRUE]
    /\ UNCHANGED <<mine, retainers>>

-----------------------------------------------------------------------------
Release(o) == /\ Held(o)
              /\ retainers' = [retainers EXCEPT ![o] = @ \ {Client}]
              /\ UNCHANGED <<memory, mine, object>>

\* Slips: -dealloc does not release what it shares with, or it does not
\* give back its own memory.
DeallocUnreleased(o) ==
    /\ o \in Live /\ retainers[o] = {}
    /\ memory' = Remove(memory, {o} \cup Given(object[o].at, object[o].frees))
    /\ object' = Remove(object, {o})
    /\ UNCHANGED <<mine, retainers>>

DeallocLeaking(o) ==
    /\ o \in Live /\ retainers[o] = {}
    /\ memory' = Remove(memory, Given(object[o].at, object[o].frees))
    /\ object' = Remove(object, {o})
    /\ retainers' = [p \in Object |-> retainers[p] \ {o}]
    /\ UNCHANGED mine

Dealloc(o) ==
    /\ o \in Live /\ retainers[o] = {}
    /\ memory' = Remove(memory, {o} \cup Given(object[o].at, object[o].frees))
    /\ object' = Remove(object, {o})
    /\ retainers' = [p \in Object |-> retainers[p] \ {o}]
    /\ UNCHANGED mine

(* With NSUnicodeStringEncoding the client has to have no characters.      *)
IsEmpty(b) == b \in mine /\ memory[b] = <<>>

Next == \/ \E b \in Block, t \in Text : Malloc(b, t) \/ Write(b, t)
        \/ \E b \in Block : Free(b)
        \/ \E b \in Block, o \in Object :
              \/ InitWithUTF8(b, o) \/ InitWithCharacters(b, o)
              \/ InitWithUTF16Characters(b, o) \/ InitWithUTF16String(b, o)
              \/ InitByCopyAndFree(b, o)
              \/ InitWithBytes(b, o) \/ InitWithBytesAndFree(b, o)
              \/ DataWithBytesNoCopy(b, o)
              \/ InitMutable(b, o) \/ InitMutableNoCopy(b, o)
        \/ \E b \in Block, o \in Object, flag \in BOOLEAN :
              \/ InitWithUTF8NoCopy(b, o, flag)
              \/ InitWithCharactersNoCopy(b, o, flag, Len(memory[b]))
              \/ IsEmpty(b) /\ InitWithUnicodeBytesNoCopy(b, o, flag)
              \/ InitWithBytesNoCopy(b, o, flag)
        \/ \E p, o \in Object :
              \/ ShareUTF8(p, o) \/ ShareUTF32(p, o) \/ InitStringWithData(p, o)
              \/ InitWithData(p, o) \/ InitMutableWithData(p, o)
        \/ \E p, o \in Object, r \in Ranges : SubstringWithRange(p, o, r)
        \/ \E o \in Object, t \in Text \ {<<>>} : Mutate(o, t)
        \/ \E o \in Object : Release(o) \/ Dealloc(o)

Spec == Init /\ [][Next]_vars

(* The same for a client that passes whatever it has.                      *)
SpecOfAnyClient ==
    Init /\ [][Next \/ \E b \in Block, o \in Object, flag \in BOOLEAN :
                         InitWithUnicodeBytesNoCopy(b, o, flag)]_vars

-----------------------------------------------------------------------------
(* The variables have their types, and instances and their memory come and *)
(* go together.                                                            *)
TypeOK == /\ object \in [Live -> Instance] /\ Live \subseteq Object
          /\ DOMAIN memory \subseteq Object \cup Block
          /\ \A p \in DOMAIN memory : memory[p] \in Seq(Char)
          /\ mine \subseteq Block
          /\ retainers \in [Object -> SUBSET (Object \cup {Client})]
          /\ DOMAIN memory \cap Object = {o \in Live : object[o].at = o}

(* The characters of every instance are allocated memory, all of them,     *)
(* whoever frees what in whichever order.  This does not hold of           *)
(* SpecOfAnyClient: a string kept with NSUnicodeStringEncoding claims four *)
(* times the characters of its block.                                      *)
Readable(o) == /\ object[o].at \in DOMAIN memory
               /\ object[o].start + object[o].length <= Len(memory[object[o].at])

CharactersAreReadable == \A o \in Live : Readable(o)

(* Every allocated block is freed by the client or by exactly one          *)
(* instance: no block leaks and none is freed twice.                       *)
Owners(b) == {o \in Live : object[o].frees /\ object[o].at = b}

BlocksHaveOneOwner ==
    \A b \in Block :
        /\ b \in mine => b \in DOMAIN memory /\ Owners(b) = {}
        /\ b \notin mine => /\ b \in DOMAIN memory <=> Owners(b) # {}
                            /\ \A o, p \in Owners(b) : o = p

(* Nobody but the client and the instances that share with it retain an    *)
(* instance, so that each is deallocated after they are gone.              *)
RetainCountsAreExact ==
    \A o \in Object : retainers[o] \ {Client} = {p \in Live : object[p].shares = o}

(* The value of an immutable instance never changes.                       *)
ValuesNeverChange ==
    [][\A o \in Live : object[o].class # "mutable" /\ o \in Live'
                           => Readable(o)' /\ Value(o)' = Value(o)]_vars

(* "dataWithBytesNoCopy:length: ... does NOT free the bytes": what the     *)
(* client agreed to keep is not freed by an instance.  This does not hold: *)
(* InitWithBytesNoCopy hands the bytes to the allocator.                   *)
AgreedBytesStay ==
    [][\A o \in Live \ Live' :
          object[o].agreed # None => object[o].agreed \in DOMAIN memory']_vars

=============================================================================
