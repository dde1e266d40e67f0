---------------------------- MODULE MutableString ----------------------------
(***************************************************************************)
(* NSMutableString: a rope.  The characters live in an array of immutable  *)
(* strings that grows by appending, is compacted to one string on demand   *)
(* and is rebuilt by every other mutation; -UTF8String caches a malloc'ed  *)
(* conversion in _shadow, which every change of the array frees.           *)
(*                                                                         *)
(* An immutable string is modelled by its characters.  The class is not    *)
(* thread safe, so a method is one step.                                   *)
(***************************************************************************)
EXTENDS Naturals, Sequences, SequencesExt

CONSTANTS Char,       \* the characters
          Width,      \* the number of bytes of each in UTF-8
          Text,       \* the strings clients pass as arguments
          Ranges,     \* the NSRanges they pass: [location, length]
          Capacities, \* the capacities they ask for
          Buffer,     \* the addresses malloc can return for the shadow
          NoBuffer,   \* NULL
          Nil,        \* nil as an argument
          Self,       \* the receiver as an argument of its own method
          CompactAt,  \* getCharacters:range: compacts from this length on (8)
          MaxLength,  \* bound of the model: longest text
          MaxCount    \* bound of the model: most chunks

ASSUME WidthIsBytes == Width \in [Char -> 1..4]
ASSUME TextIsText == Text \subseteq Seq(Char)
ASSUME RangesAreRanges == Ranges \subseteq [location : Nat, length : Nat]
ASSUME CapacitiesAreNumbers == Capacities \subseteq Nat
ASSUME NoBufferIsNone == NoBuffer \notin Buffer
ASSUME SelfIsNoText == {Self, Nil} \cap Text = {} /\ Self # Nil /\ Self \notin Seq(Char)
ASSUME BoundsAreNumbers == MaxLength \in Nat /\ MaxCount \in Nat /\ CompactAt \in Nat

VARIABLES state,      \* "none", "live", or "recursing" for ever
          storage,    \* the _count strings of _storage
          length,     \* _length
          size,       \* _size, the strings _storage has room for
          shadow,     \* _shadow
          shadowLen,  \* _shadowLen
          heap,       \* the malloc'ed shadows and the UTF-8 in them
          lent,       \* UTF8String results since the text last changed
          reply       \* what the last method returned

vars == <<state, storage, length, size, shadow, shadowLen, heap, lent, reply>>
rope == <<storage, length, size>>
utf8 == <<shadow, shadowLen, heap>>

count    == Len(storage)
Content  == FlattenSeq(storage)

(* The length of a text in UTF-8, and of all texts in an array.            *)
Bytes(t) ==
    LET sum[i \in 0..Len(t)] == IF i = 0 THEN 0 ELSE sum[i - 1] + Width[t[i]]
    IN  sum[Len(t)]

BytesOfAll(strings) ==
    LET sum[i \in 0..Len(strings)] ==
            IF i = 0 THEN 0 ELSE sum[i - 1] + Bytes(strings[i])
    IN  sum[Len(strings)]

Exception == <<"exception">>
Done      == <<"done">>

Larger(m, n) == IF m > n THEN m ELSE n

Init == /\ state = "none"
        /\ storage = <<>>
        /\ length = 0
        /\ size = 0
        /\ shadow = NoBuffer
        /\ shadowLen = 0
        /\ heap = <<>>
        /\ lent = {}
        /\ reply = Done

-----------------------------------------------------------------------------
(* The functions the methods are built from.                               *)

\* Slip: the pointer is cleared, the memory is not freed.
ForgetShadow == shadow' = NoBuffer /\ UNCHANGED <<heap, shadowLen>>

(* flush_shadow: _shadowLen keeps its old value.                           *)
FlushShadow == /\ heap' = [b \in DOMAIN heap \ {shadow} |-> heap[b]]
               /\ shadow' = NoBuffer
               /\ UNCHANGED shadowLen

(* sizeStorageWithCount                                                    *)
SizeFor(n) == Larger(n + n, 4)

(* copyStringsAndComputeLength: the receiver, met among the strings, is in *)
(* the middle of this very method and copies as what it holds so far.      *)
LengthOf(s, current) == IF s = Self THEN current ELSE Len(s)

Copies(strings) ==
    [i \in 1..Len(strings) |->
        IF strings[i] = Self THEN FlattenSeq(SubSeq(strings, 1, i - 1))
                             ELSE strings[i]]

LengthFrom(n, strings) ==
    LET sum[i \in 0..Len(strings)] ==
            IF i = 0 THEN n ELSE sum[i - 1] + LengthOf(strings[i], sum[i - 1])
    IN  sum[Len(strings)]

\* Slip: _length is not reset before it is added to.
CopyOntoLength(strings) == /\ storage' = Copies(strings)
                           /\ length' = LengthFrom(length, strings)

CopyStrings(strings) == /\ storage' = Copies(strings)
                        /\ length' = LengthFrom(0, strings)

(* shrinkWithStrings                                                       *)
Resized(n, room) == IF n > room \/ n < room \div 4 THEN SizeFor(n) ELSE room

\* Slip: the shadow survives.
ShrinkUnflushed(strings) == /\ size' = Resized(Len(strings), size)
                            /\ CopyStrings(strings)
                            /\ UNCHANGED utf8

ShrinkWith(strings) == /\ FlushShadow
                       /\ size' = Resized(Len(strings), size)
                       /\ CopyStrings(strings)

(* getCharactersInRange walks the strings, skipping those before the range *)
(* and grabbing from the others until the range is used up.                *)
\* Slip: the strings after the first are not read from their start.
GrabAtLocation(walk, s) ==
    LET n    == Len(s)
        some == IF walk.location + walk.length > n THEN n - walk.location
                                                   ELSE walk.length
    IN  IF walk.length = 0 THEN walk
        ELSE IF walk.location >= n
             THEN [walk EXCEPT !.location = @ - n]
             ELSE [walk EXCEPT !.length = @ - some,
                               !.got = @ \o SubSeq(s, walk.location + 1,
                                                      walk.location + some)]

Grab(walk, s) ==
    LET n    == Len(s)
        some == IF walk.location + walk.length > n THEN n - walk.location
                                                   ELSE walk.length
    IN  IF walk.length = 0 THEN walk
        ELSE IF walk.location >= n
             THEN [walk EXCEPT !.location = @ - n]
             ELSE [location |-> 0,
                   length   |-> walk.length - some,
                   got      |-> walk.got \o SubSeq(s, walk.location + 1,
                                                      walk.location + some)]

Start(r) == [location |-> r.location, length |-> r.length, got |-> <<>>]

CharactersInRange(strings, r) ==
    LET walk[i \in 0..Len(strings)] ==
            IF i = 0 THEN Start(r) ELSE Grab(walk[i - 1], strings[i])
    IN  walk[Len(strings)].got

All == [location |-> 0, length |-> length]

(* immutableCopy                                                           *)
ImmutableCopy == IF length = 0 THEN <<>>
                 ELSE IF count = 1 THEN storage[1]
                      ELSE CharactersInRange(storage, All)

(* mulleCompactedString                                                    *)
Compact == IF count <= 1 THEN UNCHANGED <<rope, utf8>>
                         ELSE ShrinkWith(<<ImmutableCopy>>)

(* What a method gets for a range after it compacted.                      *)
IsValid(r)    == r.location + r.length <= length
Substring(r)  == SubSeq(ImmutableCopy, r.location + 1, r.location + r.length)

-----------------------------------------------------------------------------
(* Life.                                                                   *)

(* alloc/init, and the initializers on top of initWithCapacity: and        *)
(* initWithStrings:count:.                                                 *)
InitWith(strings, n) == /\ state = "none"
                        /\ state' = "live"
                        /\ size' = n
                        /\ CopyStrings(strings)
                        /\ UNCHANGED <<utf8, lent>>
                        /\ reply' = Done

InitEmpty == InitWith(<<>>, 0)

InitWithCapacity(n) == InitWith(<<>>, SizeFor(n \div 2))

InitWithStrings(strings) == InitWith(strings, SizeFor(Len(strings)))

\* Slip: -dealloc frees the array only.
DeallocArray == /\ state = "live"
                /\ state' = "none"
                /\ UNCHANGED utf8
                /\ storage' = <<>>
                /\ length' = 0
                /\ size' = 0
                /\ lent' = {}
                /\ reply' = Done

Dealloc == /\ state = "live"
           /\ state' = "none"
           /\ FlushShadow
           /\ storage' = <<>>
           /\ length' = 0
           /\ size' = 0
           /\ lent' = {}
           /\ reply' = Done

-----------------------------------------------------------------------------
(* Mutation.                                                               *)

Mutated == lent' = {} /\ reply' = Done /\ UNCHANGED state
Read(r) == state = "live" /\ reply' = r /\ UNCHANGED <<state, lent>>

\* Slip: the array grows one string too late.
GrownLate == IF count > size THEN Larger(size + size, 8) ELSE size

Grown == IF count >= size THEN Larger(size + size, 8) ELSE size

(* appendString: ignores nil and empty strings.  The receiver may be the   *)
(* argument: it is copied before or after _count is incremented, and       *)
(* copies the same _length characters either way.                          *)
AppendString(s) ==
    LET added == IF s = Self THEN ImmutableCopy ELSE s IN
    /\ state = "live"
    /\ IF s = Nil \/ LengthOf(s, length) = 0
       THEN UNCHANGED <<rope, utf8>>
       ELSE /\ count < MaxCount /\ length + Len(added) <= MaxLength
            /\ size' = Grown
            /\ storage' = Append(storage, added)
            /\ length' = length + Len(added)
            /\ FlushShadow
    /\ Mutated

SetString(s) == /\ state = "live"
                /\ ShrinkWith(IF s = Nil THEN <<>> ELSE <<s>>)
                /\ Mutated

(* substringWithRange: compacts before it looks at the range.  An empty    *)
(* array compacts to the receiver, and the method calls itself again.      *)
SubstringWithRange(r) ==
    /\ count > 0
    /\ Compact
    /\ Read(IF IsValid(r) THEN <<"text", Substring(r)>> ELSE Exception)

RecurseForEver == /\ state' = "recursing"
                  /\ UNCHANGED <<rope, utf8, lent, reply>>

SubstringOfNothing == state = "live" /\ count = 0 /\ RecurseForEver

Recurse == state = "recursing" /\ UNCHANGED vars

(* replaceCharactersInRange:withString: collects what precedes the range,  *)
(* the replacement, and what follows the range.  Either substring compacts *)
(* the receiver and throws if its range is not valid.                      *)
FromStart(r) == r.location = 0
ToEnd(r)     == r.length = length
Leading(r)      == [location |-> 0, length |-> r.location]
Trailing(r)      == [location |-> r.location + r.length,
                 length   |-> length - (r.location + r.length)]

TakesSubstring(r) == ~FromStart(r) \/ ~ToEnd(r)
LeadingIsValid(r)    == FromStart(r) \/ r.location <= length
TrailingIsValid(r)    == ToEnd(r) \/ IsValid(r)

Parts(r, s) ==
    (IF FromStart(r) THEN <<>> ELSE <<Substring(Leading(r))>>)
    \o (IF LengthOf(s, length) = 0 THEN <<>> ELSE <<s>>)
    \o (IF ToEnd(r) THEN <<>> ELSE <<Substring(Trailing(r))>>)

(* What the receiver compacts to on the way is thrown away: it is rebuilt  *)
(* from the parts.  Only the capacity it has by then matters.              *)
ReplaceCharacters(r, s) ==
    /\ state = "live"
    /\ TakesSubstring(r) => count > 0
    /\ LeadingIsValid(r) /\ TrailingIsValid(r)
    /\ length + LengthOf(s, length) <= MaxLength
    /\ LET n    == Len(Parts(r, s))
           room == IF TakesSubstring(r) /\ count > 1 THEN Resized(1, size) ELSE size
       IN  size' = Resized(n, room)
    /\ FlushShadow
    /\ CopyStrings(Parts(r, s))
    /\ Mutated

ReplaceThrows(r) == /\ count > 0
                    /\ ~(LeadingIsValid(r) /\ TrailingIsValid(r))
                    /\ Compact
                    /\ Read(Exception)

ReplaceInNothing(r) == /\ state = "live"
                       /\ count = 0 /\ TakesSubstring(r)
                       /\ RecurseForEver

DeleteCharacters(r) == ReplaceCharacters(r, <<>>)

-----------------------------------------------------------------------------
(* Reading.                                                                *)

CharacterAtIndex(i) ==
    IF i >= length THEN Read(Exception) /\ UNCHANGED <<rope, utf8>>
                   ELSE Compact /\ Read(<<"char", ImmutableCopy[i + 1]>>)

GetCharacters(r) ==
    IF ~IsValid(r)
    THEN Read(Exception) /\ UNCHANGED <<rope, utf8>>
    ELSE /\ IF r.length >= CompactAt THEN Compact ELSE UNCHANGED <<rope, utf8>>
         /\ Read(<<"text", CharactersInRange(storage', r)>>)

Copy == Read(<<"text", ImmutableCopy>>) /\ UNCHANGED <<rope, utf8>>

CompactedString == Compact /\ Read(<<"text", ImmutableCopy>>)

MulleUTF8StringLength ==
    /\ Read(<<"number", IF shadow # NoBuffer THEN shadowLen
                        ELSE BytesOfAll(storage)>>)
    /\ UNCHANGED <<rope, utf8>>

(* UTF8String hands out the cached conversion, or makes and caches it.     *)
UTF8String ==
    /\ IF shadow # NoBuffer
       THEN UNCHANGED utf8
       ELSE \E b \in Buffer \ DOMAIN heap :
               /\ shadow' = b
               /\ heap' = [a \in DOMAIN heap \cup {b} |->
                               IF a = b THEN Content ELSE heap[a]]
               /\ shadowLen' = Bytes(Content)
    /\ state = "live"
    /\ lent' = lent \cup {shadow'}
    /\ reply' = <<"utf8", heap'[shadow']>>
    /\ UNCHANGED <<state, rope>>

-----------------------------------------------------------------------------
Argument == Text \cup {Self, Nil}

Next == \/ InitEmpty
        \/ \E n \in Capacities : InitWithCapacity(n)
        \/ \E s, t \in Text : InitWithStrings(<<s>>) \/ InitWithStrings(<<s, t>>)
        \/ Dealloc
        \/ SubstringOfNothing
        \/ Recurse
        \/ \E s \in Argument : AppendString(s) \/ SetString(s)
        \/ \E r \in Ranges, s \in Argument \ {Nil} : ReplaceCharacters(r, s)
        \/ \E r \in Ranges : \/ DeleteCharacters(r) \/ ReplaceThrows(r)
                             \/ ReplaceInNothing(r)
                             \/ SubstringWithRange(r) \/ GetCharacters(r)
                             \/ CharacterAtIndex(r.location)
        \/ Copy
        \/ CompactedString
        \/ MulleUTF8StringLength
        \/ UTF8String

Spec == Init /\ [][Next]_vars

-----------------------------------------------------------------------------
(* The variables have their types, and a deallocated string keeps no       *)
(* memory.                                                                 *)
TypeOK == /\ state \in {"none", "live", "recursing"}
          /\ storage \in Seq(Seq(Char))
          /\ length \in Nat
          /\ size \in Nat
          /\ shadow \in Buffer \cup {NoBuffer}
          /\ shadowLen \in Nat
          /\ lent \subseteq Buffer
          /\ state = "none" => DOMAIN heap = {}

(* The array has room for the strings in it: no store of a string is out   *)
(* of bounds, after any mix of growing appends and shrinking rebuilds.     *)
ArrayHasRoom == count <= size

(* _length, which the methods keep by adding up, is the number of          *)
(* characters in the array.                                                *)
LengthIsTotal == length = Len(Content)

(* A cached conversion is never stale: it is the UTF-8 of the characters   *)
(* now in the array, and _shadowLen is its length.                         *)
ShadowIsFresh == shadow # NoBuffer => /\ shadow \in DOMAIN heap
                                      /\ heap[shadow] = Content
                                      /\ shadowLen = Bytes(Content)

(* No conversion is leaked: the only one allocated is the cached one.      *)
ShadowIsOwned == DOMAIN heap = {shadow} \ {NoBuffer}

(* The rope implements one plain text.                                     *)
Plain == INSTANCE PlainString WITH exists <- state # "none", text <- Content
PlainSpec == Plain!Spec

(* "do not hang onto the pointer if the string changes": as long as it     *)
(* does not change, a pointer UTF8String returned is valid memory.  This   *)
(* does not hold: compacting the strings for a read frees the buffer.      *)
LentPointersAreValid == lent \subseteq DOMAIN heap

(* Every call of a method returns.  substringWithRange: with a range of no *)
(* characters is valid for every string and answers the empty string.      *)
NoEndlessRecursion == state # "recursing"

=============================================================================
