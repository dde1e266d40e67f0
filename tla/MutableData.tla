----------------------------- MODULE MutableData -----------------------------
(***************************************************************************)
(* NSMutableData, that is _MulleObjCConcreteMutableData with the methods   *)
(* it inherits: bytes in one block of memory that may move whenever the    *)
(* length changes, while callers hold pointers into it and may even pass   *)
(* such a pointer back as an argument.                                     *)
(*                                                                         *)
(* The struct mulle_buffer below it is a library: what is modelled of it   *)
(* is what this code relies on.  The class is not thread safe, so a method *)
(* is one step.                                                            *)
(***************************************************************************)
EXTENDS Naturals, Sequences

CONSTANTS Byte,      \* the values of a byte, 0 among them
          Junk,      \* a byte nobody wrote, or of memory that was freed
          Text,      \* the bytes clients pass as arguments
          Ranges,    \* the NSRanges they pass: [location, length]
          Lengths,   \* the lengths they ask for
          Block,     \* the addresses the allocator can return
          NoBlock,   \* NULL
          MaxLength  \* bound of the model: longest data and largest capacity

ASSUME ZeroIsByte == 0 \in Byte
ASSUME JunkIsNoByte == Junk \notin Byte
ASSUME TextIsBytes == Text \subseteq Seq(Byte)
ASSUME RangesAreRanges == Ranges \subseteq [location : Nat, length : Nat]
ASSUME LengthsAreNumbers == Lengths \subseteq Nat
ASSUME NoBlockIsNone == NoBlock \notin Block
ASSUME BoundIsNumber == MaxLength \in Nat

VARIABLES live,      \* the object is allocated
          content,   \* the first bytes of the storage, as many as its length
          block,     \* where the storage is
          capacity,  \* its size, or the size it gets when it is first needed
          lent,      \* blocks given out since the last mutation
          undefined, \* the caller asked for bytes nobody wrote
          reply      \* what the last method returned

vars == <<live, content, block, capacity, lent, undefined, reply>>
store == <<block, capacity>>

Exception == <<"exception">>
Done      == <<"done">>

length == Len(content)

Init == /\ live = FALSE
        /\ content = <<>>
        /\ block = NoBlock
        /\ capacity = 0
        /\ lent = {}
        /\ undefined = FALSE
        /\ reply = Done

-----------------------------------------------------------------------------
(* Bytes in memory.                                                        *)

Filled(n, v) == [i \in 1..n |-> v]
Part(c, r)   == SubSeq(c, r.location + 1, r.location + r.length)
IsValid(r)   == r.location + r.length <= length

(* The bytes before the first zero: a length of -1 stands for strlen.      *)
CString(t) == SubSeq(t, 1, CHOOSE n \in 0..Len(t) :
                              /\ \A i \in 1..n : t[i] # 0
                              /\ n < Len(t) => t[n + 1] = 0)

(* memmove of s to offset at, and of n bytes from one offset to another.   *)
Overwrite(c, at, s) ==
    [i \in 1..Len(c) |-> IF at < i /\ i <= at + Len(s) THEN s[i - at] ELSE c[i]]
Move(c, to, from, n) == Overwrite(c, to, SubSeq(c, from + 1, from + n))

Resized(c, n, v) == IF n <= Len(c) THEN SubSeq(c, 1, n)
                                   ELSE c \o Filled(n - Len(c), v)

-----------------------------------------------------------------------------
(* The storage: it may move when it grows and when it shrinks.             *)

Allocate(n) == /\ n <= MaxLength
               /\ block' \in Block
               /\ capacity' \in n..MaxLength

Grow(n) == IF block # NoBlock /\ n <= capacity THEN UNCHANGED store ELSE Allocate(n)

Reset == /\ block' \in {block, NoBlock}
         /\ capacity' \in 0..capacity

(* setLength: and mulleSetLengthDontZero: on the storage.                  *)
SetStore(n) == IF n = length THEN UNCHANGED store
               ELSE IF n = 0 THEN Reset
               ELSE IF n > length THEN Grow(n)
               ELSE block' \in Block /\ capacity' \in n..capacity

(* Storage that was only announced is allocated when a pointer is wanted.  *)
NeedsStore == block = NoBlock /\ capacity > 0
SetUp      == IF NeedsStore THEN Allocate(capacity) ELSE UNCHANGED store

-----------------------------------------------------------------------------
(* Life.                                                                   *)

Create(c) == /\ ~live
             /\ live' = TRUE
             /\ content' = c
             /\ reply' = Done
             /\ UNCHANGED <<lent, undefined>>

(* mulleNewWithCapacity: only records the capacity.                        *)
InitWithCapacity(n) == /\ n <= MaxLength
                       /\ Create(<<>>)
                       /\ capacity' = n
                       /\ UNCHANGED block

InitNonZeroedCapacity(n) == Create(<<>>) /\ Allocate(n)

InitWithBytes(t) == Create(t) /\ Grow(Len(t))

InitWithCString(t) == InitWithBytes(CString(t))

InitWithLength(n) == Create(Filled(n, 0)) /\ Grow(n)

(* NULL is fine for no bytes.                                              *)
InitWithNull(n) == /\ ~live
                   /\ n > 0
                   /\ reply' = Exception
                   /\ UNCHANGED <<live, content, store, lent, undefined>>

\* Slip: the storage is not freed.
DeallocObject == /\ live
                 /\ live' = FALSE
                 /\ content' = <<>>
                 /\ lent' = {}
                 /\ undefined' = FALSE
                 /\ reply' = Done
                 /\ UNCHANGED store

Dealloc == /\ live
           /\ live' = FALSE
           /\ content' = <<>>
           /\ block' = NoBlock
           /\ capacity' = 0
           /\ lent' = {}
           /\ undefined' = FALSE
           /\ reply' = Done

-----------------------------------------------------------------------------
(* Mutation.                                                               *)

Mutate(c) == /\ live
             /\ Len(c) <= MaxLength
             /\ content' = c
             /\ lent' = {}
             /\ reply' = Done
             /\ UNCHANGED live

Read(r) == /\ live
           /\ reply' = r
           /\ UNCHANGED <<live, content, undefined>>

Throw == Read(Exception) /\ UNCHANGED <<store, lent>>

AppendBytes(t) == /\ Mutate(content \o t)
                  /\ Grow(length + Len(t))
                  /\ UNCHANGED undefined

AppendCString(t) == AppendBytes(CString(t))

\* Slip: bytes of the data itself are added without a temporary copy.
AppendInPlace(r) ==
    /\ IsValid(r)
    /\ Grow(length + r.length)
    /\ Mutate(content \o (IF block' = block THEN Part(content, r)
                                            ELSE Filled(r.length, Junk)))
    /\ UNCHANGED undefined

(* The bytes to add are in the data itself: append_via_tmp_buffer.         *)
AppendOwnBytes(r) == IsValid(r) /\ AppendBytes(Part(content, r))

IncreaseLengthBy(n) == AppendBytes(Filled(n, 0))

SetLength(n) == /\ Mutate(Resized(content, n, 0))
                /\ SetStore(n)
                /\ UNCHANGED undefined

SetLengthDontZero(n) == /\ Mutate(Resized(content, n, Junk))
                        /\ SetStore(n)
                        /\ undefined' = (undefined \/ n > length)

(* replaceBytesInRange:withBytes: and resetBytesInRange: stay in place, so *)
(* the bytes may well be the data's own.                                   *)
ReplaceInPlace(r, t) == IF IsValid(r)
                        THEN /\ Len(t) = r.length
                             /\ Mutate(Overwrite(content, r.location, t))
                             /\ UNCHANGED <<store, undefined>>
                        ELSE Throw

ResetBytes(r) == ReplaceInPlace(r, Filled(r.length, 0))

(* replaceBytesInRange:withBytes:length: grows first and moves the bytes   *)
(* after the range, replaces, then closes the gap and shrinks.             *)
Rest(r)        == r.location + r.length
NewLength(r, k) == length + k - r.length

Opened(r, k) ==
    IF k > r.length
    THEN Move(Resized(content, NewLength(r, k), 0),
              Rest(r) + k - r.length, Rest(r), length - Rest(r))
    ELSE content

\* Slip: the data is cut to its new length before the rest has moved down.
CutThenMove(r, s) ==
    LET cut == Resized(Overwrite(Opened(r, Len(s)), r.location, s),
                       NewLength(r, Len(s)), 0)
    IN  Overwrite(cut, r.location + Len(s), SubSeq(cut, Rest(r) + 1, Len(cut)))

Closed(r, s) ==
    LET written == Overwrite(Opened(r, Len(s)), r.location, s)
    IN  IF Len(s) < r.length
        THEN Resized(Move(written, r.location + Len(s), Rest(r), length - Rest(r)),
                     NewLength(r, Len(s)), 0)
        ELSE written

ReplaceStore(n) == IF n = length THEN SetUp ELSE SetStore(n)

ReplaceBytes(r, t) == IF IsValid(r)
                      THEN /\ Mutate(Closed(r, t))
                           /\ ReplaceStore(NewLength(r, Len(t)))
                           /\ UNCHANGED undefined
                      ELSE Throw

(* The same with bytes of the data itself.  When it grows, they are read   *)
(* after the storage may have moved and after the rest has been moved over *)
(* them.                                                                   *)
Reread(r, q) == IF block' = block THEN Part(Opened(r, q.length), q)
                                  ELSE Filled(q.length, Junk)

ReplaceWithOwnBytes(r, q) ==
    /\ IsValid(q)
    /\ IF ~IsValid(r)
       THEN Throw
       ELSE /\ ReplaceStore(NewLength(r, q.length))
            /\ IF q.length > r.length
               THEN Mutate(Closed(r, Reread(r, q))) /\ undefined' = TRUE
               ELSE Mutate(Closed(r, Part(content, q))) /\ UNCHANGED undefined

(* setData: sets the length, then replaces all.                            *)
SetData(t) == /\ Mutate(Overwrite(Resized(content, Len(t), 0), 0, t))
              /\ SetStore(Len(t))
              /\ UNCHANGED undefined

SetDataToItself == SetData(content)

-----------------------------------------------------------------------------
(* Reading.                                                                *)

Lend(b) == lent' = lent \cup ({b} \ {NoBlock})

Bytes == /\ IF content = <<>>
            THEN Read(<<"null">>) /\ UNCHANGED lent
            ELSE Read(<<"data", content>>) /\ Lend(block)
         /\ UNCHANGED store

\* Slip: the recorded capacity becomes the length (as it once did).
PromoteCapacity ==
    /\ live
    /\ SetUp
    /\ content' = IF NeedsStore THEN Filled(capacity, Junk) ELSE content
    /\ Lend(block')
    /\ reply' = IF block' = NoBlock THEN <<"null">> ELSE <<"memory">>
    /\ UNCHANGED <<live, undefined>>

\* Slip: any storage is grown to the recorded capacity again.
GrowAlways == /\ IF capacity > 0 THEN Allocate(capacity) ELSE UNCHANGED store
              /\ Read(IF block' = NoBlock THEN <<"null">> ELSE <<"memory">>)
              /\ Lend(block')

(* mutableBytes and mulleMutableData                                       *)
MutableBytes == /\ SetUp
                /\ Read(IF block' = NoBlock THEN <<"null">> ELSE <<"memory">>)
                /\ Lend(block')

(* copy, immutableCopy and mulleCData do not depend on the length.         *)
Copy == Read(<<"data", content>>) /\ UNCHANGED <<store, lent>>

(* getBytes:range: and subdataWithRange:                                   *)
GetBytes(r) == /\ Read(IF IsValid(r) THEN <<"data", Part(content, r)>> ELSE Exception)
               /\ UNCHANGED <<store, lent>>

-----------------------------------------------------------------------------
Next == \/ \E n \in Lengths : \/ InitWithCapacity(n) \/ InitNonZeroedCapacity(n)
                              \/ InitWithLength(n) \/ InitWithNull(n)
                              \/ SetLength(n) \/ SetLengthDontZero(n)
                              \/ IncreaseLengthBy(n)
        \/ \E t \in Text : \/ InitWithBytes(t) \/ InitWithCString(t)
                           \/ AppendBytes(t) \/ AppendCString(t)
                           \/ SetData(t)
        \/ \E r \in Ranges : AppendOwnBytes(r) \/ ResetBytes(r) \/ GetBytes(r)
        \/ \E r \in Ranges, t \in Text : ReplaceInPlace(r, t) \/ ReplaceBytes(r, t)
        \/ \E r, q \in Ranges : ReplaceWithOwnBytes(r, q)
        \/ SetDataToItself
        \/ Dealloc
        \/ Bytes
        \/ MutableBytes
        \/ Copy

Spec == Init /\ [][Next]_vars

-----------------------------------------------------------------------------
(* The variables have their types; the storage has room for the content;   *)
(* a deallocated data keeps no storage.                                    *)
TypeOK == /\ live \in BOOLEAN
          /\ content \in Seq(Byte \cup {Junk})
          /\ block \in Block \cup {NoBlock}
          /\ capacity \in Nat
          /\ lent \subseteq Block
          /\ undefined \in BOOLEAN
          /\ length <= capacity
          /\ content # <<>> => block # NoBlock
          /\ ~live => block = NoBlock

(* No byte is visible that nobody wrote, unless the caller waived the      *)
(* zero filling or replaced bytes by the data's own while it grew.         *)
ContentIsDefined == ~undefined => content \in Seq(Byte)

(* A pointer that bytes or mutableBytes returned stays valid until the     *)
(* data is mutated: no getter moves the storage.                           *)
LentBytesAreValid == lent \subseteq {block}

(* The storage and its moves implement one plain row of bytes.             *)
Plain == INSTANCE PlainData WITH exists <- live, bytes <- content
PlainSpec == Plain!Spec

=============================================================================
