----------------------------- MODULE Enumerator -----------------------------
(***************************************************************************)
(* struct MulleStringEnumerator: raw pointers into the characters of a     *)
(* string, here of an NSMutableString that may be changed while it is      *)
(* enumerated, and the loops MulleStringFor and MulleStringReverseFor.     *)
(*                                                                         *)
(* The mutable string is an array of immutable strings, whose characters   *)
(* take 1, 2 or 4 bytes each or are in a tagged pointer.  An immutable     *)
(* string is retained by the array or by the autorelease pool, or freed.   *)
(***************************************************************************)
EXTENDS Integers, Sequences, SequencesExt

CONSTANTS Char,       \* the characters
          NoChar,     \* 0
          Invalid,    \* -1
          Junk,       \* what is read where there is no character
          String,     \* the immutable strings that are put into the array
          Object,     \* the addresses of immutable strings
          Own,        \* the characters are in the enumerator's _buf
          Address,    \* the addresses of characters
          MaxTagged,  \* the longest text in a tagged pointer
          MaxCount,   \* bound of the model: most strings in the array
          MaxLength   \* bound of the model: the longest text

Sizes == {0, 1, 2, 4}  \* bytes per character; 0: they are in the pointer

Fits(s) == s.size = 0 => Len(s.text) <= MaxTagged

ASSUME StringsAreStrings ==
    \A s \in String : s \in [size : Sizes, text : Seq(Char)] /\ Fits(s)
ASSUME OwnIsNoObject == Own \notin Object
ASSUME NoneIsAChar == {NoChar, Invalid, Junk} \cap Char = {}
ASSUME AddressIsInt == Address \subseteq Int
ASSUME BoundsAreNumbers == {MaxTagged, MaxCount, MaxLength} \subseteq Nat

VARIABLES heap,      \* the live immutable strings: bytes per character, text
          storage,   \* the mutable string's array of them
          pool,      \* the strings that are retained until the pool drains
          loop,      \* what the enumerator is used for
          turn,      \* where the loop is
          source,    \* the string the enumerator points into, or Own
          buf,       \* _buf
          start, curr, sentinel, size,   \* the other members
          reply      \* what the last call answered

string == <<heap, storage, pool>>
members == <<source, buf, start, sentinel, size>>
vars   == <<string, loop, turn, members, curr, reply>>

No           == <<"no">>
Got(c)       == <<"yes", c>>
Undone(c, d) == <<"undone", c, d>>
NotUndone    == <<"not undone", Invalid, NoChar>>

NoRover == /\ source = Own /\ buf = <<>>
           /\ start = 0 /\ curr = 0 /\ sentinel = 0 /\ size = 4
           /\ reply = No

Init == /\ heap = <<>> /\ storage = <<>> /\ pool = {}
        /\ loop = "closed" /\ turn = "head"
        /\ NoRover

-----------------------------------------------------------------------------
(* The mutable string.                                                     *)

count   == Len(storage)
Content == FlattenSeq([i \in 1..count |-> heap[storage[i]].text])

(* The strings nobody retains are freed.                                   *)
Retain(new, array, autoreleased) ==
    /\ storage' = array
    /\ pool' = autoreleased
    /\ heap' = [o \in (DOMAIN heap \cup DOMAIN new)
                        \cap (Range(array) \cup autoreleased) |->
                    IF o \in DOMAIN new THEN new[o] ELSE heap[o]]

One(o, s) == [x \in {o} |-> s]

\* Slip: the strings of the array are released, not autoreleased.
ShrinkReleasing(new, array) == Retain(new, array, pool \cup DOMAIN new)

(* shrinkWithStrings; a new string is the caller's and is autoreleased.    *)
ShrinkWith(new, array) == Retain(new, array, pool \cup Range(storage) \cup DOMAIN new)

(* appendString: does nothing for an empty string.                         *)
AppendString(o, s) == /\ s.text # <<>>
                      /\ count < MaxCount /\ Len(Content) + Len(s.text) <= MaxLength
                      /\ Retain(One(o, s), Append(storage, o), pool)

(* setString:, also to nil                                                 *)
SetString(o, s) == \/ ShrinkWith(One(o, s), <<o>>)
                   \/ ShrinkWith(<<>>, <<>>)

(* immutableCopy: a tagged string if it fits, or one of UTF-32.            *)
Copy == {s \in [size : {0, 4}, text : {Content}] : Fits(s)}

(* mulleCompactedString of several strings: one string replaces them.      *)
Compact(o) == /\ count > 1
              /\ \E s \in Copy : ShrinkWith(One(o, s), <<o>>)

Free == Object \ DOMAIN heap

(* What a client may do at any time, in the body of a loop too.            *)
Mutate == /\ \E o \in Free : \/ \E s \in String : AppendString(o, s) \/ SetString(o, s)
                             \/ Compact(o)
          /\ UNCHANGED <<loop, turn, members, curr, reply>>

(* A pool drains after the blocks that were opened in it have been left,   *)
(* and a string is retained by whoever enumerates it.                      *)
Drain == /\ loop = "closed"
         /\ pool # {}
         /\ Retain(<<>>, storage, {})
         /\ UNCHANGED <<loop, turn, members, curr, reply>>

Dealloc == /\ loop = "closed"
           /\ storage # <<>>
           /\ Retain(<<>>, <<>>, pool)
           /\ UNCHANGED <<loop, turn, members, curr, reply>>

-----------------------------------------------------------------------------
(* The enumerator.  Its characters are read where the pointers are.        *)

Chars == IF source = Own THEN buf
         ELSE IF source \in DOMAIN heap THEN heap[source].text
         ELSE <<>>

(* _get: the character at an address, which has to be that of a character. *)
Get(a) == LET i == (a - start) \div size + 1
          IN  IF (a - start) % size = 0 /\ i \in 1..Len(Chars) THEN Chars[i] ELSE Junk

(* mulleCompactedString, whose result is then the only string of the array *)
(* if there is any.                                                        *)
CompactedString == \/ \E o \in Free : Compact(o)
                   \/ count <= 1 /\ UNCHANGED string

(* _mulleFastGetData: or, for a tagged or an empty string, the copy.       *)
Aim(o, s) == /\ IF s.size = 0 THEN source' = Own /\ buf' = s.text /\ size' = 4
                              ELSE source' = o /\ buf' = <<>> /\ size' = s.size
             /\ start' \in Address
             /\ sentinel' = start' + size' * Len(s.text)

Nothing == [size |-> 0, text |-> <<>>]

(* _MulleStringEnumeratorInit                                              *)
Open(use) == /\ loop = "closed"
             /\ CompactedString
             /\ IF storage' = <<>> THEN Aim(Own, Nothing)
                                   ELSE Aim(storage'[1], heap'[storage'[1]])
             /\ loop' = use
             /\ reply' = No
             /\ UNCHANGED turn

OpenAtStart(use) == Open(use) /\ curr' = start'

(* _MulleStringEnumeratorInitReverse                                       *)
OpenAtSentinel(use) == Open(use) /\ curr' = sentinel'

(* MulleStringEnumeratorDone does nothing; its block is left.              *)
Close == /\ loop = "free" \/ turn = "done"
         /\ loop' = "closed" /\ turn' = "head"
         /\ source' = Own /\ buf' = <<>>
         /\ start' = 0 /\ curr' = 0 /\ sentinel' = 0 /\ size' = 4
         /\ reply' = No
         /\ UNCHANGED string

Answer(a, r) == curr' = a /\ reply' = r

\* Slip: the sentinel is passed.
NextPastEnd ==
    \/ curr = sentinel + size /\ Answer(curr, No)
    \/ curr # sentinel + size /\ Answer(curr + size, Got(Get(curr)))

\* Slip: the pointer is not moved.
NextStill == \/ curr = sentinel /\ Answer(curr, No)
             \/ curr # sentinel /\ Answer(curr, Got(Get(curr)))

(* MulleStringEnumeratorNext                                               *)
ReadNext == \/ curr = sentinel /\ Answer(curr, No)
            \/ curr # sentinel /\ Answer(curr + size, Got(Get(curr)))

(* MulleStringEnumeratorPrevious                                           *)
ReadPrevious == \/ curr = start /\ Answer(curr, No)
                \/ curr # start /\ Answer(curr - size, Got(Get(curr - size)))

\* Slip: the first character has one before it.
UndoNextWide == \/ curr = start /\ Answer(curr, NotUndone)
                \/ /\ curr # start
                   /\ Answer(curr - size, Undone(Get(curr - size), Get(curr - 2 * size)))

(* _MulleStringEnumeratorUndoNext                                          *)
UndoNext ==
    \/ curr = start /\ Answer(curr, NotUndone)
    \/ /\ curr # start /\ curr - 2 * size < start
       /\ Answer(start, Undone(Get(start), NoChar))
    \/ /\ curr # start /\ curr - 2 * size >= start
       /\ Answer(curr - size, Undone(Get(curr - size), Get(curr - 2 * size)))

(* _MulleStringEnumeratorUndoPrevious                                      *)
UndoPrevious ==
    \/ curr = sentinel /\ Answer(curr, NotUndone)
    \/ /\ curr # sentinel /\ curr + size = sentinel
       /\ Answer(sentinel, Undone(NoChar, NoChar))
    \/ /\ curr # sentinel /\ curr + size # sentinel
       /\ Answer(curr + size,
                 Undone(Get(curr + size),
                        IF curr + 2 * size < sentinel THEN Get(curr + 2 * size)
                                                      ELSE NoChar))

Restart == Answer(start, reply)
Finish  == Answer(sentinel, reply)

HasCharacters == Answer(curr, <<"has", curr < sentinel>>)

(* MulleStringEnumeratorGetIndex shifts by half the size: 0, 1 or 2 bits.  *)
Shift(s) == IF s = 4 THEN 4 ELSE IF s = 2 THEN 2 ELSE 1
GetIndex == Answer(curr, <<"index", (curr - start) \div Shift(size)>>)

(* A client with an enumerator of its own.                                 *)
Use == /\ loop = "free"
       /\ \/ ReadNext \/ ReadPrevious \/ UndoNext \/ UndoPrevious
          \/ Restart \/ Finish \/ HasCharacters \/ GetIndex
       /\ UNCHANGED <<string, loop, turn, members>>

-----------------------------------------------------------------------------
(* MulleStringFor and MulleStringReverseFor                                *)

(* The condition of the while.                                             *)
Condition == /\ loop \in {"for", "reverse"}
             /\ turn = "head"
             /\ IF loop = "for" THEN ReadNext ELSE ReadPrevious
             /\ turn' = IF reply' = No THEN "done" ELSE "body"
             /\ UNCHANGED <<string, loop, members>>

(* The body may get the enumerator and read on.                            *)
ReadOn == /\ turn = "body"
          /\ IF loop = "for" THEN ReadNext ELSE ReadPrevious
          /\ UNCHANGED <<string, loop, turn, members>>

(* The end of the body.                                                    *)
Repeat == /\ turn = "body"
          /\ turn' = "head"
          /\ UNCHANGED <<string, loop, members, curr, reply>>

Loop == Condition \/ Repeat \/ (turn = "done" /\ Close)

Next == \/ Mutate \/ Drain \/ Dealloc
        \/ \E use \in {"free", "for"} : OpenAtStart(use)
        \/ \E use \in {"free", "reverse"} : OpenAtSentinel(use)
        \/ loop = "free" /\ Close
        \/ Use \/ ReadOn \/ Loop

(* A thread that is in a loop goes on.                                     *)
Spec == Init /\ [][Next]_vars /\ WF_vars(Loop)

-----------------------------------------------------------------------------
Strings == {s \in [size : Sizes, text : Seq(Char)] : Fits(s)}

(* Strings in the array and in the pool are live, the pointer is at a      *)
(* character of the string or at its end, and a loop is where it can be.   *)
TypeOK == /\ DOMAIN heap \subseteq Object
          /\ heap \in [DOMAIN heap -> Strings]
          /\ storage \in Seq(DOMAIN heap)
          /\ pool \subseteq DOMAIN heap
          /\ loop \in {"closed", "free", "for", "reverse"}
          /\ turn \in {"head", "body", "done"}
          /\ turn # "head" => loop \in {"for", "reverse"}
          /\ source \in Object \cup {Own}
          /\ buf \in Seq(Char)
          /\ start \in Int /\ size \in Sizes \ {0}
          /\ sentinel = start + size * Len(Chars)
          /\ \E k \in 0..Len(Chars) : curr = start + size * k

(* The string whose characters the enumerator reads is not freed, whatever *)
(* is done to the mutable string meanwhile.                                *)
SourceIsAlive == source = Own \/ source \in DOMAIN heap

(* The index of the position.                                              *)
index == (curr - start) \div size

open == loop # "closed"

Cursor == INSTANCE Cursor WITH text <- Chars

(* The enumerator keeps to the text the string had when it was begun, and  *)
(* reads it like the cursor it promises to be.                             *)
CursorSpec == Cursor!Spec

(* A loop ends, also when its body appends to the string it is over.       *)
LoopsEnd == loop \in {"for", "reverse"} ~> loop = "closed"

=============================================================================
