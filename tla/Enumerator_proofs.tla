-------------------------- MODULE Enumerator_proofs --------------------------
(***************************************************************************)
(* Proofs about Enumerator for any characters, strings, addresses and      *)
(* bounds: the string under the pointers stays alive and unchanged while   *)
(* the mutable string it came from is mutated, and the enumerator is the   *)
(* cursor it promises to be.                                               *)
(*                                                                         *)
(* The invariant adds to the types who keeps the string alive: the array   *)
(* or the pool (Kept).  A mutation moves the strings of the array to the   *)
(* pool and frees none (Survive).                                          *)
(***************************************************************************)
EXTENDS Enumerator, RopeLemmas

HeapOK == /\ DOMAIN heap \subseteq Object
          /\ heap \in [DOMAIN heap -> Strings]
          /\ storage \in Seq(DOMAIN heap)
          /\ pool \subseteq DOMAIN heap

LoopOK == /\ loop \in {"closed", "free", "for", "reverse"}
          /\ turn \in {"head", "body", "done"}
          /\ turn # "head" => loop \in {"for", "reverse"}

RoverOK == /\ source \in Object \cup {Own}
           /\ buf \in Seq(Char)
           /\ start \in Int /\ size \in Sizes \ {0}
           /\ sentinel = start + size * Len(Chars)

CurrOK == \E k \in 0..Len(Chars) : curr = start + size * k

Retained == Range(storage) \cup pool

Kept == /\ source = Own \/ source \in Retained
        /\ loop = "closed" => source = Own

IInv == HeapOK /\ LoopOK /\ RoverOK /\ CurrOK /\ Kept

(* Every string that is retained still is, and is what it was.             *)
Survive == \A o \in Retained : o \in Retained' /\ heap'[o] = heap[o]

LEMMA IInvParts == IInv <=> TypeOK /\ Kept
BY DEF IInv, TypeOK, HeapOK, LoopOK, RoverOK, CurrOK

-----------------------------------------------------------------------------
(* The mutable string.                                                     *)

LEMMA RetainedAreLive ==
    ASSUME HeapOK
    PROVE  Range(storage) \subseteq DOMAIN heap /\ Retained \subseteq DOMAIN heap
<1>1. \A i \in 1..Len(storage) : storage[i] \in DOMAIN heap
  BY ElementOfSeq DEF HeapOK
<1>2. DOMAIN storage = 1..Len(storage)
  BY LenProperties DEF HeapOK
<1> QED BY <1>1, <1>2 DEF HeapOK, Range, Retained

(* What is retained is kept, what is not is freed.                         *)
LEMMA RetainIsSound ==
    ASSUME HeapOK,
           NEW new, new \in [DOMAIN new -> Strings], DOMAIN new \subseteq Free,
           NEW array \in Seq(DOMAIN heap \cup DOMAIN new),
           NEW kept, kept \subseteq DOMAIN heap \cup DOMAIN new,
           Retain(new, array, kept)
    PROVE  /\ HeapOK'
           /\ \A o \in DOMAIN heap \cap (Range(array) \cup kept) :
                  o \in Retained' /\ heap'[o] = heap[o]
<1> DEFINE D == (DOMAIN heap \cup DOMAIN new) \cap (Range(array) \cup kept)
<1>1. /\ storage' = array /\ pool' = kept
      /\ DOMAIN heap' = D
      /\ \A o \in D : heap'[o] = IF o \in DOMAIN new THEN new[o] ELSE heap[o]
      /\ heap' = [o \in D |-> heap'[o]]
  BY DEF Retain
<1>2. D \subseteq Object
  BY DEF HeapOK, Free
<1>3. \A o \in D : heap'[o] \in Strings
  BY <1>1 DEF HeapOK
<1>4. DOMAIN array = 1..Len(array) /\ Len(array) \in Nat
  BY LenProperties
<1>5. \A i \in 1..Len(array) : array[i] \in D
  <2>1. \A i \in 1..Len(array) : array[i] \in DOMAIN heap \cup DOMAIN new
    BY ElementOfSeq
  <2> QED BY <2>1, <1>4 DEF Range
<1>6. array \in Seq(D)
  <2>1. array \in [1..Len(array) -> DOMAIN heap \cup DOMAIN new]
    BY LenProperties
  <2>2. array \in [1..Len(array) -> D]
    BY <2>1, <1>5
  <2> QED BY <2>2, <1>4
<1>7. HeapOK'
  <2>1. heap' \in [D -> Strings]
    BY <1>1, <1>3
  <2>2. kept \subseteq D
    OBVIOUS
  <2> HIDE DEF D
  <2> QED BY <1>1, <1>2, <1>6, <2>1, <2>2 DEF HeapOK
<1>8. \A o \in DOMAIN heap : o \notin DOMAIN new
  BY DEF Free
<1>9. Retained' = Range(array) \cup kept
  BY <1>1 DEF Retained
<1> QED BY <1>1, <1>7, <1>8, <1>9

LEMMA OneIsOne ==
    ASSUME NEW o \in Free, NEW s \in Strings
    PROVE  /\ DOMAIN One(o, s) = {o} /\ DOMAIN One(o, s) \subseteq Free
           /\ One(o, s) \in [DOMAIN One(o, s) -> Strings]
           /\ <<o>> \in Seq(DOMAIN One(o, s))
<1>1. DOMAIN One(o, s) = {o}
  BY DEF One
<1>2. <<o>> \in Seq({o})
  OBVIOUS
<1>3. One(o, s) \in [{o} -> Strings]
  BY DEF One
<1> QED BY <1>1, <1>2, <1>3

LEMMA NoneIsNone == DOMAIN << >> = {} /\ << >> \in [DOMAIN << >> -> Strings]
OBVIOUS

(* Shrinking frees no string.                                              *)
LEMMA ShrinkSurvives ==
    ASSUME HeapOK,
           NEW new, new \in [DOMAIN new -> Strings], DOMAIN new \subseteq Free,
           NEW array \in Seq(DOMAIN new),
           ShrinkWith(new, array)
    PROVE  HeapOK' /\ Survive
<1> DEFINE kept == pool \cup Range(storage) \cup DOMAIN new
<1>1. array \in Seq(DOMAIN heap \cup DOMAIN new)
  BY SeqMonotonic
<1>2. kept \subseteq DOMAIN heap \cup DOMAIN new
  BY RetainedAreLive DEF HeapOK
<1>3. Retain(new, array, kept)
  BY DEF ShrinkWith
<1>4. Retained \subseteq DOMAIN heap \cap (Range(array) \cup kept)
  BY RetainedAreLive DEF Retained
<1> HIDE DEF kept
<1>5. /\ HeapOK'
      /\ \A o \in DOMAIN heap \cap (Range(array) \cup kept) :
             o \in Retained' /\ heap'[o] = heap[o]
  BY <1>1, <1>2, <1>3, RetainIsSound
<1> QED BY <1>4, <1>5 DEF Survive

LEMMA ContentIsText ==
    ASSUME HeapOK PROVE Content \in Seq(Char)
<1> DEFINE text(i) == heap[storage[i]].text
<1>1. Len(storage) \in Nat
  BY LenProperties DEF HeapOK
<1>2. \A i \in 1..Len(storage) : text(i) \in Seq(Char)
  <2> TAKE i \in 1..Len(storage)
  <2>1. storage[i] \in DOMAIN heap
    BY ElementOfSeq DEF HeapOK
  <2>2. heap[storage[i]] \in Strings
    BY <2>1 DEF HeapOK
  <2> QED BY <2>2 DEF Strings
<1> HIDE DEF text
<1>3. [i \in 1..Len(storage) |-> text(i)] \in Seq(Seq(Char))
  BY <1>1, <1>2
<1>4. FlattenSeq([i \in 1..Len(storage) |-> text(i)]) \in Seq(Char)
  BY <1>3, ConcatenationIsText
<1> QED BY <1>4 DEF Content, count, text

LEMMA CompactSurvives ==
    ASSUME HeapOK, NEW o \in Free, Compact(o)
    PROVE  HeapOK' /\ Survive /\ storage' = <<o>>
<1>1. PICK s \in Copy : ShrinkWith(One(o, s), <<o>>)
  BY DEF Compact
<1>2. s \in Strings
  <2>1. PICK text : text = Content
    OBVIOUS
  <2>2. text \in Seq(Char)
    BY <2>1, ContentIsText
  <2>3. s \in [size : {0, 4}, text : {text}] /\ Fits(s)
    BY <2>1 DEF Copy
  <2>4. s \in [size : Sizes, text : Seq(Char)]
    BY <2>2, <2>3 DEF Sizes
  <2> QED BY <2>3, <2>4 DEF Strings
<1>3. HeapOK' /\ Survive
  BY <1>1, <1>2, OneIsOne, ShrinkSurvives
<1> QED BY <1>1, <1>3 DEF ShrinkWith, Retain

LEMMA MutateSurvives ==
    ASSUME HeapOK, Mutate
    PROVE  HeapOK' /\ Survive
<1>1. PICK o \in Free : \/ \E s \in String : AppendString(o, s) \/ SetString(o, s)
                        \/ Compact(o)
  BY DEF Mutate
<1>2. String \subseteq Strings
  BY StringsAreStrings DEF Strings
<1>3. ASSUME NEW s \in String, AppendString(o, s) PROVE HeapOK' /\ Survive
  <2> DEFINE array == Append(storage, o)
  <2>1. storage \in Seq(DOMAIN heap \cup {o}) /\ storage \in Seq(DOMAIN heap)
    BY SeqMonotonic DEF HeapOK
  <2>2. array \in Seq(DOMAIN heap \cup {o})
    BY <2>1
  <2>3. Range(storage) \subseteq Range(array)
    <3>1. DOMAIN storage = 1..Len(storage) /\ Len(storage) \in Nat
      BY <2>1, LenProperties
    <3>2. \A i \in 1..Len(storage) : i \in DOMAIN array /\ array[i] = storage[i]
      BY <2>1, <3>1
    <3> HIDE DEF array
    <3> QED BY <3>1, <3>2 DEF Range
  <2>4. Retain(One(o, s), array, pool)
    BY <1>3 DEF AppendString
  <2>5. Retained \subseteq DOMAIN heap \cap (Range(array) \cup pool)
    BY <2>3, RetainedAreLive DEF Retained
  <2>6. pool \subseteq DOMAIN heap \cup DOMAIN One(o, s)
    BY DEF HeapOK
  <2> HIDE DEF array
  <2>7. /\ HeapOK'
        /\ \A x \in DOMAIN heap \cap (Range(array) \cup pool) :
               x \in Retained' /\ heap'[x] = heap[x]
    BY <1>2, <2>2, <2>4, <2>6, OneIsOne, RetainIsSound
  <2> QED BY <2>5, <2>7 DEF Survive
<1>4. ASSUME NEW s \in String, ShrinkWith(One(o, s), <<o>>) PROVE HeapOK' /\ Survive
  <2>1. s \in Strings
    BY <1>2
  <2> QED BY <1>4, <2>1, OneIsOne, ShrinkSurvives
<1>5. ASSUME ShrinkWith(<< >>, << >>) PROVE HeapOK' /\ Survive
  <2>1. << >> \in Seq(DOMAIN << >>)
    OBVIOUS
  <2> QED BY <1>5, <2>1, NoneIsNone, ShrinkSurvives
<1>6. CASE Compact(o)
  BY <1>6, CompactSurvives
<1> QED BY <1>1, <1>3, <1>4, <1>5, <1>6 DEF SetString

-----------------------------------------------------------------------------
(* The pointers.                                                           *)

(* A character takes 1, 2 or 4 bytes.                                      *)
LEMMA Multiples ==
    ASSUME NEW z \in {1, 2, 4}, NEW k \in Int
    PROVE  /\ z * k \in Int
           /\ (z * k) \div z = k /\ (z * k) % z = 0
           /\ z * (k + 1) = z * k + z /\ z * (k - 1) = z * k - z
           /\ z * k = 0 <=> k = 0
           /\ \A n \in Int : /\ z * k < z * n <=> k < n
                            /\ z * k = z * n <=> k = n
<1>1. CASE z = 1
  BY <1>1
<1>2. CASE z = 2
  BY <1>2
<1>3. CASE z = 4
  BY <1>3
<1> QED BY <1>1, <1>2, <1>3

(* The k-th address is that of the character after k of them.              *)
LEMMA GetIsCharacter ==
    ASSUME start \in Int, size \in {1, 2, 4}, Chars \in Seq(Char),
           NEW k \in 0..(Len(Chars) - 1)
    PROVE  Get(start + size * k) = Chars[k + 1]
<1>1. (start + size * k) - start = size * k
  BY Multiples
<1>2. (size * k) \div size = k /\ (size * k) % size = 0
  BY Multiples
<1>3. k + 1 \in 1..Len(Chars)
  BY LenProperties
<1> QED BY <1>1, <1>2, <1>3 DEF Get

LEMMA CharsAreText ==
    ASSUME HeapOK, RoverOK PROVE Chars \in Seq(Char)
<1>1. CASE source = Own
  BY <1>1 DEF Chars, RoverOK
<1>2. CASE source # Own /\ source \in DOMAIN heap
  BY <1>2 DEF Chars, HeapOK, Strings
<1>3. CASE source # Own /\ source \notin DOMAIN heap
  BY <1>3 DEF Chars
<1> QED BY <1>1, <1>2, <1>3

(* The characters under the pointers do not change.                        *)
LEMMA CharsSurvive ==
    ASSUME HeapOK, HeapOK', Kept, Survive, UNCHANGED members
    PROVE  Chars' = Chars /\ (source = Own \/ source \in Retained)'
<1>1. CASE source = Own
  BY <1>1 DEF Chars, members
<1>2. CASE source # Own
  <2>1. source \in Retained /\ source \in Retained' /\ heap'[source] = heap[source]
    BY <1>2 DEF Kept, Survive
  <2>2. source \in DOMAIN heap
    BY <2>1, RetainedAreLive
  <2>3. Retained' \subseteq DOMAIN heap'
    <3>1. storage' \in Seq(DOMAIN heap') /\ pool' \subseteq DOMAIN heap'
      BY DEF HeapOK
    <3>2. \A i \in 1..Len(storage') : storage'[i] \in DOMAIN heap'
      BY <3>1, ElementOfSeq
    <3>3. DOMAIN storage' = 1..Len(storage')
      BY <3>1, LenProperties
    <3> QED BY <3>1, <3>2, <3>3 DEF Retained, Range
  <2>4. source' = source
    BY DEF members
  <2>5. source' \in Retained'
    BY <2>1, <2>4
  <2> QED BY <1>2, <2>1, <2>2, <2>3, <2>4, <2>5 DEF Chars
<1> QED BY <1>1, <1>2

Answered == \/ \E r : Answer(curr, r)
            \/ /\ curr # sentinel /\ curr' = curr + size
            \/ /\ curr # start /\ curr' = curr - size
            \/ curr' = start
            \/ curr' = sentinel

(* A call keeps the pointer within the characters.                         *)
LEMMA AnsweredStays ==
    ASSUME IInv, Answered, UNCHANGED <<string, members>>
    PROVE  HeapOK' /\ RoverOK' /\ CurrOK' /\ Chars' = Chars
<1>1. HeapOK'
  BY DEF IInv, HeapOK, string
<1>2. Chars' = Chars /\ size' = size /\ start' = start /\ sentinel' = sentinel
  BY DEF string, members, Chars
<1>3. RoverOK'
  BY <1>2 DEF IInv, RoverOK, members
<1>4. Chars \in Seq(Char) /\ Len(Chars) \in Nat
  BY CharsAreText, LenProperties DEF IInv
<1>5. size \in {1, 2, 4} /\ start \in Int /\ sentinel = start + size * Len(Chars)
  BY DEF IInv, RoverOK, Sizes
<1>6. PICK k \in 0..Len(Chars) : curr = start + size * k
  BY DEF IInv, CurrOK
<1>7. \E j \in 0..Len(Chars) : curr' = start + size * j
  <2>1. size * k \in Int /\ size * Len(Chars) \in Int /\ size * 0 = 0
    BY <1>4, <1>5, Multiples
  <2>2. CASE curr' = curr
    BY <1>6, <2>2
  <2>3. CASE curr # sentinel /\ curr' = curr + size
    <3>1. k # Len(Chars)
      BY <1>5, <1>6, <2>3
    <3>2. k + 1 \in 0..Len(Chars) /\ size * (k + 1) = size * k + size
      BY <1>4, <1>5, <3>1, Multiples
    <3>3. curr' = start + size * (k + 1)
      BY <1>5, <1>6, <2>1, <2>3, <3>2
    <3> QED BY <3>2, <3>3
  <2>4. CASE curr # start /\ curr' = curr - size
    <3>1. k # 0
      BY <1>5, <1>6, <2>1, <2>4
    <3>2. k - 1 \in 0..Len(Chars) /\ size * (k - 1) = size * k - size
      BY <1>4, <1>5, <3>1, Multiples
    <3>3. curr' = start + size * (k - 1)
      BY <1>5, <1>6, <2>1, <2>4, <3>2
    <3> QED BY <3>2, <3>3
  <2>5. CASE curr' = start
    <3>1. 0 \in 0..Len(Chars) /\ start = start + size * 0
      BY <1>4, <1>5, <2>1
    <3> QED BY <2>5, <3>1
  <2>6. CASE curr' = sentinel
    BY <1>4, <1>5, <2>6
  <2> QED BY <2>2, <2>3, <2>4, <2>5, <2>6 DEF Answered, Answer
<1>8. CurrOK'
  BY <1>2, <1>7 DEF CurrOK
<1> QED BY <1>1, <1>2, <1>3, <1>8

-----------------------------------------------------------------------------
(* The invariant.                                                          *)

LEMMA InitIsSound == Init => IInv
<1> SUFFICES ASSUME Init PROVE IInv
  OBVIOUS
<1>1. HeapOK /\ LoopOK
  BY DEF Init, HeapOK, LoopOK
<1>2. Chars = << >> /\ start = 0 /\ size = 4 /\ curr = 0 /\ sentinel = 0 /\ source = Own
  BY DEF Init, NoRover, Chars
<1>3. RoverOK /\ CurrOK
  BY <1>2 DEF RoverOK, CurrOK, Init, NoRover, Sizes
<1>4. Kept
  BY <1>2 DEF Kept
<1> QED BY <1>1, <1>3, <1>4 DEF IInv

LEMMA UseIsAnswered ==
    ASSUME \/ ReadNext \/ ReadPrevious \/ UndoNext \/ UndoPrevious
           \/ Restart \/ Finish \/ HasCharacters \/ GetIndex,
           IInv
    PROVE  Answered
<1>1. size \in Int /\ start \in Int /\ curr \in Int
  <2>1. PICK k \in 0..Len(Chars) : curr = start + size * k
    BY DEF IInv, CurrOK
  <2>2. size \in {1, 2, 4} /\ start \in Int
    BY DEF IInv, RoverOK, Sizes
  <2>3. Len(Chars) \in Nat
    BY CharsAreText, LenProperties DEF IInv
  <2>4. k \in Int
    BY <2>3
  <2>5. size * k \in Int
    BY <2>2, <2>4, Multiples
  <2> QED BY <2>1, <2>2, <2>5
<1>2. CASE ReadNext
  BY <1>2 DEF ReadNext, Answer, Answered
<1>3. CASE ReadPrevious
  BY <1>3 DEF ReadPrevious, Answer, Answered
<1>4. CASE UndoNext
  BY <1>4 DEF UndoNext, Answer, Answered
<1>5. CASE UndoPrevious
  BY <1>5 DEF UndoPrevious, Answer, Answered
<1>6. CASE Restart \/ Finish
  BY <1>6 DEF Restart, Finish, Answer, Answered
<1>7. CASE HasCharacters \/ GetIndex
  BY <1>7 DEF HasCharacters, GetIndex, Answer, Answered
<1> QED BY <1>2, <1>3, <1>4, <1>5, <1>6, <1>7

(* The enumerator is aimed at a string that the array retains.             *)
LEMMA OpenIsSound ==
    ASSUME IInv, NEW use \in {"free", "for", "reverse"}, Open(use),
           curr' = start' \/ curr' = sentinel', LoopOK'
    PROVE  IInv'
<1>1. HeapOK'
  <2>1. CASE \E o \in Free : Compact(o)
    BY <2>1, CompactSurvives DEF IInv
  <2>2. CASE UNCHANGED string
    BY <2>2 DEF IInv, HeapOK, string
  <2> QED BY <2>1, <2>2 DEF Open, CompactedString
<1> DEFINE Aimed(o, s) ==
        /\ Aim(o, s)
        /\ s = Nothing \/ (o \in Retained' /\ o \in DOMAIN heap' /\ s = heap'[o])
<1>2. \E o, s : Aimed(o, s)
  <2>1. CASE storage' = << >>
    <3>1. Aim(Own, Nothing)
      BY <2>1 DEF Open
    <3>2. Aimed(Own, Nothing)
      BY <3>1
    <3> HIDE DEF Aimed
    <3> QED BY <3>2
  <2>2. CASE storage' # << >>
    <3>1. storage' \in Seq(DOMAIN heap')
      BY <1>1 DEF HeapOK
    <3>2. 1 \in DOMAIN storage' /\ storage'[1] \in DOMAIN heap'
      BY <2>2, <3>1, EmptySeq, LenProperties, ElementOfSeq
    <3>3. storage'[1] \in Retained'
      BY <3>2 DEF Retained, Range
    <3>4. Aim(storage'[1], heap'[storage'[1]])
      BY <2>2 DEF Open
    <3> QED BY <3>2, <3>3, <3>4
  <2> QED BY <2>1, <2>2
<1>3. PICK o, s : Aimed(o, s)
  BY <1>2
<1>4. s.size \in Sizes /\ s.text \in Seq(Char)
  <2>1. CASE s = Nothing
    BY <2>1 DEF Nothing, Sizes
  <2>2. CASE o \in DOMAIN heap' /\ s = heap'[o]
    BY <1>1, <2>2 DEF HeapOK, Strings
  <2> QED BY <1>3, <2>1, <2>2
<1>5. /\ source' \in Object \cup {Own}
      /\ source' = Own \/ source' \in Retained'
      /\ Chars' = s.text
      /\ size' \in {1, 2, 4}
      /\ buf' \in Seq(Char)
  <2>1. CASE s.size = 0
    <3>1. source' = Own /\ buf' = s.text /\ size' = 4
      BY <1>3, <2>1 DEF Aim
    <3> QED BY <1>4, <3>1 DEF Chars
  <2>2. CASE s.size # 0
    <3>1. source' = o /\ buf' = << >> /\ size' = s.size
      BY <1>3, <2>2 DEF Aim
    <3>2. o \in Retained' /\ o \in DOMAIN heap' /\ s = heap'[o]
      BY <1>3, <2>2 DEF Nothing
    <3>3. o \in Object /\ o # Own
      BY <1>1, <3>2, OwnIsNoObject DEF HeapOK
    <3>4. << >> \in Seq(Char)
      OBVIOUS
    <3> QED BY <1>4, <2>2, <3>1, <3>2, <3>3, <3>4 DEF Chars, Sizes
  <2> QED BY <2>1, <2>2
<1>6. start' \in Int /\ sentinel' = start' + size' * Len(Chars')
  BY <1>3, <1>5, AddressIsInt DEF Aim
<1>7. RoverOK'
  BY <1>5, <1>6 DEF RoverOK, Sizes
<1>8. CurrOK'
  <2>1. Len(Chars') \in Nat
    BY <1>4, <1>5, LenProperties
  <2>2. 0 \in 0..Len(Chars') /\ Len(Chars') \in 0..Len(Chars')
    BY <2>1
  <2>3. CASE curr' = start'
    <3>1. PICK z \in {1, 2, 4} : z = size'
      BY <1>5
    <3>2. PICK a \in Int : a = start'
      BY <1>6
    <3>3. a = a + z * 0
      BY z = 1 \/ z = 2 \/ z = 4
    <3>4. curr' = start' + size' * 0
      BY <2>3, <3>1, <3>2, <3>3
    <3> QED BY <2>2, <3>4 DEF CurrOK
  <2>4. CASE curr' = sentinel'
    BY <1>6, <2>2, <2>4 DEF CurrOK
  <2> QED BY <2>3, <2>4
<1>9. Kept'
  BY <1>5 DEF Kept, Open
<1> QED BY <1>1, <1>7, <1>8, <1>9 DEF IInv

LEMMA NextIsSound ==
    ASSUME IInv, [Next]_vars PROVE IInv'
<1>1. CASE Mutate
  <2>1. HeapOK' /\ Survive /\ UNCHANGED <<loop, turn, members, curr>>
    BY <1>1, MutateSurvives DEF Mutate, IInv
  <2>2. Chars' = Chars /\ (source = Own \/ source \in Retained)'
    BY <2>1, CharsSurvive DEF IInv
  <2> QED BY <2>1, <2>2 DEF IInv, LoopOK, RoverOK, CurrOK, Kept, members
<1>2. CASE Drain \/ Dealloc
  <2>1. source = Own /\ UNCHANGED <<loop, turn, members, curr>>
    BY <1>2 DEF Drain, Dealloc, IInv, Kept
  <2>2. HeapOK'
    <3>1. storage \in Seq(DOMAIN heap \cup DOMAIN << >>)
      BY NoneIsNone DEF IInv, HeapOK
    <3>2. << >> \in Seq(DOMAIN heap \cup DOMAIN << >>)
      OBVIOUS
    <3>3. pool \subseteq DOMAIN heap \cup DOMAIN << >> /\ DOMAIN << >> \subseteq Free
      BY NoneIsNone DEF IInv, HeapOK
    <3>4. CASE Retain(<< >>, storage, {})
      BY <3>1, <3>3, <3>4, NoneIsNone, RetainIsSound DEF IInv
    <3>5. CASE Retain(<< >>, << >>, pool)
      BY <3>2, <3>3, <3>5, NoneIsNone, RetainIsSound DEF IInv
    <3> QED BY <1>2, <3>4, <3>5 DEF Drain, Dealloc
  <2>3. Chars' = Chars
    BY <2>1 DEF Chars, members
  <2> QED BY <2>1, <2>2, <2>3 DEF IInv, LoopOK, RoverOK, CurrOK, Kept, members
<1>3. ASSUME NEW use \in {"free", "for"}, OpenAtStart(use) PROVE IInv'
  <2>1. LoopOK'
    BY <1>3 DEF OpenAtStart, Open, LoopOK, IInv
  <2> QED BY <1>3, <2>1, OpenIsSound DEF OpenAtStart
<1>4. ASSUME NEW use \in {"free", "reverse"}, OpenAtSentinel(use) PROVE IInv'
  <2>1. LoopOK'
    BY <1>4 DEF OpenAtSentinel, Open, LoopOK, IInv
  <2> QED BY <1>4, <2>1, OpenIsSound DEF OpenAtSentinel
<1>5. CASE Close
  <2>1. HeapOK' /\ LoopOK'
    BY <1>5 DEF Close, IInv, HeapOK, LoopOK, string
  <2>2. /\ Chars' = << >> /\ source' = Own /\ buf' = << >>
        /\ start' = 0 /\ curr' = 0 /\ sentinel' = 0 /\ size' = 4
    BY <1>5 DEF Close, Chars
  <2>3. RoverOK' /\ CurrOK' /\ Kept'
    BY <2>2 DEF RoverOK, CurrOK, Kept, Sizes
  <2> QED BY <2>1, <2>3 DEF IInv
<1>6. ASSUME Answered, UNCHANGED <<string, members>>, LoopOK', loop' = loop PROVE IInv'
  <2>1. HeapOK' /\ RoverOK' /\ CurrOK'
    BY <1>6, AnsweredStays
  <2>2. Kept'
    BY <1>6 DEF IInv, Kept, Retained, string, members
  <2> QED BY <1>6, <2>1, <2>2 DEF IInv
<1>7. CASE Use
  <2>1. Answered
    BY <1>7, UseIsAnswered DEF Use
  <2> QED BY <1>6, <1>7, <2>1 DEF Use, IInv, LoopOK
<1>8. CASE Condition
  <2>1. Answered
    BY <1>8, UseIsAnswered DEF Condition
  <2>2. LoopOK'
    BY <1>8 DEF Condition, IInv, LoopOK
  <2> QED BY <1>6, <1>8, <2>1, <2>2 DEF Condition
<1>9. CASE ReadOn
  <2>1. Answered
    BY <1>9, UseIsAnswered DEF ReadOn
  <2> QED BY <1>6, <1>9, <2>1 DEF ReadOn, IInv, LoopOK
<1>10. CASE Repeat
  BY <1>10 DEF Repeat, IInv, HeapOK, LoopOK, RoverOK, CurrOK, Kept, Retained, Chars,
               string, members
<1>11. CASE UNCHANGED vars
  BY <1>11 DEF vars, IInv, HeapOK, LoopOK, RoverOK, CurrOK, Kept, Retained, Chars,
               string, members
<1> QED BY <1>1, <1>2, <1>3, <1>4, <1>5, <1>7, <1>8, <1>9, <1>10, <1>11 DEF Next, Loop

(* The invariant holds, for all strings, addresses and bounds.             *)
LEMMA Invariance == Spec => []IInv
<1>1. Init => IInv
  BY InitIsSound
<1>2. IInv /\ [Next]_vars => IInv'
  BY NextIsSound
<1> QED BY <1>1, <1>2, PTL DEF Spec

(* The pointer stays at a character of the string or at its end.           *)
THEOREM TypeCorrect == Spec => []TypeOK
<1>1. IInv => TypeOK
  BY IInvParts
<1> QED BY <1>1, Invariance, PTL

(* The string under the pointers is not freed, whatever the body of a loop *)
(* does to the mutable string.                                             *)
THEOREM SourceStaysAlive == Spec => []SourceIsAlive
<1>1. IInv => SourceIsAlive
  BY RetainedAreLive DEF IInv, Kept, SourceIsAlive
<1> QED BY <1>1, Invariance, PTL

-----------------------------------------------------------------------------
(* The refinement.  The index is the number of characters before curr.     *)

LEMMA IndexOf ==
    ASSUME NEW a \in Int, NEW z \in {1, 2, 4}, NEW k \in Int
    PROVE  ((a + z * k) - a) \div z = k
<1>1. z * k \in Int /\ (z * k) \div z = k
  BY Multiples
<1>2. (a + z * k) - a = z * k
  BY <1>1
<1> QED BY <1>1, <1>2

LEMMA Position ==
    ASSUME IInv
    PROVE  /\ Len(Chars) \in Nat /\ index \in 0..Len(Chars)
           /\ size \in {1, 2, 4} /\ start \in Int
           /\ curr = start + size * index
           /\ sentinel = start + size * Len(Chars)
           /\ size * index \in Int /\ size * Len(Chars) \in Int
           /\ curr = start <=> index = 0
           /\ curr = sentinel <=> index = Len(Chars)
<1>1. Len(Chars) \in Nat
  BY CharsAreText, LenProperties DEF IInv
<1>2. size \in {1, 2, 4} /\ start \in Int /\ sentinel = start + size * Len(Chars)
  BY DEF IInv, RoverOK, Sizes
<1>3. PICK k \in 0..Len(Chars) : curr = start + size * k
  BY DEF IInv, CurrOK
<1>4. index = k
  BY <1>2, <1>3, IndexOf DEF index
<1>5. /\ size * k \in Int /\ size * Len(Chars) \in Int /\ (size * k = 0 <=> k = 0)
      /\ (size * k = size * Len(Chars) <=> k = Len(Chars))
  BY <1>1, <1>2, Multiples
<1> QED BY <1>1, <1>2, <1>3, <1>4, <1>5

(* A call that moves curr to the j-th character moves the index there.     *)
LEMMA CallMoves ==
    ASSUME IInv, open, NEW j \in Int, NEW r,
           Answer(start + size * j, r), UNCHANGED <<string, loop, members>>
    PROVE  Cursor!Call(j, r)
<1>1. Chars' = Chars /\ open' = open /\ size' = size /\ start' = start
  BY DEF Chars, open, string, members
<1>2. size \in {1, 2, 4} /\ start \in Int
  BY Position
<1>3. index' = j
  <2>1. ((start + size * j) - start) \div size = j
    BY <1>2, IndexOf
  <2> QED BY <1>1, <2>1 DEF index, Answer
<1> QED BY <1>1, <1>3 DEF Cursor!Call, Answer

LEMMA CharacterAt ==
    ASSUME IInv, NEW k \in 0..(Len(Chars) - 1)
    PROVE  Get(start + size * k) = Chars[k + 1]
<1>1. size \in {1, 2, 4} /\ start \in Int /\ Chars \in Seq(Char)
  BY Position, CharsAreText DEF IInv
<1> QED BY <1>1, GetIsCharacter

(* The addresses next to curr.                                             *)
LEMMA Neighbours ==
    ASSUME IInv
    PROVE  /\ curr + size = start + size * (index + 1)
           /\ curr + 2 * size = start + size * (index + 2)
           /\ curr - size = start + size * (index - 1)
           /\ curr - 2 * size = start + size * (index - 2)
           /\ curr - 2 * size < start <=> index < 2
           /\ curr + size = sentinel <=> index + 1 = Len(Chars)
           /\ curr + 2 * size < sentinel <=> index + 2 < Len(Chars)
           /\ curr < sentinel <=> index < Len(Chars)
<1>1. /\ size \in {1, 2, 4} /\ start \in Int /\ index \in Int /\ Len(Chars) \in Int
      /\ curr = start + size * index /\ sentinel = start + size * Len(Chars)
  BY Position
<1>2. \A z \in {1, 2, 4}, a, k, n \in Int :
        /\ (a + z * k) + z = a + z * (k + 1)
        /\ (a + z * k) + 2 * z = a + z * (k + 2)
        /\ (a + z * k) - z = a + z * (k - 1)
        /\ (a + z * k) - 2 * z = a + z * (k - 2)
        /\ (a + z * k) - 2 * z < a <=> k < 2
        /\ (a + z * k) + z = a + z * n <=> k + 1 = n
        /\ (a + z * k) + 2 * z < a + z * n <=> k + 2 < n
        /\ (a + z * k) < a + z * n <=> k < n
  <2> SUFFICES ASSUME NEW z \in {1, 2, 4}, NEW a \in Int, NEW k \in Int, NEW n \in Int
      PROVE
        /\ (a + z * k) + z = a + z * (k + 1)
        /\ (a + z * k) + 2 * z = a + z * (k + 2)
        /\ (a + z * k) - z = a + z * (k - 1)
        /\ (a + z * k) - 2 * z = a + z * (k - 2)
        /\ (a + z * k) - 2 * z < a <=> k < 2
        /\ (a + z * k) + z = a + z * n <=> k + 1 = n
        /\ (a + z * k) + 2 * z < a + z * n <=> k + 2 < n
        /\ (a + z * k) < a + z * n <=> k < n
    OBVIOUS
  <2>1. CASE z = 1
    BY <2>1
  <2>2. CASE z = 2
    BY <2>2
  <2>3. CASE z = 4
    BY <2>3
  <2> QED BY <2>1, <2>2, <2>3
<1> QED BY <1>1, <1>2

CursorNext == \/ Cursor!Begin \/ Cursor!End
              \/ Cursor!ReadNext \/ Cursor!ReadPrevious
              \/ Cursor!UndoNext \/ Cursor!UndoPrevious
              \/ Cursor!Restart \/ Cursor!Finish
              \/ Cursor!HasCharacters \/ Cursor!GetIndex

Calling == IInv /\ open /\ UNCHANGED <<string, loop, members>>

LEMMA ReadNextMoves == ASSUME Calling, ReadNext PROVE Cursor!ReadNext
<1>1. /\ Len(Chars) \in Nat /\ index \in 0..Len(Chars)
      /\ curr = start + size * index /\ (curr = sentinel <=> index = Len(Chars))
      /\ curr + size = start + size * (index + 1)
  BY Position, Neighbours DEF Calling
<1>2. CASE curr = sentinel /\ Answer(curr, No)
  <2>1. Cursor!Call(index, No)
    BY <1>1, <1>2, CallMoves DEF Calling
  <2> QED BY <1>1, <1>2, <2>1 DEF Cursor!ReadNext, No, Cursor!No
<1>3. CASE curr # sentinel /\ Answer(curr + size, Got(Get(curr)))
  <2>1. index \in 0..(Len(Chars) - 1)
    BY <1>1, <1>3
  <2>2. Get(curr) = Chars[index + 1]
    BY <1>1, <2>1, CharacterAt DEF Calling
  <2>3. Cursor!Call(index + 1, Got(Chars[index + 1]))
    BY <1>1, <1>3, <2>2, CallMoves DEF Calling
  <2> QED BY <2>1, <1>1, <2>3 DEF Cursor!ReadNext, Got, Cursor!Got
<1> QED BY <1>2, <1>3 DEF ReadNext

LEMMA ReadPreviousMoves == ASSUME Calling, ReadPrevious PROVE Cursor!ReadPrevious
<1>1. /\ Len(Chars) \in Nat /\ index \in 0..Len(Chars)
      /\ curr = start + size * index /\ (curr = start <=> index = 0)
      /\ curr - size = start + size * (index - 1)
  BY Position, Neighbours DEF Calling
<1>2. CASE curr = start /\ Answer(curr, No)
  <2>1. Cursor!Call(index, No)
    BY <1>1, <1>2, CallMoves DEF Calling
  <2> QED BY <1>1, <1>2, <2>1 DEF Cursor!ReadPrevious, No, Cursor!No
<1>3. CASE curr # start /\ Answer(curr - size, Got(Get(curr - size)))
  <2>1. index - 1 \in 0..(Len(Chars) - 1) /\ (index - 1) + 1 = index
    BY <1>1, <1>3
  <2>2. Get(curr - size) = Chars[index]
    BY <1>1, <2>1, CharacterAt DEF Calling
  <2>3. Cursor!Call(index - 1, Got(Chars[index]))
    BY <1>1, <1>3, <2>2, CallMoves DEF Calling
  <2> QED BY <2>1, <1>1, <2>3 DEF Cursor!ReadPrevious, Got, Cursor!Got
<1> QED BY <1>2, <1>3 DEF ReadPrevious

LEMMA UndoNextMoves == ASSUME Calling, UndoNext PROVE Cursor!UndoNext
<1>1. /\ Len(Chars) \in Nat /\ index \in 0..Len(Chars) /\ start \in Int
      /\ curr = start + size * index /\ (curr = start <=> index = 0)
      /\ curr - size = start + size * (index - 1)
      /\ curr - 2 * size = start + size * (index - 2)
      /\ (curr - 2 * size < start <=> index < 2)
      /\ start = start + size * 0
  <2>1. size * 0 = 0
    BY Position, Multiples DEF Calling
  <2> QED BY <2>1, Position, Neighbours DEF Calling
<1>2. CASE curr = start /\ Answer(curr, NotUndone)
  <2>1. Cursor!Call(index, NotUndone)
    BY <1>1, <1>2, CallMoves DEF Calling
  <2> QED BY <1>1, <1>2, <2>1 DEF Cursor!UndoNext, NotUndone, Cursor!NotUndone
<1>3. CASE /\ curr # start /\ curr - 2 * size < start
           /\ Answer(start, Undone(Get(start), NoChar))
  <2>1. index = 1 /\ index - 1 = 0 /\ 0 \in 0..(Len(Chars) - 1)
    BY <1>1, <1>3
  <2>2. Get(start) = Chars[index]
    BY <1>1, <2>1, CharacterAt DEF Calling
  <2>3. Cursor!CharAt(index - 1) = NoChar
    BY <2>1 DEF Cursor!CharAt
  <2>4. Cursor!Call(index - 1, Undone(Chars[index], Cursor!CharAt(index - 1)))
    BY <1>1, <1>3, <2>1, <2>2, <2>3, CallMoves DEF Calling
  <2> QED BY <2>1, <2>4 DEF Cursor!UndoNext, Undone, Cursor!Undone
<1>4. CASE /\ curr # start /\ curr - 2 * size >= start
           /\ Answer(curr - size, Undone(Get(curr - size), Get(curr - 2 * size)))
  <2>1. /\ index - 1 \in 0..(Len(Chars) - 1) /\ (index - 1) + 1 = index
        /\ index - 2 \in 0..(Len(Chars) - 1) /\ (index - 2) + 1 = index - 1
        /\ index - 1 \in 1..Len(Chars)
    <3>1. ~ (curr - 2 * size < start)
      <4>1. curr - 2 * size \in Int
        <5>1. curr \in Int /\ size \in Int
          BY Position DEF Calling
        <5> QED BY <5>1
      <4> QED BY <1>1, <1>4, <4>1
    <3> QED BY <1>1, <3>1
  <2>2. Get(curr - size) = Chars[index]
    BY <1>1, <2>1, CharacterAt DEF Calling
  <2>3. Get(curr - 2 * size) = Chars[index - 1]
    BY <1>1, <2>1, CharacterAt DEF Calling
  <2>4. Cursor!CharAt(index - 1) = Chars[index - 1]
    BY <2>1 DEF Cursor!CharAt
  <2>5. Cursor!Call(index - 1, Undone(Chars[index], Cursor!CharAt(index - 1)))
    BY <1>1, <1>4, <2>2, <2>3, <2>4, CallMoves DEF Calling
  <2> QED BY <1>1, <2>1, <2>5 DEF Cursor!UndoNext, Undone, Cursor!Undone
<1> QED BY <1>2, <1>3, <1>4 DEF UndoNext

LEMMA UndoPreviousMoves == ASSUME Calling, UndoPrevious PROVE Cursor!UndoPrevious
<1> DEFINE n == Len(Chars)
<1>1. /\ n \in Nat /\ index \in 0..n
      /\ curr = start + size * index /\ (curr = sentinel <=> index = n)
      /\ curr + size = start + size * (index + 1)
      /\ curr + 2 * size = start + size * (index + 2)
      /\ (curr + size = sentinel <=> index + 1 = n)
      /\ (curr + 2 * size < sentinel <=> index + 2 < n)
  BY Position, Neighbours DEF Calling
<1>2. CASE curr = sentinel /\ Answer(curr, NotUndone)
  <2>1. Cursor!Call(index, NotUndone)
    BY <1>1, <1>2, CallMoves DEF Calling
  <2> QED BY <1>1, <1>2, <2>1 DEF Cursor!UndoPrevious, NotUndone, Cursor!NotUndone
<1>3. CASE /\ curr # sentinel /\ curr + size = sentinel
           /\ Answer(sentinel, Undone(NoChar, NoChar))
  <2>1. index + 1 = n /\ index + 1 \in Int
    BY <1>1, <1>3
  <2>2. Cursor!CharAt(index + 2) = NoChar /\ Cursor!CharAt(index + 3) = NoChar
    BY <1>1, <2>1 DEF Cursor!CharAt
  <2>3. Cursor!Call(index + 1, Undone(NoChar, NoChar))
    BY <1>1, <1>3, <2>1, CallMoves DEF Calling
  <2> QED BY <1>1, <2>1, <2>2, <2>3 DEF Cursor!UndoPrevious, Undone, Cursor!Undone
<1>4. CASE /\ curr # sentinel /\ curr + size # sentinel
           /\ Answer(curr + size,
                     Undone(Get(curr + size),
                            IF curr + 2 * size < sentinel THEN Get(curr + 2 * size)
                                                          ELSE NoChar))
  <2>1. index + 1 \in 0..(n - 1) /\ (index + 1) + 1 = index + 2 /\ index + 2 \in 1..n
    BY <1>1, <1>4
  <2>2. Get(curr + size) = Cursor!CharAt(index + 2)
    <3>1. Get(curr + size) = Chars[index + 2]
      BY <1>1, <2>1, CharacterAt DEF Calling
    <3> QED BY <2>1, <3>1 DEF Cursor!CharAt
  <2>3. (IF curr + 2 * size < sentinel THEN Get(curr + 2 * size) ELSE NoChar)
            = Cursor!CharAt(index + 3)
    <3>1. CASE index + 2 < n
      <4>1. index + 2 \in 0..(n - 1) /\ (index + 2) + 1 = index + 3 /\ index + 3 \in 1..n
        BY <1>1, <3>1
      <4>2. Get(curr + 2 * size) = Chars[index + 3]
        BY <1>1, <4>1, CharacterAt DEF Calling
      <4> QED BY <1>1, <3>1, <4>1, <4>2 DEF Cursor!CharAt
    <3>2. CASE ~ (index + 2 < n)
      <4>1. index + 3 \notin 1..n
        BY <1>1, <3>2
      <4> QED BY <1>1, <3>2, <4>1 DEF Cursor!CharAt
    <3> QED BY <3>1, <3>2
  <2>4. Cursor!Call(index + 1, Undone(Cursor!CharAt(index + 2), Cursor!CharAt(index + 3)))
    BY <1>1, <1>4, <2>1, <2>2, <2>3, CallMoves DEF Calling
  <2> QED BY <1>1, <2>1, <2>4 DEF Cursor!UndoPrevious, Undone, Cursor!Undone
<1> QED BY <1>2, <1>3, <1>4 DEF UndoPrevious

LEMMA UseMoves ==
    ASSUME Calling,
           \/ ReadNext \/ ReadPrevious \/ UndoNext \/ UndoPrevious
           \/ Restart \/ Finish \/ HasCharacters \/ GetIndex
    PROVE  CursorNext
<1>1. /\ Len(Chars) \in Nat /\ index \in 0..Len(Chars)
      /\ size \in {1, 2, 4} /\ start \in Int
      /\ curr = start + size * index /\ sentinel = start + size * Len(Chars)
      /\ (curr < sentinel <=> index < Len(Chars))
  BY Position, Neighbours DEF Calling
<1>2. CASE ReadNext \/ ReadPrevious \/ UndoNext \/ UndoPrevious
  BY <1>2, ReadNextMoves, ReadPreviousMoves, UndoNextMoves, UndoPreviousMoves
     DEF CursorNext
<1>3. CASE Restart
  <2>1. size * 0 = 0
    BY <1>1, Multiples
  <2>2. start = start + size * 0
    BY <1>1, <2>1
  <2>3. Cursor!Call(0, reply)
    BY <1>3, <2>2, CallMoves DEF Calling, Restart
  <2> QED BY <2>3 DEF CursorNext, Cursor!Restart
<1>4. CASE Finish
  <2>1. Cursor!Call(Len(Chars), reply)
    BY <1>1, <1>4, CallMoves DEF Calling, Finish
  <2> QED BY <2>1 DEF CursorNext, Cursor!Finish
<1>5. CASE HasCharacters
  <2>1. Cursor!Call(index, <<"has", curr < sentinel>>)
    BY <1>1, <1>5, CallMoves DEF Calling, HasCharacters
  <2>2. (curr < sentinel) = (index < Len(Chars))
    BY <1>1
  <2> QED BY <2>1, <2>2 DEF CursorNext, Cursor!HasCharacters
<1>6. CASE GetIndex
  <2>1. Shift(size) = size
    BY <1>1 DEF Shift
  <2>2. Cursor!Call(index, <<"index", index>>)
    BY <1>1, <1>6, <2>1, CallMoves DEF Calling, GetIndex, index
  <2> QED BY <2>2 DEF CursorNext, Cursor!GetIndex
<1> QED BY <1>2, <1>3, <1>4, <1>5, <1>6

LEMMA OpenBegins ==
    ASSUME IInv, IInv', NEW use \in {"free", "for", "reverse"}, Open(use),
           curr' = start' \/ curr' = sentinel'
    PROVE  Cursor!Begin
<1>1. ~ open /\ open' = TRUE /\ reply' = No
  BY DEF Open, open
<1>2. /\ Chars' \in Seq(Char) /\ size' \in {1, 2, 4} /\ start' \in Int
      /\ sentinel' = start' + size' * Len(Chars')
  <2>1. HeapOK' /\ RoverOK'
    BY DEF IInv
  <2>2. Chars' \in Seq(Char)
    <3>1. CASE source' = Own
      BY <2>1, <3>1 DEF Chars, RoverOK
    <3>2. CASE source' # Own /\ source' \in DOMAIN heap'
      BY <2>1, <3>2 DEF Chars, HeapOK, Strings
    <3>3. CASE source' # Own /\ source' \notin DOMAIN heap'
      BY <3>3 DEF Chars
    <3> QED BY <3>1, <3>2, <3>3
  <2> QED BY <2>1, <2>2 DEF RoverOK, Sizes
<1>3. index' = 0 \/ index' = Len(Chars')
  <2>1. CASE curr' = start'
    <3>1. \A z \in {1, 2, 4}, a \in Int : (a - a) \div z = 0
      <4> TAKE z \in {1, 2, 4}, a \in Int
      <4>1. a - a = 0 /\ (z = 1 \/ z = 2 \/ z = 4)
        OBVIOUS
      <4> QED BY <4>1
    <3> QED BY <1>2, <2>1, <3>1 DEF index
  <2>2. CASE curr' = sentinel'
    <3>1. Len(Chars') \in Int
      BY <1>2, LenProperties
    <3>2. ((start' + size' * Len(Chars')) - start') \div size' = Len(Chars')
      BY <1>2, <3>1, IndexOf
    <3> QED BY <1>2, <2>2, <3>2 DEF index
  <2> QED BY <2>1, <2>2
<1> QED BY <1>1, <1>2, <1>3 DEF Cursor!Begin, No, Cursor!No

LEMMA NextRefines ==
    ASSUME IInv, IInv', [Next]_vars PROVE [CursorNext]_Cursor!vars
<1>1. ASSUME Chars' = Chars, UNCHANGED <<loop, start, size, curr, reply>>
      PROVE  UNCHANGED Cursor!vars
  BY <1>1 DEF Cursor!vars, open, index
<1>2. CASE Mutate
  <2>1. HeapOK' /\ Survive /\ UNCHANGED <<loop, members, curr, reply>>
    BY <1>2, MutateSurvives DEF Mutate, IInv
  <2>2. Chars' = Chars
    BY <2>1, CharsSurvive DEF IInv
  <2> QED BY <1>1, <2>1, <2>2 DEF members
<1>3. CASE Drain \/ Dealloc
  <2>1. source = Own /\ UNCHANGED <<loop, members, curr, reply>>
    BY <1>3 DEF Drain, Dealloc, IInv, Kept
  <2>2. Chars' = Chars
    BY <2>1 DEF Chars, members
  <2> QED BY <1>1, <2>1, <2>2 DEF members
<1>4. CASE \E use \in {"free", "for"} : OpenAtStart(use)
  BY <1>4, OpenBegins DEF OpenAtStart, CursorNext
<1>5. CASE \E use \in {"free", "reverse"} : OpenAtSentinel(use)
  BY <1>5, OpenBegins DEF OpenAtSentinel, CursorNext
<1>6. CASE Close
  <2>1. open /\ open' = FALSE
    BY <1>6 DEF Close, open, IInv, LoopOK
  <2>2. Chars' = << >> /\ index' = (0 - 0) \div 4 /\ reply' = No
    BY <1>6 DEF Close, Chars, index
  <2>3. (0 - 0) \div 4 = 0
    OBVIOUS
  <2> QED BY <2>1, <2>2, <2>3 DEF Cursor!End, CursorNext, No, Cursor!No
<1>7. CASE Use
  BY <1>7, UseMoves DEF Use, Calling, open
<1>8. CASE Condition
  BY <1>8, UseMoves DEF Condition, Calling, open
<1>9. CASE ReadOn
  <2>1. open
    BY <1>9 DEF ReadOn, open, IInv, LoopOK
  <2> QED BY <1>9, <2>1, UseMoves DEF ReadOn, Calling
<1>10. CASE Repeat
  <2>1. Chars' = Chars /\ UNCHANGED <<loop, start, size, curr, reply>>
    BY <1>10 DEF Repeat, Chars, string, members
  <2> QED BY <1>1, <2>1
<1>11. CASE UNCHANGED vars
  <2>1. Chars' = Chars /\ UNCHANGED <<loop, start, size, curr, reply>>
    BY <1>11 DEF vars, Chars, string, members
  <2> QED BY <1>1, <2>1
<1> QED BY <1>2, <1>3, <1>4, <1>5, <1>6, <1>7, <1>8, <1>9, <1>10, <1>11 DEF Next, Loop

(* The enumerator reads, and takes back, the characters the string had     *)
(* when it was begun, in their order, and knows where it is.               *)
THEOREM ImplementsCursor == Spec => CursorSpec
<1>1. Init => Cursor!Init
  <2> SUFFICES ASSUME Init PROVE Cursor!Init
    OBVIOUS
  <2>1. Chars = << >> /\ index = (0 - 0) \div 4 /\ reply = No /\ open = FALSE
    BY DEF Init, NoRover, Chars, index, open
  <2>2. (0 - 0) \div 4 = 0
    OBVIOUS
  <2> QED BY <2>1, <2>2 DEF Cursor!Init, No, Cursor!No
<1>2. IInv /\ IInv' /\ [Next]_vars => [CursorNext]_Cursor!vars
  BY NextRefines
<1> QED BY <1>1, <1>2, Invariance, PTL DEF Spec, CursorSpec, Cursor!Spec, CursorNext

=============================================================================
