--------------------------- MODULE Encoding_proofs ---------------------------
(***************************************************************************)
(* Proofs about StringFormats and Encoding for any texts, any limits of    *)
(* the formats and any sizes of the window, the chunks and the client's    *)
(* buffers: every string that comes out of an initializer, a copy, a       *)
(* substring or an import suits its format, and strings of all formats are *)
(* equal if and only if their characters are, and then hash alike.         *)
(***************************************************************************)
EXTENDS Encoding, RopeLemmas, FiniteSetTheorems

-----------------------------------------------------------------------------
(* Texts and their parts.                                                  *)

LEMMA CodePointIsNumber ==
    ASSUME NEW c, IsCodePoint(c)
    PROVE  c \in Nat
BY SMT DEF IsCodePoint

LEMMA TextElements ==
    ASSUME NEW t, IsText(t)
    PROVE  /\ t \in Seq(Nat) /\ t \in Seq(Int)
           /\ Len(t) \in Nat /\ DOMAIN t = 1..Len(t)
           /\ \A i \in 1..Len(t) : IsCodePoint(t[i]) /\ t[i] \in Nat
<1>1. t \in Seq(Nat) /\ \A i \in DOMAIN t : IsCodePoint(t[i])
  BY DEF IsText
<1>2. Len(t) \in Nat /\ DOMAIN t = 1..Len(t)
  BY <1>1, LenProperties
<1>3. \A i \in 1..Len(t) : t[i] \in Nat
  BY <1>1, <1>2, ElementOfSeq
<1>4. t \in [1..Len(t) -> Int]
  BY <1>1, <1>2, LenProperties
<1>6. t \in Seq(Int)
  BY <1>2, <1>4, SeqDef
<1> QED BY <1>1, <1>2, <1>3, <1>6

(* Parts of a text are texts with the characters of the text.              *)
LEMMA PartIsText ==
    ASSUME NEW t, IsText(t), NEW m \in Int, NEW n \in Int, 1 <= m, n <= Len(t)
    PROVE  /\ IsText(SubSeq(t, m, n))
           /\ Len(SubSeq(t, m, n)) = IF m <= n THEN n - m + 1 ELSE 0
           /\ \A i \in 1..Len(SubSeq(t, m, n)) :
                 i + m - 1 \in 1..Len(t) /\ SubSeq(t, m, n)[i] = t[i + m - 1]
<1> DEFINE s == SubSeq(t, m, n)
           k == IF m <= n THEN n - m + 1 ELSE 0
<1>1. t \in Seq(Nat) /\ Len(t) \in Nat /\ \A i \in 1..Len(t) : IsCodePoint(t[i])
  BY TextElements
<1>2. s \in Seq(Nat) /\ Len(s) = k /\ \A i \in 1..k : s[i] = t[m + i - 1]
  BY <1>1, SubSeqProperties
<1>3. \A i \in 1..k : i + m - 1 \in 1..Len(t) /\ i + m - 1 = m + i - 1
  BY <1>1
<1>4. \A i \in 1..k : s[i] = t[i + m - 1] /\ IsCodePoint(s[i])
  BY <1>1, <1>2, <1>3
<1>5. DOMAIN s = 1..k
  BY <1>2, LenProperties
<1>6. IsText(s)
  BY <1>2, <1>4, <1>5 DEF IsText
<1> QED BY <1>2, <1>3, <1>4, <1>6

LEMMA EmptyIsText == IsText(<<>>) /\ Len(<<>>) = 0 /\ <<>> \in Seq(Nat)
BY EmptySeq DEF IsText

(* What follows a byte order mark is a text.                               *)
LEMMA BodyIsText ==
    ASSUME NEW t, IsText(t)
    PROVE  IsText(Body(t))
<1>1. CASE t # <<>> /\ Head(t) = Mark
  <2>1. t \in Seq(Nat) /\ Len(t) \in Nat
    BY TextElements
  <2>2. /\ Tail(t) \in Seq(Nat) /\ Len(Tail(t)) = Len(t) - 1
        /\ \A i \in 1..Len(Tail(t)) : Tail(t)[i] = t[i + 1]
    BY <2>1, <1>1, HeadTailProperties
  <2>3. \A i \in 1..Len(Tail(t)) : i + 1 \in 1..Len(t)
    BY <2>1, <2>2
  <2>4. DOMAIN Tail(t) = 1..Len(Tail(t))
    BY <2>2, LenProperties
  <2>5. IsText(Tail(t))
    BY <2>2, <2>3, <2>4, TextElements DEF IsText
  <2> QED BY <1>1, <2>5 DEF Body
<1>2. CASE ~(t # <<>> /\ Head(t) = Mark)
  BY <1>2 DEF Body
<1> QED BY <1>1, <1>2

-----------------------------------------------------------------------------
(* Every way to a string yields one that suits its format.                 *)

Made(s, c, t, n) == s = [class |-> c, units |-> t, length |-> n]

(* What an object of each class needs.                                     *)
LEMMA MadeIsStored ==
    ASSUME NEW c \in Classes, NEW t, IsText(t), NEW n \in Nat,
           NEW s, Made(s, c, t, n),
           c \in Tagged \/ IF c = "TinyASCII" THEN n + 1 = Len(t) ELSE n = Len(t),
           c \in ASCII \cup Tagged => IsAscii(t),
           c = "UTF16" => IsUTF15(t),
           c = "Char7" => Len(t) =< Char7Max,
           c = "Char5" => IsChar5(t) /\ Len(t) =< Char5Max
    PROVE  Stored(s)
<1>1. s.class = c /\ s.units = t /\ s.length = n
  BY DEF Made
<1>2. t \in Seq(Nat)
  BY TextElements
<1>3. s \in [class : Classes, units : Seq(Nat), length : Nat]
  BY <1>2 DEF Made
<1>4. Length(s) = Len(s.units)
  BY <1>1 DEF Length, Tagged
<1> QED BY <1>1, <1>3, <1>4 DEF Stored

LEMMA StoredParts ==
    ASSUME NEW s, Stored(s)
    PROVE  /\ s.class \in Classes /\ IsText(s.units) /\ s.length \in Nat
           /\ Length(s) = Len(s.units) /\ Len(s.units) \in Nat
           /\ s.class \in ASCII \cup Tagged => IsAscii(s.units)
           /\ s.class = "UTF16" => IsUTF15(s.units)
           /\ s.class = "Char7" => Len(s.units) =< Char7Max
           /\ s.class = "Char5" => IsChar5(s.units) /\ Len(s.units) =< Char5Max
           /\ s = [class |-> s.class, units |-> s.units, length |-> s.length]
           /\ s.class \notin Tagged \cup {"TinyASCII"} => s.length = Len(s.units)
<1>1. s \in [class : Classes, units : Seq(Nat), length : Nat]
  BY DEF Stored
<1>2. s.class \notin Tagged \cup {"TinyASCII"} => s.length = Length(s)
  BY DEF Length
<1> QED BY <1>1, <1>2, TextElements DEF Stored

LEMMA EmptyIsStored == Stored(Empty)
<1>1. IsAscii(<<>>)
  BY EmptySeq DEF IsAscii
<1> QED BY <1>1, EmptyIsText, MadeIsStored DEF Empty, Object, Made, Classes, ASCII, Tagged

LEMMA UTF32IsStored == ASSUME NEW t, IsText(t) PROVE Stored(UTF32(t))
BY TextElements, MadeIsStored DEF UTF32, Object, Made, Classes, ASCII, Tagged

LEMMA UTF16IsStored == ASSUME NEW t, IsText(t), IsUTF15(t) PROVE Stored(UTF16(t))
BY TextElements, MadeIsStored DEF UTF16, Object, Made, Classes, ASCII, Tagged

LEMMA ReferencingIsStored ==
    ASSUME NEW t, IsText(t), IsAscii(t)
    PROVE  Stored(Object("ReferencingASCII", t, Len(t)))
BY TextElements, MadeIsStored DEF Object, Made, Classes, ASCII, Tagged

LEMMA CheatingIsStored == ASSUME NEW t, IsText(t), IsAscii(t) PROVE Stored(Cheating(t))
BY TextElements, MadeIsStored DEF Cheating, Object, Made, Classes, ASCII, Tagged

LEMMA MutableIsStored == ASSUME NEW t, IsText(t) PROVE Stored(Mutable(t))
BY TextElements, MadeIsStored DEF Mutable, Object, Made, Classes, ASCII, Tagged

(* A length of 1 to TinyMax fits the byte of the tiny class, less one.     *)
LEMMA ASCIIIsStored ==
    ASSUME NEW t, IsText(t), IsAscii(t), t # <<>>
    PROVE  Stored(NewASCII(t))
<1>1. Len(t) \in Nat /\ Len(t) # 0
  BY TextElements, EmptySeq
<1>2. CASE Len(t) =< TinyMax
  <2>1. (Len(t) - 1) % TinyMax = Len(t) - 1
    BY <1>1, <1>2, LimitsAreOrdered
  <2>2. NewASCII(t) = Object("TinyASCII", t, Len(t) - 1)
    BY <1>2, <2>1 DEF NewASCII
  <2>3. Len(t) - 1 \in Nat /\ (Len(t) - 1) + 1 = Len(t)
    BY <1>1
  <2> QED BY <2>2, <2>3, MadeIsStored DEF Object, Made, Classes, ASCII, Tagged
<1>3. CASE ~(Len(t) =< TinyMax)
  BY <1>1, <1>3, MadeIsStored DEF NewASCII, Object, Made, Classes, ASCII, Tagged
<1> QED BY <1>2, <1>3

LEMMA PackedIsStored ==
    ASSUME NEW t, IsText(t), FitsPointer(t)
    PROVE  Stored(Packed(t))
<1>1. CASE Len(t) =< Char7Max
  BY <1>1, MadeIsStored DEF Packed, Char7String, FitsPointer, Object, Made, Classes, ASCII, Tagged
<1>2. CASE ~(Len(t) =< Char7Max)
  BY <1>2, MadeIsStored DEF Packed, Char5String, FitsPointer, Object, Made, Classes, ASCII, Tagged
<1> QED BY <1>1, <1>2

LEMMA EmptyFitsPointer == FitsPointer(<<>>)
BY LimitsAreOrdered, EmptySeq DEF FitsPointer, IsAscii

LEMMA NewStringIsStored == ASSUME NEW t, IsText(t) PROVE Stored(NewString(t))
<1>1. IsText(Body(t))
  BY BodyIsText
<1>2. ~FitsPointer(Body(t)) => Body(t) # <<>>
  BY EmptyFitsPointer
<1> QED BY <1>1, <1>2, EmptyIsStored, PackedIsStored, ASCIIIsStored, UTF16IsStored, UTF32IsStored
        DEF NewString

LEMMA UTF8NoCopyIsStored ==
    ASSUME NEW t, IsText(t)
    PROVE  Stored(InitWithUTF8CharactersNoCopy(t))
<1>1. IsText(Body(t))
  BY BodyIsText
<1> QED BY <1>1, EmptyIsStored, ReferencingIsStored, UTF16IsStored, UTF32IsStored
        DEF InitWithUTF8CharactersNoCopy

LEMMA NoCopyIsStored ==
    ASSUME NEW t, IsText(t)
    PROVE  Stored(InitWithCharactersNoCopy(t))
BY EmptyIsStored, NewStringIsStored, UTF32IsStored DEF InitWithCharactersNoCopy

LEMMA UTF16CharactersIsStored ==
    ASSUME NEW t, IsText(t)
    PROVE  Stored(InitWithUTF16Characters(t))
<1>1. IsText(Body(t))
  BY BodyIsText
<1> QED BY <1>1, PackedIsStored, UTF16IsStored, NoCopyIsStored DEF InitWithUTF16Characters

LEMMA CopyIsStored ==
    ASSUME NEW s, Stored(s), s.class = "Cheating" => Length(s) > 0
    PROVE  Stored(ImmutableCopy(s))
<1>1. /\ IsText(s.units) /\ Length(s) = Len(s.units)
      /\ s.class = "Cheating" => IsAscii(s.units)
  BY StoredParts DEF ASCII
<1>2. s.class = "Cheating" => s.units # <<>>
  BY <1>1, EmptySeq
<1> QED BY <1>1, <1>2, ASCIIIsStored, EmptyIsStored, PackedIsStored, UTF32IsStored
        DEF ImmutableCopy

(* A part of a text has no characters that the text does not have.         *)
LEMMA PartFitsFormat ==
    ASSUME NEW t, IsText(t), NEW m \in Int, NEW n \in Int, 1 <= m, n <= Len(t)
    PROVE  /\ IsAscii(t) => IsAscii(SubSeq(t, m, n))
           /\ IsUTF15(t) => IsUTF15(SubSeq(t, m, n))
           /\ IsChar5(t) => IsChar5(SubSeq(t, m, n))
           /\ Len(SubSeq(t, m, n)) =< Len(t)
<1> DEFINE s == SubSeq(t, m, n)
<1>1. /\ IsText(s)
      /\ \A i \in 1..Len(s) : i + m - 1 \in 1..Len(t) /\ s[i] = t[i + m - 1]
      /\ Len(s) = IF m <= n THEN n - m + 1 ELSE 0
  BY PartIsText
<1>2. DOMAIN t = 1..Len(t) /\ Len(t) \in Nat
  BY TextElements
<1>3. DOMAIN s = 1..Len(s)
  BY <1>1, TextElements
<1>4. Len(s) =< Len(t)
  BY <1>1, <1>2
<1> HIDE DEF s
<1>5. IsAscii(t) => IsAscii(s)
  BY <1>1, <1>2, <1>3 DEF IsAscii
<1>6. IsUTF15(t) => IsUTF15(s)
  BY <1>1, <1>2, <1>3, SMTT(30) DEF IsUTF15
<1>7. IsChar5(t) => IsChar5(s)
  BY <1>1, <1>2, <1>3 DEF IsChar5
<1> QED BY <1>4, <1>5, <1>6, <1>7 DEF s

LEMMA SubstringIsStored ==
    ASSUME NEW s, Stored(s), NEW offset \in Nat, NEW n \in Nat,
           offset + n =< Length(s)
    PROVE  Stored(SubstringWithRange(s, offset, n))
<1>1. PICK c : c = IF s.class = "Mutable" THEN ImmutableCopy(s) ELSE s
  OBVIOUS
<1>2. Stored(c) /\ c.class # "Mutable" /\ Len(c.units) = Len(s.units)
  <2>1. CASE s.class # "Mutable"
    BY <1>1, <2>1
  <2>2. CASE s.class = "Mutable"
    <3>1. c = ImmutableCopy(s)
      BY <1>1, <2>2
    <3>2. Stored(c)
      BY <2>2, <3>1, CopyIsStored
    <3>3. s.length = Len(s.units) /\ Len(s.units) \in Nat
      BY <2>2, StoredParts DEF Tagged
    <3>4. c = IF s.length = 0 THEN Empty
              ELSE IF FitsPointer(s.units) THEN Packed(s.units) ELSE UTF32(s.units)
      BY <2>2, <3>1 DEF ImmutableCopy
    <3>5. c.class # "Mutable" /\ Len(c.units) = Len(s.units)
      BY <3>3, <3>4, EmptyIsText DEF Empty, Packed, Char5String, Char7String, UTF32, Object
    <3> QED BY <3>2, <3>5
  <2> QED BY <2>1, <2>2
<1>3. PICK t : t = SubSeq(c.units, offset + 1, offset + n)
  OBVIOUS
<1>4. /\ c.class \in Classes /\ IsText(c.units) /\ c.length \in Nat
      /\ Length(c) = Len(c.units)
      /\ c.class \in ASCII \cup Tagged => IsAscii(c.units)
      /\ c.class = "UTF16" => IsUTF15(c.units)
      /\ c.class = "Char7" => Len(c.units) =< Char7Max
      /\ c.class = "Char5" => IsChar5(c.units) /\ Len(c.units) =< Char5Max
      /\ c = [class |-> c.class, units |-> c.units, length |-> c.length]
  BY <1>2, StoredParts
<1>5. Length(s) = Len(s.units) /\ Len(s.units) \in Nat
  BY StoredParts
<1>6. offset + 1 \in Int /\ offset + n \in Int /\ 1 =< offset + 1 /\ offset + n =< Len(c.units)
  BY <1>2, <1>5
<1>7. /\ IsText(t) /\ Len(t) \in Nat /\ Len(t) =< Len(c.units)
      /\ IsAscii(c.units) => IsAscii(t)
      /\ IsUTF15(c.units) => IsUTF15(t)
      /\ IsChar5(c.units) => IsChar5(t)
  BY <1>3, <1>4, <1>6, PartIsText, PartFitsFormat, TextElements
<1>8. Len(c.units) \in Nat
  BY <1>4, TextElements
<1>9. SubstringWithRange(s, offset, n) = IF c.class \in Tagged THEN [c EXCEPT !.units = t]
                                        ELSE IF n = Length(c) THEN c ELSE Part(c, t)
  BY <1>1, <1>3 DEF SubstringWithRange
<1>10. CASE c.class \in Tagged
  <2>1. Made([c EXCEPT !.units = t], c.class, t, c.length)
    BY <1>4 DEF Made
  <2>2. /\ c.class = "Char7" => Len(t) =< Char7Max
        /\ c.class = "Char5" => Len(t) =< Char5Max
    BY <1>4, <1>7, <1>8, LimitsAreOrdered
  <2>3. Stored([c EXCEPT !.units = t])
    BY <1>4, <1>7, <1>10, <2>1, <2>2, MadeIsStored DEF Tagged
  <2> QED BY <1>9, <1>10, <2>3
<1>11. CASE c.class \notin Tagged /\ n = Length(c)
  BY <1>2, <1>9, <1>11
<1>12. CASE c.class \notin Tagged /\ n # Length(c)
  <2>1. CASE t = <<>> \/ FitsPointer(t)
    BY <1>7, <1>9, <1>12, <2>1, EmptyIsStored, PackedIsStored DEF Part
  <2>2. CASE c.class \in ASCII /\ t # <<>> /\ ~FitsPointer(t)
    BY <1>4, <1>7, <1>9, <1>12, <2>2, ReferencingIsStored DEF Part
  <2>3. CASE c.class \notin ASCII /\ t # <<>> /\ ~FitsPointer(t)
    <3>1. c.class \in {"UTF16", "UTF32"}
      BY <1>2, <1>4, <1>12, <2>3 DEF Classes
    <3>2. Made(Object(c.class, t, Len(t)), c.class, t, Len(t))
      BY DEF Made, Object
    <3>3. Stored(Object(c.class, t, Len(t)))
      BY <1>4, <1>7, <3>1, <3>2, MadeIsStored DEF Tagged, ASCII
    <3> QED BY <1>9, <1>12, <2>3, <3>3 DEF Part
  <2> QED BY <2>1, <2>2, <2>3
<1> QED BY <1>10, <1>11, <1>12

-----------------------------------------------------------------------------
(* Comparison and hash.                                                    *)

LEMMA SameText ==
    ASSUME NEW s, IsText(s), NEW t, IsText(t)
    PROVE  s = t <=> Len(s) = Len(t) /\ \A i \in 1..Len(s) : s[i] = t[i]
<1>1. s \in Seq(Nat) /\ t \in Seq(Nat)
  BY TextElements
<1> QED BY <1>1, SeqEqual

(* The first n characters are the same.                                    *)
LEMMA SameStart ==
    ASSUME NEW s, IsText(s), NEW t, IsText(t), NEW n \in Nat, n <= Len(s), n <= Len(t)
    PROVE  SubSeq(s, 1, n) = SubSeq(t, 1, n) <=> \A i \in 1..n : s[i] = t[i]
<1>1. /\ IsText(SubSeq(s, 1, n)) /\ Len(SubSeq(s, 1, n)) = n
      /\ \A i \in 1..n : SubSeq(s, 1, n)[i] = s[i]
  <2>1. n = IF 1 <= n THEN n - 1 + 1 ELSE 0
    OBVIOUS
  <2>2. \A i \in 1..n : i + 1 - 1 = i
    OBVIOUS
  <2> QED BY <2>1, <2>2, PartIsText
<1>2. /\ IsText(SubSeq(t, 1, n)) /\ Len(SubSeq(t, 1, n)) = n
      /\ \A i \in 1..n : SubSeq(t, 1, n)[i] = t[i]
  <2>1. n = IF 1 <= n THEN n - 1 + 1 ELSE 0
    OBVIOUS
  <2>2. \A i \in 1..n : i + 1 - 1 = i
    OBVIOUS
  <2> QED BY <2>1, <2>2, PartIsText
<1>3. PICK a, b : a = SubSeq(s, 1, n) /\ b = SubSeq(t, 1, n)
  OBVIOUS
<1>4. a = b <=> \A i \in 1..n : a[i] = b[i]
  BY <1>1, <1>2, <1>3, SameText
<1> QED BY <1>1, <1>2, <1>3, <1>4

(* Every place is in a chunk, and every chunk is compared: hasPrefix looks *)
(* at all of the first n characters.                                       *)
LEMMA ChunksCover ==
    ASSUME NEW n \in Nat, NEW i \in 1..n
    PROVE  \E k \in 0..((n - 1) \div Chunk) :
              i \in (k * Chunk + 1)..Smaller((k + 1) * Chunk, n)
<1>1. PICK c \in Nat \ {0} : c = Chunk
  BY LimitsAreOrdered
<1>2. PICK k \in Int : k = (i - 1) \div c
  OBVIOUS
<1>3. /\ c * k <= i - 1 /\ i - 1 < c * (k + 1)
      /\ k >= 0
  BY <1>2, SMTT(30)
<1>4. k <= (n - 1) \div c
  BY <1>2, SMTT(30)
<1>5. k * c + 1 <= i /\ i <= (k + 1) * c
  BY <1>3, SMTT(30)
<1>6. (n - 1) \div c \in Int /\ k * c \in Int /\ (k + 1) * c \in Int
  BY SMTT(30)
<1>7. k \in 0..((n - 1) \div c) /\ i \in (k * c + 1)..Smaller((k + 1) * c, n)
  BY <1>3, <1>4, <1>5, <1>6 DEF Smaller
<1> QED BY <1>1, <1>7

LEMMA StartsWithIsExact ==
    ASSUME NEW s, Stored(s), NEW p, Stored(p), NEW n \in Nat,
           n <= Len(s.units), n <= Len(p.units)
    PROVE  StartsWith(s, p, n) <=> \A i \in 1..n : s.units[i] = p.units[i]
<1> DEFINE First(k) == k * Chunk + 1
           Final(k)  == Smaller((k + 1) * Chunk, n)
<1>1. IsText(s.units) /\ IsText(p.units) /\ Len(s.units) \in Nat /\ Len(p.units) \in Nat
  BY StoredParts
<1>2. \A k \in 0..((n - 1) \div Chunk) :
         First(k) \in Nat /\ 1 <= First(k) /\ Final(k) \in Int /\ Final(k) <= n
  <2> SUFFICES ASSUME NEW k \in 0..((n - 1) \div Chunk)
               PROVE  First(k) \in Nat /\ 1 <= First(k) /\ Final(k) \in Int /\ Final(k) <= n
    OBVIOUS
  <2>1. PICK c \in Nat \ {0} : c = Chunk
    BY LimitsAreOrdered
  <2>2. k \in Nat
    OBVIOUS
  <2>3. k * c \in Nat /\ (k + 1) * c \in Nat
    BY <2>2
  <2>4. k * Chunk \in Nat /\ (k + 1) * Chunk \in Nat
    BY <2>1, <2>3
  <2> QED BY <2>4 DEF Smaller
<1>3. \A k \in 0..((n - 1) \div Chunk) :
         SubSeq(s.units, First(k), Final(k)) = SubSeq(p.units, First(k), Final(k))
           <=> \A i \in First(k)..Final(k) : s.units[i] = p.units[i]
  <2> SUFFICES ASSUME NEW f \in Nat, NEW l \in Int, 1 <= f, l <= n
               PROVE  SubSeq(s.units, f, l) = SubSeq(p.units, f, l)
                        <=> \A i \in f..l : s.units[i] = p.units[i]
    <3> HIDE DEF First, Final
    <3> QED BY <1>2
  <2>1. PICK a, b : a = SubSeq(s.units, f, l) /\ b = SubSeq(p.units, f, l)
    OBVIOUS
  <2>2. PICK m \in Nat : m = IF f <= l THEN l - f + 1 ELSE 0
    <3>1. (IF f <= l THEN l - f + 1 ELSE 0) \in Nat
      OBVIOUS
    <3> QED BY <3>1
  <2>3. IsText(a) /\ Len(a) = m /\ \A i \in 1..m : a[i] = s.units[i + f - 1]
    BY <1>1, <2>1, <2>2, PartIsText
  <2>4. IsText(b) /\ Len(b) = m /\ \A i \in 1..m : b[i] = p.units[i + f - 1]
    BY <1>1, <2>1, <2>2, PartIsText
  <2>5. a = b <=> \A i \in 1..m : a[i] = b[i]
    BY <2>3, <2>4, SameText
  <2>6. (\A i \in 1..m : s.units[i + f - 1] = p.units[i + f - 1])
          <=> \A i \in f..l : s.units[i] = p.units[i]
    <3>1. \A i \in 1..m : i + f - 1 \in f..l
      BY <2>2
    <3>2. \A i \in f..l : i - f + 1 \in 1..m /\ (i - f + 1) + f - 1 = i
      BY <2>2
    <3> QED BY <3>1, <3>2
  <2> QED BY <2>1, <2>3, <2>4, <2>5, <2>6
<1>4. StartsWith(s, p, n) <=>
         \A k \in 0..((n - 1) \div Chunk) : \A i \in First(k)..Final(k) : s.units[i] = p.units[i]
  <2>1. StartsWith(s, p, n) <=>
           \A k \in 0..((n - 1) \div Chunk) :
              SubSeq(s.units, First(k), Final(k)) = SubSeq(p.units, First(k), Final(k))
    BY DEF StartsWith
  <2> HIDE DEF First, Final
  <2> QED BY <1>3, <2>1
<1>5. \A k \in 0..((n - 1) \div Chunk) : First(k)..Final(k) \subseteq 1..n
  <2> HIDE DEF First, Final
  <2> QED BY <1>2
<1>6. \A i \in 1..n : \E k \in 0..((n - 1) \div Chunk) : i \in First(k)..Final(k)
  BY ChunksCover
<1> HIDE DEF First, Final
<1> QED BY <1>4, <1>5, <1>6

(* UTF-8 of characters up to the first one that is not ASCII is as long as *)
(* they are: place k of the bytes is the first byte of character k.        *)
IsUTF8Char(b, c) == /\ b \in Seq(0..255) /\ Len(b) \in Nat \ {0}
                    /\ c < 128 => b = <<c>>
                    /\ c >= 128 => b[1] >= 128

LEMMA BytesOfChar ==
    ASSUME NEW c, IsCodePoint(c)
    PROVE  IsUTF8Char(UTF8Bytes(c), c)
<1>1. c \in Nat /\ c < 1114112
  BY SMT DEF IsCodePoint
<1>2. CASE c < 128
  <2>1. UTF8Bytes(c) = <<c>>
    BY <1>2, SMT DEF UTF8Bytes
  <2>2. <<c>> \in Seq(0..255) /\ Len(<<c>>) = 1
    BY <1>1, <1>2, SMT
  <2> QED BY <1>1, <1>2, <2>1, <2>2 DEF IsUTF8Char
<1>3. CASE c >= 128 /\ c < 2048
  <2>1. PICK x, y : x = 192 + (c \div 64) /\ y = 128 + ((c \div 1) % 64)
    OBVIOUS
  <2>2. x \in 192..255 /\ y \in 128..255
    BY <1>1, <1>3, <2>1, SMT
  <2>3. UTF8Bytes(c) = <<x, y>>
    BY <1>1, <1>3, <2>1, SMT DEF UTF8Bytes
  <2> QED BY <1>1, <1>3, <2>2, <2>3, SMT DEF IsUTF8Char
<1>4. CASE c >= 2048 /\ c < 65536
  <2>1. PICK x, y, z : /\ x = 224 + (c \div 4096) /\ y = 128 + ((c \div 64) % 64)
                       /\ z = 128 + ((c \div 1) % 64)
    BY SMT
  <2>2. x \in 192..255 /\ y \in 128..255 /\ z \in 128..255
    BY <1>1, <1>4, <2>1, SMT
  <2>3. UTF8Bytes(c) = <<x, y, z>>
    BY <1>1, <1>4, <2>1, SMT DEF UTF8Bytes
  <2> QED BY <1>1, <1>4, <2>2, <2>3, SMT DEF IsUTF8Char
<1>5. CASE c >= 65536
  <2>1. PICK x, y, z, w : /\ x = 240 + (c \div 262144) /\ y = 128 + ((c \div 4096) % 64)
                          /\ z = 128 + ((c \div 64) % 64) /\ w = 128 + ((c \div 1) % 64)
    BY SMT
  <2>2. x \in 192..255 /\ y \in 128..255 /\ z \in 128..255 /\ w \in 128..255
    BY <1>1, <1>5, <2>1, SMT
  <2>3. UTF8Bytes(c) = <<x, y, z, w>>
    BY <1>1, <1>5, <2>1, SMT DEF UTF8Bytes
  <2> QED BY <1>1, <1>5, <2>2, <2>3, SMT DEF IsUTF8Char
<1> QED BY <1>1, <1>2, <1>3, <1>4, <1>5, SMT

LEMMA ToUTF8IsBytes ==
    ASSUME NEW t, IsText(t)
    PROVE  ToUTF8(t) \in Seq(0..255)
<1> DEFINE seqs == [i \in DOMAIN t |-> UTF8Bytes(t[i])]
<1>1. DOMAIN t = 1..Len(t) /\ Len(t) \in Nat /\ \A i \in 1..Len(t) : IsCodePoint(t[i])
  BY TextElements
<1>2. \A i \in 1..Len(t) : UTF8Bytes(t[i]) \in Seq(0..255)
  BY <1>1, BytesOfChar DEF IsUTF8Char
<1>4. seqs \in [1..Len(t) -> Seq(0..255)]
  BY <1>1, <1>2
<1>5. seqs \in Seq(Seq(0..255))
  BY <1>1, <1>4, SeqDef
<1> HIDE DEF seqs
<1>6. FlattenSeq(seqs) \in Seq(0..255)
  BY <1>5, ConcatenationIsText
<1> QED BY <1>6 DEF ToUTF8, seqs

(* The start of a concatenation whose first k pieces have one element.     *)
Starts(f, seqs, k, m) ==
    m > 0 => /\ f[m] \in Seq(0..255) /\ Len(f[m]) \in Nat
             /\ m <= k => Len(f[m]) = m
             /\ m > k => Len(f[m]) > k
             /\ \A i \in 1..(k + 1) : i <= m => f[m][i] = seqs[i][1]

LEMMA ConcatenationStarts ==
    ASSUME NEW seqs \in Seq(Seq(0..255)),
           \A i \in 1..Len(seqs) : Len(seqs[i]) \in Nat \ {0},
           NEW k \in Nat, k < Len(seqs),
           \A i \in 1..k : Len(seqs[i]) = 1
    PROVE  /\ Len(FlattenSeq(seqs)) > k
           /\ \A i \in 1..(k + 1) : FlattenSeq(seqs)[i] = seqs[i][1]
<1> DEFINE n == Len(seqs)
<1> DEFINE f == CHOOSE f : f = [i \in 1..n |-> IF i = 1 THEN seqs[i]
                                               ELSE f[i - 1] \o seqs[i]]
<1>0. n \in Nat /\ k < n /\ \A i \in 1..n : Len(seqs[i]) \in Nat \ {0}
  BY LenProperties
<1>1. f = [i \in 1..n |-> IF i = 1 THEN seqs[i] ELSE f[i - 1] \o seqs[i]]
  BY <1>0, PrefixesExist
<1>2. FlattenSeq(seqs) = f[n]
  <2>1. n # 0
    BY <1>0
  <2> QED BY <2>1 DEF FlattenSeq
<1>3. \A i \in 1..n : seqs[i] \in Seq(0..255)
  BY LenProperties, ElementOfSeq
<1> HIDE DEF f, n
<1> DEFINE S == {m \in 0..n : Starts(f, seqs, k, m)}
<1>4. 0 \in S
  BY <1>0 DEF Starts
<1>5. \A m \in 0..n : m < n /\ m \in S => m + 1 \in S
  <2> SUFFICES ASSUME NEW m \in 0..n, m < n, Starts(f, seqs, k, m)
               PROVE  Starts(f, seqs, k, m + 1)
    BY <1>0
  <2>1. /\ m + 1 \in 1..n /\ seqs[m + 1] \in Seq(0..255)
        /\ Len(seqs[m + 1]) \in Nat \ {0}
        /\ m + 1 <= k => Len(seqs[m + 1]) = 1
    BY <1>0, <1>3
  <2>2. f[m + 1] = IF m + 1 = 1 THEN seqs[m + 1] ELSE f[(m + 1) - 1] \o seqs[m + 1]
    BY <1>1, <2>1
  <2>3. CASE m = 0
    <3>1. f[1] = seqs[1]
      BY <2>2, <2>3
    <3>2. \A i \in 1..(k + 1) : i <= 1 => i = 1
      OBVIOUS
    <3> QED BY <2>1, <2>3, <3>1, <3>2 DEF Starts
  <2>4. CASE m # 0
    <3>1. PICK a, b : a = f[m] /\ b = seqs[m + 1]
      OBVIOUS
    <3>2. f[m + 1] = a \o b
      <4>1. (m + 1) - 1 = m /\ m + 1 # 1
        BY <2>4
      <4> QED BY <2>2, <3>1, <4>1
    <3>3. /\ a \in Seq(0..255) /\ Len(a) \in Nat
          /\ m <= k => Len(a) = m
          /\ m > k => Len(a) > k
          /\ \A i \in 1..(k + 1) : i <= m => a[i] = seqs[i][1]
      BY <2>4, <3>1 DEF Starts
    <3>4. /\ b \in Seq(0..255) /\ Len(b) \in Nat \ {0}
          /\ m + 1 <= k => Len(b) = 1
      BY <2>1, <3>1
    <3>5. /\ a \o b \in Seq(0..255) /\ Len(a \o b) = Len(a) + Len(b)
          /\ \A i \in 1..(Len(a) + Len(b)) :
                (a \o b)[i] = IF i <= Len(a) THEN a[i] ELSE b[i - Len(a)]
      BY <3>3, <3>4, ConcatProperties
    <3>6. /\ m + 1 <= k => Len(a \o b) = m + 1
          /\ m + 1 > k => Len(a \o b) > k
          /\ Len(a \o b) \in Nat
      <4>1. ASSUME NEW x \in Nat, NEW y \in Nat \ {0}, m <= k => x = m, m > k => x > k,
                   m + 1 <= k => y = 1
            PROVE  /\ m + 1 <= k => x + y = m + 1
                   /\ m + 1 > k => x + y > k
                   /\ x + y \in Nat
        BY <4>1, m \in Nat, k \in Nat
      <4> QED BY <3>3, <3>4, <3>5, <4>1
    <3>7. ASSUME NEW i \in 1..(k + 1), i <= m + 1
          PROVE  (a \o b)[i] = seqs[i][1]
      <4>1. CASE i <= m
        <5>1. i <= Len(a)
          BY <3>3, <4>1
        <5> QED BY <3>3, <3>4, <3>5, <4>1, <5>1
      <4>2. CASE i = m + 1
        <5>1. m <= k /\ Len(a) = m /\ i - Len(a) = 1 /\ ~(i <= Len(a))
          BY <3>3, <4>2
        <5>2. i \in 1..(Len(a) + Len(b))
          BY <3>3, <3>4, <5>1
        <5>3. (a \o b)[i] = b[1]
          BY <3>5, <5>1, <5>2
        <5> QED BY <3>1, <4>2, <5>3
      <4>3. i <= m \/ i = m + 1
        BY <3>7, m \in Nat, k \in Nat
      <4> QED BY <4>1, <4>2, <4>3
    <3>8. PICK g : g = a \o b
      OBVIOUS
    <3>9. /\ g \in Seq(0..255) /\ Len(g) \in Nat
          /\ m + 1 <= k => Len(g) = m + 1
          /\ m + 1 > k => Len(g) > k
          /\ \A i \in 1..(k + 1) : i <= m + 1 => g[i] = seqs[i][1]
      BY <3>5, <3>6, <3>7, <3>8
    <3>10. f[m + 1] = g
      BY <3>2, <3>8
    <3> QED BY <3>9, <3>10 DEF Starts
  <2> QED BY <2>3, <2>4
<1>6. 0..n \subseteq S
  <2> HIDE DEF S
  <2> QED BY ONLY <1>0, <1>4, <1>5, Induction
<1>7. Starts(f, seqs, k, n)
  BY <1>0, <1>6
<1>8. n > 0 /\ n > k /\ \A i \in 1..(k + 1) : i <= n
  BY <1>0
<1> QED BY <1>2, <1>7, <1>8 DEF Starts

LEMMA FirstByte ==
    ASSUME NEW c \in Nat, NEW b, IsUTF8Char(b, c)
    PROVE  /\ Len(b) \in Nat \ {0}
           /\ c < 128 => Len(b) = 1 /\ b[1] = c
           /\ c >= 128 => b[1] >= 128
<1>1. Len(<<c>>) = 1 /\ <<c>>[1] = c
  OBVIOUS
<1>2. c < 128 => b = <<c>>
  BY DEF IsUTF8Char
<1>3. c < 128 => Len(b) = 1 /\ b[1] = c
  BY <1>1, <1>2
<1> QED BY <1>3 DEF IsUTF8Char

SameLength(s, t) == Len(s) = Len(t)

(* If the UTF-8 of a text starts with ASCII characters, so does the text.  *)
LEMMA UTF8OfASCII ==
    ASSUME NEW t, IsText(t), NEW s, IsText(s), IsAscii(s), SameLength(s, t)
    PROVE  (\A i \in 1..Len(s) : ToUTF8(t)[i] = s[i])
             <=> \A i \in 1..Len(s) : t[i] = s[i]
<1> DEFINE seqs == [i \in DOMAIN t |-> UTF8Bytes(t[i])]
<1>1. PICK n \in Nat : n = Len(t) /\ n = Len(s)
  BY TextElements DEF SameLength
<1>2. DOMAIN t = 1..n /\ \A i \in 1..n : IsCodePoint(t[i]) /\ t[i] \in Nat
  BY <1>1, TextElements
<1>3. DOMAIN s = 1..n /\ \A i \in 1..n : s[i] \in Nat /\ s[i] < 128
  BY <1>1, TextElements DEF IsAscii
<1>4. \A i \in 1..n : seqs[i] = UTF8Bytes(t[i]) /\ IsUTF8Char(seqs[i], t[i])
  BY <1>2, BytesOfChar
<1>5. seqs \in Seq(Seq(0..255)) /\ Len(seqs) = n
  <2>1. seqs \in [1..n -> Seq(0..255)]
    BY <1>2, BytesOfChar DEF IsUTF8Char
  <2> HIDE DEF seqs
  <2> QED BY <2>1, SeqDef, LenProperties
<1> HIDE DEF seqs
<1>6. \A i \in 1..n : /\ Len(seqs[i]) \in Nat \ {0}
                      /\ t[i] < 128 => Len(seqs[i]) = 1 /\ seqs[i][1] = t[i]
                      /\ t[i] >= 128 => seqs[i][1] >= 128
  BY <1>2, <1>4, FirstByte
<1>10. ASSUME NEW k \in Nat, k < n, \A i \in 1..k : t[i] < 128
       PROVE  \A i \in 1..(k + 1) : FlattenSeq(seqs)[i] = seqs[i][1]
  <2>1. \A i \in 1..n : Len(seqs[i]) \in Nat \ {0}
    BY <1>6
  <2>2. \A i \in 1..k : Len(seqs[i]) = 1
    BY <1>6, <1>10
  <2>3. k < Len(seqs) /\ \A i \in 1..Len(seqs) : Len(seqs[i]) \in Nat \ {0}
    BY <1>5, <1>10, <2>1
  <2> QED BY <1>5, <2>2, <2>3, ConcatenationStarts
<1>7. ToUTF8(t) = FlattenSeq(seqs)
  BY DEF ToUTF8, seqs
<1> DEFINE S == {m \in 0..n : \A i \in 1..m : t[i] = s[i]}
<1>8. ASSUME \A i \in 1..n : ToUTF8(t)[i] = s[i]
      PROVE  \A i \in 1..n : t[i] = s[i]
  <2>1. 0 \in S
    OBVIOUS
  <2>2. \A m \in 0..n : m < n /\ m \in S => m + 1 \in S
    <3> SUFFICES ASSUME NEW m \in 0..n, m < n, m \in S
                 PROVE  m + 1 \in S
      OBVIOUS
    <3>1. m \in Nat /\ m + 1 \in 1..n /\ \A i \in 1..m : i \in 1..n
      OBVIOUS
    <3>2. \A i \in 1..m : t[i] < 128
      BY <1>3, <3>1
    <3>3. FlattenSeq(seqs)[m + 1] = seqs[m + 1][1]
      BY <1>10, <3>1, <3>2
    <3>4. seqs[m + 1][1] = s[m + 1]
      BY <1>7, <1>8, <3>1, <3>3
    <3>5. t[m + 1] \in Nat /\ s[m + 1] \in Nat /\ s[m + 1] < 128
      BY <1>2, <1>3, <3>1
    <3>6. t[m + 1] < 128
      BY <1>6, <3>1, <3>4, <3>5
    <3>7. t[m + 1] = s[m + 1]
      BY <1>6, <3>1, <3>4, <3>6
    <3>8. \A i \in 1..(m + 1) : i \in 1..m \/ i = m + 1
      BY <3>1
    <3> QED BY <3>1, <3>7, <3>8
  <2>3. 0..n \subseteq S
    <3> HIDE DEF S
    <3> QED BY ONLY n \in Nat, <2>1, <2>2, Induction
  <2>4. n \in S
    BY <2>3
  <2> QED BY <2>4
<1>9. ASSUME \A i \in 1..n : t[i] = s[i]
      PROVE  \A i \in 1..n : ToUTF8(t)[i] = s[i]
  <2> SUFFICES ASSUME NEW i \in 1..n PROVE ToUTF8(t)[i] = s[i]
    OBVIOUS
  <2>1. n - 1 \in Nat /\ n - 1 < n /\ i \in 1..((n - 1) + 1)
        /\ \A j \in 1..(n - 1) : j \in 1..n
    OBVIOUS
  <2>2. \A j \in 1..(n - 1) : t[j] < 128
    BY <1>3, <1>9, <2>1
  <2>3. \A j \in 1..((n - 1) + 1) : FlattenSeq(seqs)[j] = seqs[j][1]
    BY <1>10, <2>1, <2>2
  <2>4. seqs[i][1] = t[i]
    BY <1>3, <1>6, <1>9
  <2> QED BY <1>7, <1>9, <2>1, <2>3, <2>4
<1> QED BY <1>1, <1>8, <1>9

LEMMA EqualityIsExact ==
    ASSUME NEW s, Stored(s), NEW p, Stored(p)
    PROVE  IsEqualToString(s, p) <=> s.units = p.units
<1>1. /\ IsText(s.units) /\ Length(s) = Len(s.units) /\ Len(s.units) \in Nat
      /\ s.class \in Tagged => IsAscii(s.units)
  BY StoredParts
<1>2. IsText(p.units) /\ Length(p) = Len(p.units) /\ Len(p.units) \in Nat
  BY StoredParts
<1>3. s.units = p.units <=> /\ Len(s.units) = Len(p.units)
                            /\ \A i \in 1..Len(s.units) : s.units[i] = p.units[i]
  BY <1>1, <1>2, SameText
<1>4. CASE Len(s.units) # Len(p.units)
  BY <1>1, <1>2, <1>3, <1>4 DEF IsEqualToString
<1>5. CASE Len(s.units) = Len(p.units) /\ s.class \in Tagged
  <2>1. (\A i \in 1..Len(s.units) : ToUTF8(p.units)[i] = s.units[i])
           <=> \A i \in 1..Len(s.units) : p.units[i] = s.units[i]
    <3>1. IsAscii(s.units) /\ SameLength(s.units, p.units)
      BY <1>1, <1>5 DEF SameLength
    <3> QED BY <1>1, <1>2, <3>1, UTF8OfASCII
  <2>2. IsEqualToString(s, p) <=> \A i \in 1..Len(s.units) : ToUTF8(p.units)[i] = s.units[i]
    BY <1>1, <1>2, <1>5 DEF IsEqualToString
  <2>3. s.units = p.units <=> \A i \in 1..Len(s.units) : p.units[i] = s.units[i]
    BY <1>3, <1>5
  <2> QED BY <2>1, <2>2, <2>3
<1>6. CASE Len(s.units) = Len(p.units) /\ s.class \notin Tagged
  <2>1. StartsWith(s, p, Len(s.units)) <=> \A i \in 1..Len(s.units) : s.units[i] = p.units[i]
    BY <1>1, <1>2, <1>6, StartsWithIsExact
  <2> QED BY <1>1, <1>2, <1>3, <1>6, <2>1 DEF IsEqualToString
<1> QED BY <1>4, <1>5, <1>6

(* A tagged string is too short for its hash to leave out characters.      *)
LEMMA HashOfText ==
    ASSUME NEW s, Stored(s)
    PROVE  Hash(s) = HashOfUnits(s.units, Len(s.units))
<1>1. /\ IsText(s.units) /\ Length(s) = Len(s.units) /\ Len(s.units) \in Nat
      /\ s.class = "Char7" => Len(s.units) =< Char7Max
      /\ s.class = "Char5" => Len(s.units) =< Char5Max
  BY StoredParts
<1>2. CASE s.class \in Tagged
  <2>1. ~(Len(s.units) > Window)
    BY <1>1, <1>2, LimitsAreOrdered DEF Tagged
  <2>2. HashOfUnits(s.units, Len(s.units)) = SubSeq(s.units, 0 + 1, 0 + Len(s.units))
    BY <2>1 DEF HashOfUnits, HashOfRange, HashRange
  <2>3. s.units \in Seq(Nat)
    BY <1>1, TextElements
  <2>4. SubSeq(s.units, 1, Len(s.units)) = s.units
    BY <1>1, <2>3, SubSeqFull
  <2>5. 0 + 1 = 1 /\ 0 + Len(s.units) = Len(s.units)
    BY <1>1
  <2> QED BY <1>2, <2>2, <2>4, <2>5 DEF Hash
<1>3. CASE s.class \notin Tagged
  BY <1>1, <1>3 DEF Hash
<1> QED BY <1>2, <1>3

LEMMA EqualHashes ==
    ASSUME NEW s, Stored(s), NEW p, Stored(p), IsEqualToString(s, p)
    PROVE  Hash(s) = Hash(p)
BY HashOfText, EqualityIsExact

LEMMA PrefixIsExact ==
    ASSUME NEW s, Stored(s), NEW p, Stored(p)
    PROVE  HasPrefix(s, p) <=> IsPrefix(p.units, s.units)
<1>1. IsText(s.units) /\ Length(s) = Len(s.units) /\ Len(s.units) \in Nat
  BY StoredParts
<1>2. IsText(p.units) /\ Length(p) = Len(p.units) /\ Len(p.units) \in Nat
  BY StoredParts
<1>3. CASE Len(s.units) >= Len(p.units)
  <2>1. StartsWith(s, p, Len(p.units)) <=> \A i \in 1..Len(p.units) : s.units[i] = p.units[i]
    BY <1>1, <1>2, <1>3, StartsWithIsExact
  <2>2. SubSeq(p.units, 1, Len(p.units)) = SubSeq(s.units, 1, Len(p.units))
          <=> \A i \in 1..Len(p.units) : p.units[i] = s.units[i]
    BY <1>1, <1>2, <1>3, SameStart
  <2> QED BY <1>1, <1>2, <1>3, <2>1, <2>2 DEF HasPrefix, IsPrefix
<1>4. CASE ~(Len(s.units) >= Len(p.units))
  BY <1>1, <1>2, <1>4 DEF HasPrefix, IsPrefix
<1> QED BY <1>3, <1>4

LEMMA ReverseIsText ==
    ASSUME NEW t, IsText(t)
    PROVE  /\ IsText(Reverse(t)) /\ Len(Reverse(t)) = Len(t)
           /\ \A i \in 1..Len(t) : Reverse(t)[i] = t[(Len(t) - i) + 1]
<1>1. PICK n \in Nat : n = Len(t)
  BY TextElements
<1>2. \A i \in 1..n : IsCodePoint(t[i]) /\ t[i] \in Nat
  BY <1>1, TextElements
<1>3. PICK r : r = [i \in 1..n |-> t[(n - i) + 1]]
  OBVIOUS
<1>4. \A i \in 1..n : (n - i) + 1 \in 1..n
  OBVIOUS
<1>5. r \in [1..n -> Nat] /\ \A i \in 1..n : IsCodePoint(r[i])
  BY <1>2, <1>3, <1>4
<1>6. r \in Seq(Nat) /\ Len(r) = n /\ DOMAIN r = 1..n
  BY <1>5, SeqDef, LenProperties
<1>7. IsText(r)
  BY <1>5, <1>6 DEF IsText
<1>8. Reverse(t) = r
  BY <1>1, <1>3 DEF Reverse
<1> QED BY <1>1, <1>3, <1>6, <1>7, <1>8

LEMMA SuffixIsExact ==
    ASSUME NEW s, Stored(s), NEW p, Stored(p), Length(p) =< Chunk
    PROVE  HasSuffix(s, p) = {IsSuffix(p.units, s.units)}
<1>1. IsText(s.units) /\ Length(s) = Len(s.units) /\ Len(s.units) \in Nat
  BY StoredParts
<1>2. IsText(p.units) /\ Length(p) = Len(p.units) /\ Len(p.units) \in Nat
  BY StoredParts
<1>3. PICK a, b : a = s.units /\ b = p.units
  OBVIOUS
<1>4. PICK m, n \in Nat : m = Len(a) /\ n = Len(b)
  BY <1>1, <1>2, <1>3
<1>5. PICK ra, rb : ra = Reverse(a) /\ rb = Reverse(b)
  OBVIOUS
<1>6. /\ IsText(ra) /\ Len(ra) = m /\ \A i \in 1..m : ra[i] = a[(m - i) + 1]
      /\ IsText(rb) /\ Len(rb) = n /\ \A i \in 1..n : rb[i] = b[(n - i) + 1]
  BY <1>1, <1>2, <1>3, <1>4, <1>5, ReverseIsText
<1>7. IsSuffix(b, a) <=> n <= m /\ SubSeq(rb, 1, n) = SubSeq(ra, 1, n)
  BY <1>5, <1>6 DEF IsSuffix, IsPrefix
<1>8. ~(Chunk < n) /\ Chunk \in Nat
  BY <1>2, <1>3, <1>4, LimitsAreOrdered
<1>9. CASE m < n
  <2>1. HasSuffix(s, p) = {FALSE}
    BY <1>1, <1>2, <1>3, <1>4, <1>9 DEF HasSuffix
  <2>2. IsSuffix(b, a) = FALSE
    BY <1>7, <1>9, SMT DEF IsSuffix, IsPrefix
  <2> QED BY <1>3, <2>1, <2>2
<1>10. CASE n <= m
  <2>1. PICK c : c = SubSeq(a, m - n + 1, m)
    OBVIOUS
  <2>2. /\ IsText(c) /\ Len(c) = n
        /\ \A i \in 1..n : c[i] = a[i + (m - n + 1) - 1]
    <3>1. /\ m - n + 1 \in Int /\ m \in Int /\ 1 <= m - n + 1 /\ m <= Len(a)
          /\ n = IF m - n + 1 <= m THEN m - (m - n + 1) + 1 ELSE 0
      BY <1>4, <1>10
    <3>2. IsText(a)
      BY <1>1, <1>3
    <3> QED BY <2>1, <3>1, <3>2, PartIsText
  <2>3. c = b <=> \A i \in 1..n : c[i] = b[i]
    BY <1>2, <1>3, <1>4, <2>2, SameText
  <2>4. SubSeq(rb, 1, n) = SubSeq(ra, 1, n) <=> \A i \in 1..n : rb[i] = ra[i]
    BY <1>6, <1>10, SameStart
  <2>5. (\A i \in 1..n : rb[i] = ra[i]) <=> \A i \in 1..n : c[i] = b[i]
    <3>1. \A i \in 1..n : /\ (n - i) + 1 \in 1..n
                          /\ i \in 1..m
                          /\ ((n - i) + 1) + (m - n + 1) - 1 = (m - i) + 1
                          /\ (n - ((n - i) + 1)) + 1 = i
      BY <1>10
    <3>2. \A i \in 1..n : rb[i] = b[(n - i) + 1] /\ ra[i] = c[(n - i) + 1]
      <4> SUFFICES ASSUME NEW i \in 1..n
                   PROVE  rb[i] = b[(n - i) + 1] /\ ra[i] = c[(n - i) + 1]
        OBVIOUS
      <4>1. rb[i] = b[(n - i) + 1] /\ ra[i] = a[(m - i) + 1]
        BY <1>6, <3>1
      <4>2. PICK j \in 1..n : j = (n - i) + 1
        BY <3>1
      <4>3. c[j] = a[j + (m - n + 1) - 1] /\ j + (m - n + 1) - 1 = (m - i) + 1
        BY <2>2, <4>2
      <4> QED BY <4>1, <4>2, <4>3
    <3>3. \A i \in 1..n : rb[(n - i) + 1] = b[i] /\ ra[(n - i) + 1] = c[i]
      BY <3>1, <3>2
    <3> QED BY <3>1, <3>2, <3>3
  <2>6. (c = b) <=> IsSuffix(b, a)
    BY <1>7, <1>10, <2>3, <2>4, <2>5
  <2>7. HasSuffix(s, p) = {c = b}
    <3>1. ~(m < n)
      BY <1>10
    <3> QED BY <1>1, <1>2, <1>3, <1>4, <1>8, <2>1, <3>1 DEF HasSuffix
  <2>8. (c = b) = IsSuffix(b, a)
    <3>1. IsSuffix(b, a) \in BOOLEAN
      BY Zenon DEF IsSuffix, IsPrefix
    <3>2. (c = b) \in BOOLEAN
      OBVIOUS
    <3> QED BY <2>6, <3>1, <3>2
  <2> QED BY <1>3, <2>7, <2>8
<1> QED BY <1>9, <1>10

-----------------------------------------------------------------------------
(* An export yields bytes.                                                 *)

Byte == 0..255

LEMMA OneByte == ASSUME NEW b \in Byte PROVE <<b>> \in Seq(Byte)
BY DEF Byte

LEMMA ZeroIsBytes == ASSUME NEW options PROVE Zero(options) \in Seq(Byte)
<1>1. 0 \in Byte
  BY DEF Byte
<1> QED BY <1>1, OneByte, EmptySeq DEF Zero

LEMMA ZeroIsUnits == ASSUME NEW options PROVE Zero(options) \in Seq(Nat)
BY EmptySeq DEF Zero

LEMMA MarkIsUnits == ASSUME NEW options PROVE MarkUnit(options) \in Seq(Nat)
<1>1. Mark \in Nat
  BY SMT DEF Mark
<1> QED BY <1>1, EmptySeq DEF MarkUnit

LEMMA ToUTF16IsUnits ==
    ASSUME NEW t, IsText(t)
    PROVE  ToUTF16(t) \in Seq(Nat)
<1> DEFINE seqs == [i \in DOMAIN t |-> UTF16Units(t[i])]
<1>1. DOMAIN t = 1..Len(t) /\ Len(t) \in Nat /\ \A i \in 1..Len(t) : t[i] \in Nat
  BY TextElements
<1>2. ASSUME NEW c \in Nat PROVE UTF16Units(c) \in Seq(Nat)
  <2>1. CASE c < 65536
    BY <2>1, SMT DEF UTF16Units
  <2>2. CASE ~(c < 65536)
    <3>1. PICK x, y : /\ x = 55296 + ((c - 65536) \div 1024)
                      /\ y = 56320 + ((c - 65536) % 1024)
      BY SMT
    <3>2. x \in Nat /\ y \in Nat
      BY <2>2, <3>1, SMT
    <3>3. UTF16Units(c) = <<x, y>>
      BY <2>2, <3>1, SMT DEF UTF16Units
    <3> QED BY <3>2, <3>3, SMT
  <2> QED BY <2>1, <2>2, SMT
<1>3. seqs \in [1..Len(t) -> Seq(Nat)]
  BY <1>1, <1>2
<1>4. seqs \in Seq(Seq(Nat))
  BY <1>1, <1>3, SeqDef
<1> HIDE DEF seqs
<1>5. FlattenSeq(seqs) \in Seq(Nat)
  BY <1>4, ConcatenationIsText
<1> QED BY <1>5 DEF ToUTF16, seqs

(* Units of two or four bytes in memory.                                   *)
LEMMA ToBytesIsBytes ==
    ASSUME NEW units \in Seq(Nat), NEW z \in {2, 4}
    PROVE  ToBytes(units, z) \in Seq(Byte)
<1>1. PICK n \in Nat : n = Len(units)
  BY LenProperties
<1>2. n * z \in Nat
  BY SMT
<1>3. ASSUME NEW i \in 1..(n * z)
      PROVE  ((i - 1) \div z) + 1 \in 1..n /\ (i - 1) % z \in Nat
  <2>1. CASE z = 2
    BY <1>3, <2>1, SMT
  <2>2. CASE z = 4
    BY <1>3, <2>2, SMT
  <2> QED BY <2>1, <2>2
<1>4. ASSUME NEW u \in Nat, NEW k \in Nat PROVE ByteOf(u, k) \in Byte
  BY SMT DEF Byte, ByteOf
<1>5. \A j \in 1..n : units[j] \in Nat
  BY <1>1, ElementOfSeq
<1>6. \A i \in 1..(n * z) : ByteOf(units[((i - 1) \div z) + 1], (i - 1) % z) \in Byte
  BY <1>3, <1>4, <1>5
<1>7. ToBytes(units, z) \in [1..(n * z) -> Byte]
  BY <1>1, <1>6 DEF ToBytes
<1> QED BY <1>2, <1>7, SeqDef

LEMMA SwapUnitsIsBytes ==
    ASSUME NEW bytes \in Seq(Byte), NEW z \in {2, 4}
    PROVE  SwapUnits(bytes, z) \in Seq(Byte)
<1>1. PICK n \in Nat : n = Len(bytes)
  BY LenProperties
<1>2. PICK m \in Int : m = (n \div z) * z
  BY SMT
<1>3. m \in Nat /\ m <= n
  <2>1. CASE z = 2
    BY <1>2, <2>1, SMT
  <2>2. CASE z = 4
    BY <1>2, <2>2, SMT
  <2> QED BY <2>1, <2>2
<1>4. ASSUME NEW i \in 1..m
      PROVE  (2 * ((i - 1) \div z) * z) + z + 1 - i \in 1..n
  <2>1. CASE z = 2
    <3>1. PICK q \in Int : q = (i - 1) \div 2
      BY SMT
    <3>2. PICK k \in Int : k = n \div 2
      BY SMT
    <3>3. /\ 2 * q <= i - 1 /\ i - 1 <= (2 * q) + 1
          /\ 2 * k <= n /\ n <= (2 * k) + 1 /\ i <= 2 * k
      BY <1>2, <2>1, <3>1, <3>2, SMT
    <3>4. (2 * q * 2) + 2 + 1 - i \in 1..n
      BY <3>3, SMT
    <3> QED BY <2>1, <3>1, <3>4
  <2>2. CASE z = 4
    <3>1. PICK q \in Int : q = (i - 1) \div 4
      BY SMT
    <3>2. PICK k \in Int : k = n \div 4
      BY SMT
    <3>3. /\ 4 * q <= i - 1 /\ i - 1 <= (4 * q) + 3
          /\ 4 * k <= n /\ n <= (4 * k) + 3 /\ i <= 4 * k
      BY <1>2, <2>2, <3>1, <3>2, SMT
    <3>4. (2 * q * 4) + 4 + 1 - i \in 1..n
      BY <3>3, SMT
    <3> QED BY <2>2, <3>1, <3>4
  <2> QED BY <2>1, <2>2
<1>5. \A j \in 1..n : bytes[j] \in Byte
  BY <1>1, ElementOfSeq
<1>6. SwapUnits(bytes, z) = [i \in 1..m |-> bytes[(2 * ((i - 1) \div z) * z) + z + 1 - i]]
  BY <1>1, <1>2 DEF SwapUnits
<1>7. SwapUnits(bytes, z) \in [1..m -> Byte]
  BY <1>4, <1>5, <1>6
<1> QED BY <1>3, <1>7, SeqDef

LEMMA OrderedIsBytes ==
    ASSUME NEW units \in Seq(Nat), NEW z \in {2, 4}, NEW e
    PROVE  Ordered(ToBytes(units, z), z, e) \in Seq(Byte)
BY ToBytesIsBytes, SwapUnitsIsBytes DEF Ordered

(* The result of an export.                                                *)
IsResult(r) == \/ r.state = "refused"
               \/ r.state = "bytes" /\ r.bytes \in Seq(Byte)

LEMMA BytesAreResult == ASSUME NEW b \in Seq(Byte) PROVE IsResult(Bytes(b))
BY DEF IsResult, Bytes

LEMMA RefusedIsResult == IsResult(Refused)
BY DEF IsResult, Refused

LEMMA UTF8DataIsBytes ==
    ASSUME NEW s, Stored(s), NEW options
    PROVE  UTF8Data(s, options) \in Seq(Byte)
<1>1. PICK text : text = ToUTF8(s.units)
  OBVIOUS
<1>2. PICK zero : zero = Zero(options)
  OBVIOUS
<1>3. PICK mark : mark = IF "BOM" \in options THEN <<239, 187, 188>> ELSE <<>>
  OBVIOUS
<1>4. text \in Seq(Byte) /\ zero \in Seq(Byte)
  BY <1>1, <1>2, StoredParts, ToUTF8IsBytes, ZeroIsBytes DEF Byte
<1>5. mark \in Seq(Byte)
  <2>1. <<239, 187, 188>> \in Seq(0..255)
    OBVIOUS
  <2> QED BY <1>3, <2>1, EmptySeq DEF Byte
<1>6. mark \o text \o zero \in Seq(Byte)
  BY <1>4, <1>5, ConcatProperties
<1>7. UTF8Data(s, options) = mark \o text \o zero
  BY <1>1, <1>2, <1>3 DEF UTF8Data
<1> QED BY <1>6, <1>7

LEMMA ExportedIsResult ==
    ASSUME NEW s, Stored(s), NEW e \in Encodings, NEW options
    PROVE  IsResult(Exported(s, e, options))
<1>1. IsText(s.units) /\ IsText(Body(s.units)) /\ s.units \in Seq(Nat)
  BY StoredParts, BodyIsText, TextElements
<1>2. CASE e = "ASCII"
  <2>1. Exported(s, e, options) = ASCIIData(s, options)
    BY <1>2 DEF Exported
  <2>2. ToUTF8(s.units) \in Seq(Byte) /\ Zero(options) \in Seq(Byte)
    BY <1>1, ToUTF8IsBytes, ZeroIsBytes DEF Byte
  <2>3. ToUTF8(s.units) \o Zero(options) \in Seq(Byte)
    BY <2>2, ConcatProperties
  <2> QED BY <2>1, <2>3, BytesAreResult, RefusedIsResult DEF ASCIIData
<1>3. CASE e = "ISO1"
  <2>1. Exported(s, e, options) = ISO1Data(s, options)
    BY <1>3 DEF Exported
  <2>2. PICK t : t = FromUTF8(UTF8Data(s, options)).text
    OBVIOUS
  <2>3. Exported(s, e, options) = IF t \in Seq(Byte) THEN Bytes(t) ELSE Refused
    BY <2>1, <2>2 DEF ISO1Data, Byte
  <2> QED BY <2>3, BytesAreResult, RefusedIsResult
<1>4. CASE e = "UTF8"
  <2>1. Exported(s, e, options) = Bytes(UTF8Data(s, options))
    BY <1>4 DEF Exported
  <2> QED BY <2>1, UTF8DataIsBytes, BytesAreResult
<1>5. CASE e \in Wide16
  <2>1. Exported(s, e, options) = UTF16Data(s, options, e)
    BY <1>5 DEF Exported, Wide16
  <2>2. PICK units : units = MarkUnit(options) \o ToUTF16(Body(s.units)) \o Zero(options)
    OBVIOUS
  <2>3. units \in Seq(Nat)
    BY <1>1, <2>2, MarkIsUnits, ToUTF16IsUnits, ZeroIsUnits, ConcatProperties
  <2>4. UTF16Data(s, options, e) = Bytes(Ordered(ToBytes(units, 2), 2, e))
    BY <2>2 DEF UTF16Data
  <2>5. Ordered(ToBytes(units, 2), 2, e) \in Seq(Byte)
    BY <2>3, OrderedIsBytes
  <2> QED BY <2>1, <2>4, <2>5, BytesAreResult
<1>6. CASE e \in Wide32
  <2>1. Exported(s, e, options) = UTF32Data(s, options, e)
    BY <1>6 DEF Exported, Wide16, Wide32
  <2>2. PICK units : units = MarkUnit(options) \o s.units \o Zero(options)
    OBVIOUS
  <2>3. units \in Seq(Nat)
    BY <1>1, <2>2, MarkIsUnits, ZeroIsUnits, ConcatProperties
  <2>4. UTF32Data(s, options, e) = Bytes(Ordered(ToBytes(units, 4), 4, e))
    BY <2>2 DEF UTF32Data
  <2>5. Ordered(ToBytes(units, 4), 4, e) \in Seq(Byte)
    BY <2>3, OrderedIsBytes
  <2> QED BY <2>1, <2>4, <2>5, BytesAreResult
<1> QED BY <1>2, <1>3, <1>4, <1>5, <1>6 DEF Encodings

(* What is imported is a string that suits its format, or is rejected.     *)
LEMMA ImportedIsStored ==
    ASSUME NEW bytes, NEW e \in Encodings
    PROVE  Imported(bytes, e) = Rejected \/ Stored(Imported(bytes, e))
<1>1. ASSUME NEW d PROVE Decoded(d) = Rejected \/ Stored(Decoded(d))
  BY NewStringIsStored DEF Decoded
<1>2. ASSUME NEW d PROVE DecodedUTF16(d) = Rejected \/ Stored(DecodedUTF16(d))
  BY UTF16CharactersIsStored DEF DecodedUTF16
<1>3. \/ Imported(bytes, e) = Empty
      \/ \E d : Imported(bytes, e) = Decoded(d)
      \/ \E d : Imported(bytes, e) = DecodedUTF16(d)
  <2>1. CASE bytes = <<>>
    BY <2>1 DEF Imported
  <2>2. CASE bytes # <<>> /\ e = "ISO1"
    BY <2>2 DEF Imported
  <2>3. CASE bytes # <<>> /\ e \in {"ASCII", "UTF8"}
    BY <2>3 DEF Imported
  <2>4. CASE bytes # <<>> /\ e \in Wide16
    BY <2>4 DEF Imported, Wide16
  <2>5. CASE bytes # <<>> /\ e \in Wide32
    BY <2>5 DEF Imported, Wide16, Wide32
  <2> QED BY <2>1, <2>2, <2>3, <2>4, <2>5 DEF Encodings
<1> QED BY <1>1, <1>2, <1>3, EmptyIsStored

-----------------------------------------------------------------------------
(* The parts of TypeOK.                                                    *)

IsString(x) == x = None \/ Stored(x)
IsOther(x)  == x \in {None, Rejected} \/ Stored(x)
IsData(d)   == \/ d = NoData
               \/ /\ d.state \in {"bytes", "refused"}
                  /\ d.bytes \in Seq(Byte)
                  /\ d.encoding \in Encodings
                  /\ Stored(d.source)

LEMMA TypeParts == TypeOK <=> IsString(string) /\ IsOther(other) /\ IsData(data)
BY DEF TypeOK, IsString, IsOther, IsData, Byte

LEMMA NextTypeParts ==
    TypeOK' <=> IsString(string') /\ IsOther(other') /\ IsData(data')
BY DEF TypeOK, IsString, IsOther, IsData, Byte

LEMMA InitTypes == Init => TypeOK
BY TypeParts DEF Init, IsString, IsOther, IsData

LEMMA AppearTypes ==
    ASSUME NEW s, Stored(s), TypeOK, Appear(s)
    PROVE  TypeOK'
BY TypeParts, NextTypeParts DEF Appear, IsString, IsOther

LEMMA InitializersTypes ==
    ASSUME NEW t \in Texts, TypeOK,
           \/ InitWithCharacters(t)
           \/ InitWithUTF8NoCopy(t)
           \/ InitNoCopy(t)
           \/ InitWithUTF16(t)
           \/ AppendPieces(t)
           \/ CheatingInit(t)
    PROVE  TypeOK'
<1>1. IsText(t)
  BY TextsAreTexts
<1>2. CASE InitWithCharacters(t)
  BY <1>1, <1>2, NewStringIsStored, AppearTypes DEF InitWithCharacters
<1>3. CASE InitWithUTF8NoCopy(t)
  BY <1>1, <1>3, UTF8NoCopyIsStored, AppearTypes DEF InitWithUTF8NoCopy
<1>4. CASE InitNoCopy(t)
  BY <1>1, <1>4, NoCopyIsStored, AppearTypes DEF InitNoCopy
<1>5. CASE InitWithUTF16(t)
  BY <1>1, <1>5, UTF16CharactersIsStored, AppearTypes DEF InitWithUTF16
<1>6. CASE AppendPieces(t)
  BY <1>1, <1>6, MutableIsStored, AppearTypes DEF AppendPieces
<1>7. CASE CheatingInit(t)
  BY <1>1, <1>7, CheatingIsStored, AppearTypes DEF CheatingInit
<1> QED BY <1>2, <1>3, <1>4, <1>5, <1>6, <1>7

LEMMA CopyTypes == ASSUME TypeOK, Copy PROVE TypeOK'
<1>1. Stored(string) /\ (string.class = "Cheating" => Length(string) > 0)
  BY TypeParts DEF Copy, Unused, IsString
<1>2. Stored(ImmutableCopy(string))
  BY <1>1, CopyIsStored
<1> QED BY <1>2, TypeParts, NextTypeParts DEF Copy, IsString

LEMMA RangeFits ==
    ASSUME NEW s, Stored(s), NEW r \in Ranges(s)
    PROVE  r.location \in Nat /\ r.length \in Nat /\ r.location + r.length =< Length(s)
<1>1. Length(s) \in Nat
  BY StoredParts
<1> QED BY <1>1 DEF Ranges

LEMMA SubstringTypes == ASSUME TypeOK, Substring PROVE TypeOK'
<1>1. Stored(string)
  BY TypeParts DEF Substring, Unused, IsString
<1>2. PICK r \in Ranges(string) : string' = SubstringWithRange(string, r.location, r.length)
  BY DEF Substring
<1>3. Stored(SubstringWithRange(string, r.location, r.length))
  BY <1>1, RangeFits, SubstringIsStored
<1> QED BY <1>2, <1>3, TypeParts, NextTypeParts DEF Substring, IsString

LEMMA ExportTypes ==
    ASSUME NEW s, Stored(s), NEW e \in Encodings, NEW options, NEW result,
           IsResult(result), Export(s, e, options, result)
    PROVE  IsData(data')
<1>1. PICK b : b = IF result.state = "bytes" THEN result.bytes ELSE <<>>
  OBVIOUS
<1>2. data' = [state |-> result.state, source |-> s, encoding |-> e,
               options |-> options, whole |-> TRUE, bytes |-> b]
  BY <1>1 DEF Export
<1>3. b \in Seq(Byte) /\ result.state \in {"bytes", "refused"}
  BY <1>1, EmptySeq DEF IsResult
<1> QED BY <1>2, <1>3 DEF IsData

LEMMA DataUsingEncodingTypes ==
    ASSUME TypeOK, NEW e \in Encodings, NEW options, DataUsingEncoding(e, options)
    PROVE  TypeOK'
<1>1. Stored(string)
  BY TypeParts DEF DataUsingEncoding, Unused, IsString
<1>2. IsData(data')
  BY <1>1, ExportedIsResult, ExportTypes DEF DataUsingEncoding
<1> QED BY <1>2, TypeParts, NextTypeParts DEF DataUsingEncoding

(* What is left of an export that was cut off are bytes, too.              *)
LEMMA GetBytesTypes ==
    ASSUME TypeOK, NEW e \in Encodings, NEW room \in Rooms, NEW r \in Ranges(string),
           GetBytes(e, room, r)
    PROVE  TypeOK'
<1>1. Stored(string)
  BY TypeParts DEF GetBytes, Unused, IsString
<1>2. PICK s : s = IF r.length # Length(string)
                   THEN SubstringWithRange(string, r.location, r.length) ELSE string
  OBVIOUS
<1>3. Stored(s)
  <2>1. Stored(SubstringWithRange(string, r.location, r.length))
    BY <1>1, RangeFits, SubstringIsStored
  <2> QED BY <1>1, <1>2, <2>1
<1>4. PICK result : result = Exported(s, e, Default)
  OBVIOUS
<1>5. IsResult(result)
  BY <1>3, <1>4, ExportedIsResult
<1>6. IsData(data')
  <2>1. CASE result.state = "bytes" /\ Len(result.bytes) > room
    <3>1. PICK b : b = SubSeq(result.bytes, 1, room)
      OBVIOUS
    <3>2. data' = [state |-> "bytes", source |-> s, encoding |-> e,
                   options |-> Default, whole |-> FALSE, bytes |-> b]
      BY <1>2, <1>4, <2>1, <3>1 DEF GetBytes
    <3>3. result.bytes \in Seq(Byte) /\ room \in Nat
      BY <1>5, <2>1, RoomsAreSizes DEF IsResult
    <3>4. \A i \in 1..room : i \in 1..Len(result.bytes)
      BY <2>1, <3>3, LenProperties
    <3>5. b \in Seq(Byte)
      <4>1. \A i \in 1..room : result.bytes[i] \in Byte
        BY <3>3, <3>4, ElementOfSeq
      <4> QED BY <3>1, <3>3, <4>1, SubSeqProperties
    <3> QED BY <1>3, <3>2, <3>5 DEF IsData
  <2>2. CASE ~(result.state = "bytes" /\ Len(result.bytes) > room)
    <3>1. Export(s, e, Default, result)
      BY <1>2, <1>4, <2>2 DEF GetBytes
    <3> QED BY <1>3, <1>5, <3>1, ExportTypes
  <2> QED BY <2>1, <2>2
<1> QED BY <1>6, TypeParts, NextTypeParts DEF GetBytes

LEMMA InitWithDataTypes == ASSUME TypeOK, InitWithData PROVE TypeOK'
<1>1. data.encoding \in Encodings
  BY TypeParts DEF InitWithData, IsData
<1>2. IsOther(other')
  BY <1>1, ImportedIsStored DEF InitWithData, IsOther
<1> QED BY <1>2, TypeParts, NextTypeParts DEF InitWithData

(* Every string that a client can come by suits its format, whatever texts *)
(* it starts from and whichever way it takes: the accessors and hashes of  *)
(* the classes rely on 7 and 15 bit, and on the length, without a check.   *)
THEOREM TypeCorrect == Spec => []TypeOK
<1>1. TypeOK /\ [Next]_vars => TypeOK'
  <2> SUFFICES ASSUME TypeOK, [Next]_vars PROVE TypeOK'
    OBVIOUS
  <2>1. ASSUME NEW t \in Texts,
               \/ InitWithCharacters(t)
               \/ InitWithUTF8NoCopy(t)
               \/ InitNoCopy(t)
               \/ InitWithUTF16(t)
               \/ AppendPieces(t)
               \/ CheatingInit(t)
        PROVE  TypeOK'
    BY <2>1, InitializersTypes
  <2>2. CASE Copy
    BY <2>2, CopyTypes
  <2>3. CASE Substring
    BY <2>3, SubstringTypes
  <2>4. ASSUME NEW e \in Encodings, NEW options \in Options, DataUsingEncoding(e, options)
        PROVE  TypeOK'
    BY <2>4, DataUsingEncodingTypes
  <2>5. ASSUME NEW e \in Encodings, NEW room \in Rooms, NEW r \in Ranges(string),
               GetBytes(e, room, r)
        PROVE  TypeOK'
    BY <2>5, GetBytesTypes
  <2>6. CASE InitWithData
    BY <2>6, InitWithDataTypes
  <2>7. CASE Release
    BY <2>7, NextTypeParts DEF Release, IsString, IsOther, IsData
  <2>8. CASE UNCHANGED vars
    BY <2>8, TypeParts, NextTypeParts DEF vars
  <2> QED BY <2>1, <2>2, <2>3, <2>4, <2>5, <2>6, <2>7, <2>8 DEF Next
<1> QED BY InitTypes, <1>1, PTL DEF Spec

-----------------------------------------------------------------------------
(* Comparisons.                                                            *)

LEMMA BothAreStored == TypeOK /\ BothStrings => Stored(string) /\ Stored(other)
BY TypeParts DEF BothStrings, IsString, IsOther

(* isEqualToString:, hasPrefix: and hasSuffix: (up to a chunk) answer for  *)
(* the characters, of any two strings of any classes.                      *)
THEOREM Comparisons == Spec => []ComparisonsAreExact
<1>1. TypeOK => ComparisonsAreExact
  <2> SUFFICES ASSUME Stored(string), Stored(other) PROVE ComparisonsAreExact
    BY BothAreStored DEF ComparisonsAreExact
  <2>1. IsEqualToString(string, other) <=> string.units = other.units
    BY EqualityIsExact
  <2>2. IsEqualToString(other, string) <=> string.units = other.units
    BY EqualityIsExact
  <2>3. HasPrefix(string, other) <=> IsPrefix(other.units, string.units)
    BY PrefixIsExact
  <2>4. Length(other) =< Chunk =>
            HasSuffix(string, other) = {IsSuffix(other.units, string.units)}
    BY SuffixIsExact
  <2> QED BY <2>1, <2>2, <2>3, <2>4 DEF ComparisonsAreExact
<1> QED BY TypeCorrect, <1>1, PTL

(* Equal strings hash alike, tagged pointers, which hash all of their      *)
(* characters, and the other classes, which hash a window of them.         *)
THEOREM EqualHash == Spec => []EqualStringsHashAlike
<1>1. TypeOK => EqualStringsHashAlike
  BY BothAreStored, EqualHashes DEF EqualStringsHashAlike
<1> QED BY TypeCorrect, <1>1, PTL

-----------------------------------------------------------------------------
(* A decoder goes from one state to the next with each unit.  What follows *)
(* holds of the decoders of UTF-8 and of UTF-16: F is the step.            *)

Decoder == [text : Seq(Nat), due : Int, bits : Nat]
Busy(x, n, v) == [text |-> x, due |-> n, bits |-> v]
Idle(x)       == Busy(x, 0, 0)

IsDecoding(F) == F \in [Decoder \X Nat -> Decoder]

Decodes(D, F, u) == /\ D \in [0..Len(u) -> Decoder] /\ D[0] = Idle(<<>>)
                    /\ \A k \in 1..Len(u) : D[k] = F[<<D[k - 1], u[k]>>]

LEMMA BusyIsDecoder ==
    ASSUME NEW x \in Seq(Nat), NEW n \in Int, NEW v \in Nat
    PROVE  /\ Busy(x, n, v) \in Decoder /\ Busy(x, n, v).text = x
           /\ Busy(x, n, v).due = n /\ Busy(x, n, v).bits = v
  BY DEF Busy, Decoder

LEMMA IdleIsDecoder ==
    ASSUME NEW x \in Seq(Nat)
    PROVE  Idle(x) \in Decoder /\ Idle(x).text = x /\ Idle(x).due = 0
  BY BusyIsDecoder DEF Idle

LEMMA DecodingExists ==
    ASSUME NEW F, IsDecoding(F), NEW u \in Seq(Nat)
    PROVE  \E D : Decodes(D, F, u)
<1>1. PICK n \in Nat : n = Len(u)
  BY LenProperties
<1>2. \A i \in 1..n : u[i] \in Nat
  BY <1>1, ElementOfSeq
<1>3. PICK G : G = [z \in (1..n) \X Decoder |-> F[<<z[2], u[z[1]]>>]]
  OBVIOUS
<1>4. \A i \in 1..n, d \in Decoder : G[<<i, d>>] = F[<<d, u[i]>>] /\ G[<<i, d>>] \in Decoder
  BY <1>2, <1>3 DEF IsDecoding
<1>5. IsStep(G, n, Decoder)
  <2>1. \A z \in (1..n) \X Decoder : F[<<z[2], u[z[1]]>>] \in Decoder
    BY <1>2 DEF IsDecoding
  <2> QED BY <1>3, <2>1 DEF IsStep
<1>6. Idle(<<>>) \in Decoder
  BY IdleIsDecoder, EmptySeq
<1>7. PICK D : IsRecursive(D, n, Decoder, Idle(<<>>), G)
  BY <1>5, <1>6, RecursionExists
<1>8. /\ D \in [0..n -> Decoder] /\ D[0] = Idle(<<>>)
      /\ \A i \in 1..n : D[i] = G[<<i, D[i - 1]>>]
  BY <1>7 DEF IsRecursive
<1>9. ASSUME NEW i \in 1..n PROVE D[i] = F[<<D[i - 1], u[i]>>]
  <2>1. D[i - 1] \in Decoder
    BY <1>8
  <2> QED BY <1>4, <1>8, <2>1
<1> QED BY <1>1, <1>8, <1>9 DEF Decodes

(* The states depend on the units that were read, and on no others.        *)
LEMMA SameDecoding ==
    ASSUME NEW F, NEW u, NEW D, Decodes(D, F, u), NEW w, NEW E, Decodes(E, F, w),
           NEW r \in Nat, r <= Len(u), r <= Len(w), Len(u) \in Nat, Len(w) \in Nat,
           \A k \in 1..r : u[k] = w[k]
    PROVE  D[r] = E[r]
<1> DEFINE S == {k \in 0..r : D[k] = E[k]}
<1>1. /\ D[0] = E[0]
      /\ \A k \in 1..Len(u) : D[k] = F[<<D[k - 1], u[k]>>]
      /\ \A k \in 1..Len(w) : E[k] = F[<<E[k - 1], w[k]>>]
  BY DEF Decodes
<1>2. 0 \in S
  BY <1>1
<1>3. \A k \in 0..r : k < r /\ k \in S => k + 1 \in S
  <2> SUFFICES ASSUME NEW k \in 0..r, k < r, D[k] = E[k] PROVE D[k + 1] = E[k + 1]
    OBVIOUS
  <2>1. /\ k + 1 \in 1..Len(u) /\ k + 1 \in 1..Len(w) /\ k + 1 \in 1..r
        /\ (k + 1) - 1 = k
    OBVIOUS
  <2>2. D[k + 1] = F[<<D[k], u[k + 1]>>] /\ E[k + 1] = F[<<E[k], w[k + 1]>>]
    BY <1>1, <2>1
  <2>3. u[k + 1] = w[k + 1]
    BY <2>1
  <2> QED BY <2>2, <2>3, Zenon
<1>4. 0..r \subseteq S
  <2> HIDE DEF S
  <2> QED BY ONLY r \in Nat, <1>2, <1>3, Induction
<1> QED BY <1>4

(* The units b take an idle decoder over the character c, which is added   *)
(* to the text with the last of them.                                      *)
Run(e, F, b, x) == e[0] = Idle(x) /\ \A k \in 1..Len(b) : e[k] = F[<<e[k - 1], b[k]>>]
Feeds(F, b, c) == \A x \in Seq(Nat) : \A e :
    Run(e, F, b, x) => /\ e[Len(b)] = Idle(Append(x, c))
                       /\ \A k \in 0..(Len(b) - 1) : e[k].text = x

First(t, m)   == SubSeq(t, 1, m)
IsStart(x, t) == \E m \in 0..Len(t) : x = First(t, m)

LEMMA Firsts ==
    ASSUME NEW t \in Seq(Nat)
    PROVE  /\ First(t, 0) = <<>> /\ First(t, Len(t)) = t
           /\ \A m \in 0..Len(t) : First(t, m) \in Seq(Nat) /\ Len(First(t, m)) = m
           /\ \A m \in 0..Len(t) : \A i \in 1..m : First(t, m)[i] = t[i]
           /\ \A m \in 0..Len(t) : m < Len(t) =>
                  First(t, m + 1) = Append(First(t, m), t[m + 1])
<1>1. PICK n \in Nat : n = Len(t)
  BY LenProperties
<1>2. \A i \in 1..n : t[i] \in Nat
  BY <1>1, ElementOfSeq
<1>3. ASSUME NEW m \in 0..n
      PROVE  /\ First(t, m) \in Seq(Nat) /\ Len(First(t, m)) = m
             /\ \A i \in 1..m : First(t, m)[i] = t[i]
  <2>1. \A i \in 1..m : i \in 1..n /\ t[i] \in Nat
    BY <1>2
  <2>2. PICK s : s = First(t, m)
    OBVIOUS
  <2>3. /\ s \in Seq(Nat) /\ Len(s) = IF 1 <= m THEN m - 1 + 1 ELSE 0
        /\ \A i \in 1..(m - 1 + 1) : s[i] = t[1 + i - 1]
    BY <2>1, <2>2, SubSeqProperties DEF First
  <2>5. /\ m - 1 + 1 = m /\ (IF 1 <= m THEN m - 1 + 1 ELSE 0) = m
        /\ \A i \in 1..m : 1 + i - 1 = i
    OBVIOUS
  <2>4. Len(s) = m /\ \A i \in 1..m : s[i] = t[i]
    BY <2>3, <2>5
  <2> QED BY <2>2, <2>3, <2>4
<1>4. First(t, 0) = <<>>
  <2>1. First(t, 0) \in Seq(Nat) /\ Len(First(t, 0)) = 0
    BY <1>3
  <2> QED BY <2>1, EmptySeq
<1>5. First(t, n) = t
  <2>1. /\ First(t, n) \in Seq(Nat) /\ Len(First(t, n)) = n
        /\ \A i \in 1..n : First(t, n)[i] = t[i]
    BY <1>3
  <2> QED BY <1>1, <2>1, SeqEqual
<1>6. ASSUME NEW m \in 0..n, m < n
      PROVE  First(t, m + 1) = Append(First(t, m), t[m + 1])
  <2>1. PICK x, y : x = First(t, m) /\ y = First(t, m + 1)
    OBVIOUS
  <2>2. m + 1 \in 0..n /\ m + 1 \in 1..n
    BY <1>6
  <2>3. x \in Seq(Nat) /\ Len(x) = m /\ \A i \in 1..m : x[i] = t[i]
    BY <1>3, <2>1
  <2>4. y \in Seq(Nat) /\ Len(y) = m + 1 /\ \A i \in 1..(m + 1) : y[i] = t[i]
    BY <1>3, <2>1, <2>2
  <2>5. PICK z : z = Append(x, t[m + 1])
    OBVIOUS
  <2>6. /\ z \in Seq(Nat) /\ Len(z) = m + 1 /\ z[m + 1] = t[m + 1]
        /\ \A i \in 1..m : z[i] = x[i]
    BY <1>2, <2>2, <2>3, <2>5, AppendProperties
  <2>7. \A i \in 1..(m + 1) : i \in 1..m \/ i = m + 1
    OBVIOUS
  <2>8. \A i \in 1..(m + 1) : z[i] = y[i]
    BY <2>3, <2>4, <2>6, <2>7
  <2>9. z = y
    BY <2>4, <2>6, <2>8, SeqEqual
  <2> QED BY <2>1, <2>5, <2>9
<1> QED BY <1>1, <1>3, <1>4, <1>5, <1>6
(* The decoder is idle after each character, and has the text up to it;    *)
(* in between it has the text up to the character that has begun.          *)
Encodes(seqs, F, t) ==
    /\ seqs \in Seq(Seq(Nat)) /\ Len(seqs) = Len(t)
    /\ \A i \in 1..Len(t) : Len(seqs[i]) >= 1 /\ Feeds(F, seqs[i], t[i])

LEMMA DecodedText ==
    ASSUME NEW F, NEW t \in Seq(Nat), NEW seqs, Encodes(seqs, F, t),
           NEW D, Decodes(D, F, FlattenSeq(seqs))
    PROVE  /\ D[Len(FlattenSeq(seqs))] = Idle(t)
           /\ \A r \in 0..Len(FlattenSeq(seqs)) : IsStart(D[r].text, t)
<1>1. PICK u : u = FlattenSeq(seqs)
  OBVIOUS
<1>2. PICK n \in Nat : n = Len(t)
  BY LenProperties
<1>3. seqs \in Seq(Seq(Nat)) /\ Len(seqs) = n
  BY <1>2 DEF Encodes
<1>4. PICK p : Joins(p, seqs, Nat)
  BY <1>3, JoinsExist
<1>5. p[0] = <<>> /\ u = p[n]
  BY <1>1, <1>3, <1>4 DEF Joins
<1>6. D[0] = Idle(<<>>) /\ \A k \in 1..Len(u) : D[k] = F[<<D[k - 1], u[k]>>]
  BY <1>1 DEF Decodes
<1> DEFINE Good(m) == /\ Len(p[m]) \in Nat /\ D[Len(p[m])] = Idle(First(t, m))
                      /\ \A r \in 0..Len(p[m]) : IsStart(D[r].text, t)
           S == {m \in 0..n : Good(m)}
<1>7. 0 \in S
  <2>1. First(t, 0) = <<>> /\ 0 \in 0..Len(t)
    BY <1>2, Firsts
  <2>2. IsStart(D[0].text, t)
    <3>1. D[0].text = First(t, 0)
      BY <1>6, <2>1, IdleIsDecoder, EmptySeq
    <3> QED BY <2>1, <3>1 DEF IsStart
  <2>3. Len(p[0]) = 0 /\ \A r \in 0..0 : r = 0
    BY <1>5
  <2>4. Good(0)
    BY <1>6, <2>1, <2>2, <2>3
  <2> HIDE DEF Good
  <2> QED BY <2>4
<1>8. \A m \in 0..n : m < n /\ m \in S => m + 1 \in S
  <2> SUFFICES ASSUME NEW m \in 0..n, m < n, Good(m) PROVE Good(m + 1)
    <3> HIDE DEF Good
    <3> QED OBVIOUS
  <2>1. m + 1 \in 1..n /\ (m + 1) - 1 = m /\ m \in 0..Len(t)
    BY <1>2
  <2>2. PICK b, c, x : b = seqs[m + 1] /\ c = t[m + 1] /\ x = First(t, m)
    OBVIOUS
  <2>3. Feeds(F, b, c) /\ Len(b) >= 1
    BY <1>2, <2>1, <2>2 DEF Encodes
  <2>4. IsConcat(p[m], b, p[m + 1])
    <3>1. IsConcat(p[(m + 1) - 1], seqs[m + 1], p[m + 1])
      BY <1>3, <1>4, <2>1, JoinStep
    <3> QED BY <2>1, <2>2, <3>1
  <2>5. PICK L \in Nat, M \in Nat \ {0} : L = Len(p[m]) /\ M = Len(b) /\ Len(p[m + 1]) = L + M
    BY <2>3, <2>4 DEF IsConcat
  <2>6. \A k \in 1..M : L + k \in 1..Len(u) /\ u[L + k] = b[k]
    <3>1. m + 1 \in 1..Len(seqs)
      BY <1>3, <2>1
    <3>2. IsAfter(p[(m + 1) - 1], seqs[m + 1], FlattenSeq(seqs))
      BY <1>3, <1>4, <3>1, PieceOfJoin
    <3>3. IsAfter(p[m], b, u)
      BY <1>1, <2>1, <2>2, <3>2
    <3> QED BY <2>5, <3>3 DEF IsAfter
  <2>7. PICK e : e = [k \in 0..M |-> D[L + k]]
    OBVIOUS
  <2>8. Run(e, F, b, x)
    <3>1. e[0] = Idle(x)
      <4>1. 0 \in 0..M /\ L + 0 = L
        OBVIOUS
      <4> QED BY <2>2, <2>5, <2>7, <4>1
    <3>2. ASSUME NEW k \in 1..M PROVE e[k] = F[<<e[k - 1], b[k]>>]
      <4>1. L + k \in 1..Len(u) /\ u[L + k] = b[k]
        BY <2>6
      <4>2. D[L + k] = F[<<D[(L + k) - 1], u[L + k]>>]
        BY <1>6, <4>1
      <4>3. (L + k) - 1 = L + (k - 1) /\ k - 1 \in 0..M /\ k \in 0..M
        OBVIOUS
      <4>4. e[k] = D[L + k] /\ e[k - 1] = D[(L + k) - 1]
        BY <2>7, <4>3
      <4> QED BY <4>1, <4>2, <4>4, Zenon
    <3> QED BY <2>5, <3>1, <3>2 DEF Run
  <2>9. x \in Seq(Nat) /\ First(t, m + 1) = Append(x, c)
    BY <1>2, <2>1, <2>2, Firsts
  <2>10. e[M] = Idle(Append(x, c)) /\ \A k \in 0..(M - 1) : e[k].text = x
    BY <2>3, <2>5, <2>8, <2>9 DEF Feeds
  <2>11. D[L + M] = Idle(First(t, m + 1))
    <3>1. M \in 0..M
      OBVIOUS
    <3> QED BY <2>7, <2>9, <2>10, <3>1
  <2>12. ASSUME NEW r \in 0..(L + M) PROVE IsStart(D[r].text, t)
    <3>1. CASE r <= L
      <4>1. r \in 0..Len(p[m])
        BY <2>5, <3>1
      <4> QED BY <4>1
    <3>2. CASE r > L /\ r < L + M
      <4>1. PICK k \in 0..M : k = r - L
        BY <3>2
      <4>2. k \in 0..(M - 1) /\ L + k = r
        BY <3>2, <4>1
      <4>3. D[r].text = x
        BY <2>7, <2>10, <4>2
      <4> QED BY <2>1, <2>2, <4>3 DEF IsStart
    <3>3. CASE r = L + M
      <4>1. m + 1 \in 0..Len(t)
        BY <1>2, <2>1
      <4>2. First(t, m + 1) \in Seq(Nat)
        BY <4>1, Firsts
      <4>3. D[r].text = First(t, m + 1)
        BY <2>11, <3>3, <4>2, IdleIsDecoder
      <4> QED BY <4>1, <4>3 DEF IsStart
    <3> QED BY <3>1, <3>2, <3>3
  <2>13. L + M = Len(p[m + 1]) /\ L + M \in Nat
    BY <2>5
  <2> QED BY <2>11, <2>12, <2>13
<1>9. 0..n \subseteq S
  <2> HIDE DEF S
  <2> QED BY ONLY n \in Nat, <1>7, <1>8, Induction
<1>10. Good(n)
  BY <1>9
<1>11. First(t, n) = t
  BY <1>2, Firsts
<1> QED BY <1>1, <1>5, <1>10, <1>11

(* Of the first r units comes a start of the text, and of all of them all. *)
LEMMA DecodedStart ==
    ASSUME NEW F, NEW t \in Seq(Nat), NEW seqs, Encodes(seqs, F, t), IsDecoding(F),
           NEW r \in 0..Len(FlattenSeq(seqs)),
           NEW E, Decodes(E, F, SubSeq(FlattenSeq(seqs), 1, r))
    PROVE  /\ IsStart(E[r].text, t) /\ E[r] \in Decoder
           /\ r = Len(FlattenSeq(seqs)) => E[r] = Idle(t)
<1>1. PICK u \in Seq(Nat) : u = FlattenSeq(seqs)
  <2>1. seqs \in Seq(Seq(Nat))
    BY DEF Encodes
  <2> QED BY <2>1, ConcatenationIsText
<1>2. PICK D : Decodes(D, F, u)
  BY DecodingExists
<1>3. PICK w : w = First(u, r)
  OBVIOUS
<1>4. w \in Seq(Nat) /\ Len(w) = r /\ \A k \in 1..r : w[k] = u[k]
  BY <1>1, <1>3, Firsts
<1>5. Decodes(E, F, w)
  BY <1>1, <1>3 DEF First
<1>6. Len(u) \in Nat /\ r \in Nat /\ r <= Len(u)
  BY <1>1, LenProperties
<1>7. D[r] = E[r]
  <2>1. /\ r <= Len(w) /\ Len(w) \in Nat /\ \A k \in 1..r : u[k] = w[k]
    BY <1>4, <1>6
  <2> QED BY <1>2, <1>5, <1>6, <2>1, SameDecoding
<1>8. E[r] \in Decoder
  <2>1. r \in 0..Len(w)
    BY <1>4, <1>6
  <2> QED BY <1>5, <2>1, Zenon DEF Decodes
<1>9. D[Len(u)] = Idle(t) /\ IsStart(D[r].text, t)
  BY <1>1, <1>2, DecodedText
<1> QED BY <1>1, <1>7, <1>8, <1>9
-----------------------------------------------------------------------------
(* The steps of the decoders.                                              *)

LEMMA DecoderIsBusy ==
    ASSUME NEW d \in Decoder
    PROVE  /\ d = Busy(d.text, d.due, d.bits)
           /\ d.text \in Seq(Nat) /\ d.due \in Int /\ d.bits \in Nat
  BY DEF Decoder, Busy

LEMMA Changes ==
    ASSUME NEW x, NEW n, NEW v, NEW k \in Int, NEW w
    PROVE  /\ Broken(Busy(x, n, v)) = Busy(x, -1, v)
           /\ Lead(Busy(x, n, v), k, w) = Busy(x, k, w)
<1>1. PICK d : d = Busy(x, n, v)
  OBVIOUS
<1>3. [d EXCEPT !.due = -1] = Busy(x, -1, v)
  BY <1>1 DEF Busy
<1>4. [d EXCEPT !.due = k, !.bits = w] = Busy(x, k, w)
  <2>1. PICK e : e = [d EXCEPT !.due = k]
    OBVIOUS
  <2>2. [d EXCEPT !.due = k, !.bits = w] = [e EXCEPT !.bits = w]
    BY <2>1
  <2>3. e = Busy(x, k, v)
    BY <1>1, <2>1 DEF Busy
  <2>4. [e EXCEPT !.bits = w] = Busy(x, k, w)
    BY <2>3 DEF Busy
  <2> QED BY <2>2, <2>4
<1> QED BY <1>1, <1>3, <1>4 DEF Broken, Lead

LEMMA Followed ==
    ASSUME NEW x, NEW n \in Int, NEW v, NEW w
    PROVE  /\ n = 1 => Follow(Busy(x, n, v), w) = Idle(Append(x, w))
           /\ n # 1 => Follow(Busy(x, n, v), w) = Busy(x, n - 1, w)
<1>1. PICK d : d = Busy(x, n, v)
  OBVIOUS
<1>2. d.due = n /\ d.text = x
  BY <1>1 DEF Busy
<1>3. Follow(d, w) = IF d.due = 1 THEN Idle(Append(d.text, w))
                     ELSE [d EXCEPT !.due = d.due - 1, !.bits = w]
  BY DEF Follow, Idle, Busy
<1>4. [d EXCEPT !.due = n - 1, !.bits = w] = Busy(x, n - 1, w)
  <2>1. PICK k \in Int : k = n - 1
    OBVIOUS
  <2>2. Lead(d, k, w) = Busy(x, k, w)
    BY <1>1, Changes
  <2> QED BY <2>1, <2>2 DEF Lead
<1>5. CASE n = 1
  BY <1>1, <1>2, <1>3, <1>5
<1>6. CASE n # 1
  BY <1>1, <1>2, <1>3, <1>4, <1>6
<1> QED BY <1>5, <1>6

LEMMA UTF8Steps ==
    ASSUME NEW x \in Seq(Nat), NEW n \in Int, NEW v \in Nat, NEW b \in Nat
    PROVE  /\ n = 0 /\ b < 128 => UTF8Step(Busy(x, n, v), b) = Busy(Append(x, b), 0, v)
           /\ n = 0 /\ b \in 192..223 => UTF8Step(Busy(x, n, v), b) = Busy(x, 1, b - 192)
           /\ n = 0 /\ b \in 224..239 => UTF8Step(Busy(x, n, v), b) = Busy(x, 2, b - 224)
           /\ n = 0 /\ b \in 240..247 => UTF8Step(Busy(x, n, v), b) = Busy(x, 3, b - 240)
           /\ n > 0 /\ b \in 128..191 =>
                  UTF8Step(Busy(x, n, v), b) = Follow(Busy(x, n, v), (v * 64) + (b - 128))
           /\ \/ n < 0 \/ (n = 0 /\ b \in 128..191) \/ b > 247
              \/ (n > 0 /\ b \notin 128..191)
              => UTF8Step(Busy(x, n, v), b) = Busy(x, -1, v)
<1>1. PICK d : d = Busy(x, n, v)
  OBVIOUS
<1>2. d.due = n /\ d.bits = v /\ d.text = x
  BY <1>1 DEF Busy
<1> DEFINE Q1 == d.due = 0 /\ b < 128
           Q2 == d.due = 0 /\ b \in 192..223
           Q3 == d.due = 0 /\ b \in 224..239
           Q4 == d.due = 0 /\ b \in 240..247
           Q5 == d.due > 0 /\ b \in 128..191
<1>3. UTF8Step(d, b) = CASE Q1 -> [d EXCEPT !.text = Append(@, b)]
                         [] Q2 -> Lead(d, 1, b - 192)
                         [] Q3 -> Lead(d, 2, b - 224)
                         [] Q4 -> Lead(d, 3, b - 240)
                         [] Q5 -> Follow(d, (d.bits * 64) + (b - 128))
                         [] OTHER -> Broken(d)
  BY Zenon DEF UTF8Step
<1>4. CASE n = 0 /\ b < 128
  <2>1. Q1 /\ ~Q2 /\ ~Q3 /\ ~Q4 /\ ~Q5
    BY <1>2, <1>4
  <2>2. UTF8Step(d, b) = [d EXCEPT !.text = Append(@, b)]
    <3> HIDE DEF Q1, Q2, Q3, Q4, Q5
    <3> QED BY <1>3, <2>1, Zenon
  <2>3. UTF8Step(d, b) = Busy(Append(x, b), 0, v)
    BY <1>1, <1>4, <2>2 DEF Busy
  <2> QED BY <1>1, <1>4, <2>3
<1>5. CASE n = 0 /\ b \in 192..223
  <2>1. ~Q1 /\ Q2 /\ ~Q3 /\ ~Q4 /\ ~Q5
    BY <1>2, <1>5
  <2>2. UTF8Step(d, b) = Lead(d, 1, b - 192)
    <3> HIDE DEF Q1, Q2, Q3, Q4, Q5
    <3> QED BY <1>3, <2>1, Zenon
  <2>3. Lead(d, 1, b - 192) = Busy(x, 1, b - 192)
    BY <1>1, Changes
  <2>4. UTF8Step(d, b) = Busy(x, 1, b - 192)
    BY <2>2, <2>3
  <2> QED BY <1>1, <1>5, <2>4
<1>6. CASE n = 0 /\ b \in 224..239
  <2>1. ~Q1 /\ ~Q2 /\ Q3 /\ ~Q4 /\ ~Q5
    BY <1>2, <1>6
  <2>2. UTF8Step(d, b) = Lead(d, 2, b - 224)
    <3> HIDE DEF Q1, Q2, Q3, Q4, Q5
    <3> QED BY <1>3, <2>1, Zenon
  <2>3. Lead(d, 2, b - 224) = Busy(x, 2, b - 224)
    BY <1>1, Changes
  <2>4. UTF8Step(d, b) = Busy(x, 2, b - 224)
    BY <2>2, <2>3
  <2> QED BY <1>1, <1>6, <2>4
<1>7. CASE n = 0 /\ b \in 240..247
  <2>1. ~Q1 /\ ~Q2 /\ ~Q3 /\ Q4 /\ ~Q5
    BY <1>2, <1>7
  <2>2. UTF8Step(d, b) = Lead(d, 3, b - 240)
    <3> HIDE DEF Q1, Q2, Q3, Q4, Q5
    <3> QED BY <1>3, <2>1, Zenon
  <2>3. Lead(d, 3, b - 240) = Busy(x, 3, b - 240)
    BY <1>1, Changes
  <2>4. UTF8Step(d, b) = Busy(x, 3, b - 240)
    BY <2>2, <2>3
  <2> QED BY <1>1, <1>7, <2>4
<1>8. CASE n > 0 /\ b \in 128..191
  <2>1. ~Q1 /\ ~Q2 /\ ~Q3 /\ ~Q4 /\ Q5
    BY <1>2, <1>8
  <2>2. UTF8Step(d, b) = Follow(d, (d.bits * 64) + (b - 128))
    <3> HIDE DEF Q1, Q2, Q3, Q4, Q5
    <3> QED BY <1>3, <2>1, Zenon
  <2> QED BY <1>1, <1>2, <1>8, <2>2
<1>9. CASE \/ n < 0 \/ (n = 0 /\ b \in 128..191) \/ b > 247
           \/ (n > 0 /\ b \notin 128..191)
  <2>1. ~Q1 /\ ~Q2 /\ ~Q3 /\ ~Q4 /\ ~Q5
    BY <1>2, <1>9
  <2>2. UTF8Step(d, b) = Broken(d)
    <3> HIDE DEF Q1, Q2, Q3, Q4, Q5
    <3> QED BY <1>3, <2>1, Zenon
  <2>3. UTF8Step(d, b) = Busy(x, -1, v)
    BY <1>1, <2>2, Changes
  <2> QED BY <1>1, <1>9, <2>3
<1> QED BY <1>4, <1>5, <1>6, <1>7, <1>8, <1>9

UTF8Decoder == [z \in Decoder \X Nat |-> UTF8Step(z[1], z[2])]

LEMMA AppendedText ==
    ASSUME NEW x \in Seq(Nat), NEW c \in Nat
    PROVE  Append(x, c) \in Seq(Nat)
  BY AppendProperties

LEMMA UTF8IsDecoding == IsDecoding(UTF8Decoder)
<1>1. ASSUME NEW d \in Decoder, NEW b \in Nat PROVE UTF8Step(d, b) \in Decoder
  <2>1. PICK x \in Seq(Nat), n \in Int, v \in Nat : d = Busy(x, n, v)
    BY DecoderIsBusy
  <2>2. PICK w \in Int : w = (v * 64) + (b - 128)
    OBVIOUS
  <2>3. b >= 128 => w \in Nat
    BY <2>2
  <2>4. CASE n = 0 /\ b < 128
    <3>1. UTF8Step(d, b) = Busy(Append(x, b), 0, v)
      BY <2>1, <2>4, UTF8Steps
    <3>2. Append(x, b) \in Seq(Nat)
      BY AppendedText
    <3>3. PICK y \in Seq(Nat) : y = Append(x, b)
      BY <3>2
    <3>4. Busy(y, 0, v) \in Decoder
      BY BusyIsDecoder
    <3> QED BY <3>1, <3>3, <3>4
  <2>5. CASE n = 0 /\ b \in 192..223
    <3>1. UTF8Step(d, b) = Busy(x, 1, b - 192)
      BY <2>1, <2>5, UTF8Steps
    <3>2. b - 192 \in Nat
      BY <2>5
    <3> QED BY <3>1, <3>2, BusyIsDecoder
  <2>6. CASE n = 0 /\ b \in 224..239
    <3>1. UTF8Step(d, b) = Busy(x, 2, b - 224)
      BY <2>1, <2>6, UTF8Steps
    <3>2. b - 224 \in Nat
      BY <2>6
    <3> QED BY <3>1, <3>2, BusyIsDecoder
  <2>7. CASE n = 0 /\ b \in 240..247
    <3>1. UTF8Step(d, b) = Busy(x, 3, b - 240)
      BY <2>1, <2>7, UTF8Steps
    <3>2. b - 240 \in Nat
      BY <2>7
    <3> QED BY <3>1, <3>2, BusyIsDecoder
  <2>8. CASE n > 0 /\ b \in 128..191
    <3>1. UTF8Step(d, b) = Follow(Busy(x, n, v), (v * 64) + (b - 128))
      BY <2>1, <2>8, UTF8Steps
    <3>2. w \in Nat /\ n - 1 \in Int
      BY <2>3, <2>8
    <3>3. Append(x, w) \in Seq(Nat)
      BY <3>2, AppendedText
    <3>4. Idle(Append(x, w)) \in Decoder /\ Busy(x, n - 1, w) \in Decoder
      BY <3>2, <3>3, BusyIsDecoder, IdleIsDecoder
    <3>5. Follow(Busy(x, n, v), w) \in {Idle(Append(x, w)), Busy(x, n - 1, w)}
      BY Followed
    <3> QED BY <2>2, <3>1, <3>4, <3>5
  <2>9. CASE \/ n < 0 \/ (n = 0 /\ b \in 128..191) \/ b > 247
             \/ (n > 0 /\ b \notin 128..191)
    <3>1. UTF8Step(d, b) = Busy(x, -1, v) /\ -1 \in Int
      BY <2>1, <2>9, UTF8Steps
    <3> QED BY <3>1, BusyIsDecoder
  <2> QED BY <2>4, <2>5, <2>6, <2>7, <2>8, <2>9
<1>2. \A z \in Decoder \X Nat : UTF8Step(z[1], z[2]) \in Decoder
  BY <1>1
<1> QED BY <1>2 DEF IsDecoding, UTF8Decoder
-----------------------------------------------------------------------------
(* The bytes of a character in UTF-8 take the decoder over it.             *)

LEMMA UTF8Reads ==
    ASSUME NEW d \in Decoder, NEW b \in Nat
    PROVE  UTF8Decoder[<<d, b>>] = UTF8Step(d, b)
<1>1. <<d, b>> \in Decoder \X Nat
  OBVIOUS
<1> QED BY <1>1 DEF UTF8Decoder

UTF8Goes(d, b, e) == UTF8Decoder[<<d, b>>] = e

LEMMA UTF8Begins ==
    ASSUME NEW x \in Seq(Nat), NEW b \in Nat
    PROVE  /\ b < 128 => UTF8Goes(Idle(x), b, Idle(Append(x, b)))
           /\ b \in 192..223 => UTF8Goes(Idle(x), b, Busy(x, 1, b - 192))
           /\ b \in 224..239 => UTF8Goes(Idle(x), b, Busy(x, 2, b - 224))
           /\ b \in 240..247 => UTF8Goes(Idle(x), b, Busy(x, 3, b - 240))
<1>1. Idle(x) = Busy(x, 0, 0) /\ Idle(Append(x, b)) = Busy(Append(x, b), 0, 0)
  BY DEF Idle
<1>2. UTF8Decoder[<<Idle(x), b>>] = UTF8Step(Busy(x, 0, 0), b)
  <2>1. Idle(x) \in Decoder
    BY IdleIsDecoder
  <2>2. UTF8Decoder[<<Idle(x), b>>] = UTF8Step(Idle(x), b)
    BY <2>1, UTF8Reads
  <2> QED BY <1>1, <2>2
<1>3. /\ b < 128 => UTF8Step(Busy(x, 0, 0), b) = Busy(Append(x, b), 0, 0)
      /\ b \in 192..223 => UTF8Step(Busy(x, 0, 0), b) = Busy(x, 1, b - 192)
      /\ b \in 224..239 => UTF8Step(Busy(x, 0, 0), b) = Busy(x, 2, b - 224)
      /\ b \in 240..247 => UTF8Step(Busy(x, 0, 0), b) = Busy(x, 3, b - 240)
  BY UTF8Steps
<1> QED BY <1>1, <1>2, <1>3, Zenon DEF UTF8Goes

LEMMA UTF8GoesOn ==
    ASSUME NEW x \in Seq(Nat), NEW v \in Nat, NEW b \in 128..191
    PROVE  /\ UTF8Goes(Busy(x, 1, v), b, Idle(Append(x, (v * 64) + (b - 128))))
           /\ UTF8Goes(Busy(x, 2, v), b, Busy(x, 1, (v * 64) + (b - 128)))
           /\ UTF8Goes(Busy(x, 3, v), b, Busy(x, 2, (v * 64) + (b - 128)))
<1>1. PICK w : w = (v * 64) + (b - 128)
  OBVIOUS
<1>2. ASSUME NEW n \in 1..3
      PROVE  UTF8Decoder[<<Busy(x, n, v), b>>] = Follow(Busy(x, n, v), w)
  <2>1. Busy(x, n, v) \in Decoder /\ b \in Nat
    BY BusyIsDecoder
  <2>2. UTF8Decoder[<<Busy(x, n, v), b>>] = UTF8Step(Busy(x, n, v), b)
    BY <2>1, UTF8Reads
  <2>3. UTF8Step(Busy(x, n, v), b) = Follow(Busy(x, n, v), (v * 64) + (b - 128))
    BY <2>1, UTF8Steps
  <2> QED BY <1>1, <2>2, <2>3
<1>3. /\ Follow(Busy(x, 1, v), w) = Idle(Append(x, w))
      /\ Follow(Busy(x, 2, v), w) = Busy(x, 1, w)
      /\ Follow(Busy(x, 3, v), w) = Busy(x, 2, w)
  <2>1. ASSUME NEW n \in 1..3
        PROVE  /\ n = 1 => Follow(Busy(x, n, v), w) = Idle(Append(x, w))
               /\ n # 1 => Follow(Busy(x, n, v), w) = Busy(x, n - 1, w)
    BY Followed
  <2>2. 1 \in 1..3 /\ 2 \in 1..3 /\ 3 \in 1..3 /\ 2 # 1 /\ 3 # 1 /\ 2 - 1 = 1 /\ 3 - 1 = 2
    OBVIOUS
  <2>3. Follow(Busy(x, 1, v), w) = Idle(Append(x, w))
    BY <2>1, <2>2, Zenon
  <2>4. Follow(Busy(x, 2, v), w) = Busy(x, 2 - 1, w)
    BY <2>1, <2>2, Zenon
  <2>5. Follow(Busy(x, 3, v), w) = Busy(x, 3 - 1, w)
    BY <2>1, <2>2, Zenon
  <2> QED BY <2>2, <2>3, <2>4, <2>5, Zenon
<1>4. 1 \in 1..3 /\ 2 \in 1..3 /\ 3 \in 1..3
  OBVIOUS
<1>5. /\ UTF8Decoder[<<Busy(x, 1, v), b>>] = Idle(Append(x, w))
      /\ UTF8Decoder[<<Busy(x, 2, v), b>>] = Busy(x, 1, w)
      /\ UTF8Decoder[<<Busy(x, 3, v), b>>] = Busy(x, 2, w)
  BY <1>2, <1>3, <1>4, Zenon
<1> QED BY <1>1, <1>5 DEF UTF8Goes

Unrolled(e, F, b, x) ==
    /\ e[0] = Idle(x)
    /\ Len(b) >= 1 => e[1] = F[<<e[0], b[1]>>]
    /\ Len(b) >= 2 => e[2] = F[<<e[1], b[2]>>]
    /\ Len(b) >= 3 => e[3] = F[<<e[2], b[3]>>]
    /\ Len(b) >= 4 => e[4] = F[<<e[3], b[4]>>]

LEMMA RunsOn ==
    ASSUME NEW F, NEW b \in Seq(Nat), NEW x, NEW e, Run(e, F, b, x)
    PROVE  Unrolled(e, F, b, x)
<1>1. PICK n \in Nat : n = Len(b)
  BY LenProperties
<1>2. e[0] = Idle(x) /\ \A k \in 1..n : e[k] = F[<<e[k - 1], b[k]>>]
  BY <1>1 DEF Run
<1>3. 1 - 1 = 0 /\ 2 - 1 = 1 /\ 3 - 1 = 2 /\ 4 - 1 = 3
  OBVIOUS
<1>4. n >= 1 => e[1] = F[<<e[1 - 1], b[1]>>]
  BY <1>2
<1>5. n >= 2 => e[2] = F[<<e[2 - 1], b[2]>>]
  BY <1>2
<1>6. n >= 3 => e[3] = F[<<e[3 - 1], b[3]>>]
  BY <1>2
<1>7. n >= 4 => e[4] = F[<<e[4 - 1], b[4]>>]
  BY <1>2
<1>8. e[1 - 1] = e[0] /\ e[2 - 1] = e[1] /\ e[3 - 1] = e[2] /\ e[4 - 1] = e[3]
  BY <1>3
<1> QED BY <1>1, <1>2, <1>4, <1>5, <1>6, <1>7, <1>8 DEF Unrolled

LEMMA OneByteFeeds ==
    ASSUME NEW c \in 0..127
    PROVE  Feeds(UTF8Decoder, <<c>>, c)
<1>1. PICK b : b = <<c>>
  OBVIOUS
<1>2. b \in Seq(Nat) /\ Len(b) = 1 /\ b[1] = c
  BY <1>1
<1>3. ASSUME NEW x \in Seq(Nat), NEW e, Run(e, UTF8Decoder, b, x)
      PROVE  e[1] = Idle(Append(x, c)) /\ e[0].text = x
  <2>1. e[0] = Idle(x) /\ e[1] = UTF8Decoder[<<e[0], c>>]
    <3>1. Unrolled(e, UTF8Decoder, b, x)
      BY <1>2, <1>3, RunsOn
    <3> QED BY <1>2, <3>1 DEF Unrolled
  <2>2. UTF8Goes(Idle(x), c, Idle(Append(x, c)))
    BY UTF8Begins
  <2>3. Idle(x).text = x
    BY IdleIsDecoder
  <2> QED BY <2>1, <2>2, <2>3, Zenon DEF UTF8Goes
<1>4. \A k \in 0..(1 - 1) : k = 0
  OBVIOUS
<1>5. Feeds(UTF8Decoder, b, c)
  BY <1>2, <1>3, <1>4 DEF Feeds
<1> QED BY <1>1, <1>5

FedByTwo(h, i) ==
    Feeds(UTF8Decoder, <<h, i>>, ((h - 192) * 64) + (i - 128))

LEMMA TwoBytesFeed ==
    ASSUME NEW h \in 192..223, NEW i \in 128..191
    PROVE  FedByTwo(h, i)
<1>1. PICK b : b = <<h, i>>
  OBVIOUS
<1>2. b \in Seq(Nat) /\ Len(b) = 2 /\ b[1] = h /\ b[2] = i
  BY <1>1
<1>3. PICK v \in Nat : v = h - 192
  OBVIOUS
<1>4. PICK c \in Nat : c = (v * 64) + (i - 128)
  BY <1>3
<1>5. ASSUME NEW x \in Seq(Nat), NEW e, Run(e, UTF8Decoder, b, x)
      PROVE  e[2] = Idle(Append(x, c)) /\ e[0].text = x /\ e[1].text = x
  <2>1. /\ e[0] = Idle(x) /\ e[1] = UTF8Decoder[<<e[0], h>>]
        /\ e[2] = UTF8Decoder[<<e[1], i>>]
    <3>1. Unrolled(e, UTF8Decoder, b, x)
      BY <1>2, <1>5, RunsOn
    <3> QED BY <1>2, <3>1 DEF Unrolled
  <2>2. UTF8Goes(Idle(x), h, Busy(x, 1, h - 192))
    BY UTF8Begins
  <2>3. UTF8Goes(Busy(x, 1, v), i, Idle(Append(x, (v * 64) + (i - 128))))
    BY UTF8GoesOn
  <2>4. Idle(x).text = x /\ Busy(x, 1, v).text = x
    BY IdleIsDecoder, BusyIsDecoder
  <2>5. e[1] = Busy(x, 1, v)
    BY <1>3, <2>1, <2>2 DEF UTF8Goes
  <2>6. e[2] = Idle(Append(x, c))
    BY <1>4, <2>1, <2>3, <2>5 DEF UTF8Goes
  <2> QED BY <2>1, <2>4, <2>5, <2>6
<1>6. \A k \in 0..(2 - 1) : k = 0 \/ k = 1
  OBVIOUS
<1>7. Feeds(UTF8Decoder, b, c)
  BY <1>2, <1>5, <1>6 DEF Feeds
<1> QED BY <1>1, <1>3, <1>4, <1>7, Zenon DEF FedByTwo

FedByThree(h, i, j) ==
    Feeds(UTF8Decoder, <<h, i, j>>,
                 ((((h - 224) * 64) + (i - 128)) * 64) + (j - 128))

LEMMA ThreeBytesFeed ==
    ASSUME NEW h \in 224..239, NEW i \in 128..191, NEW j \in 128..191
    PROVE  FedByThree(h, i, j)
<1>1. PICK b : b = <<h, i, j>>
  OBVIOUS
<1>2. b \in Seq(Nat) /\ Len(b) = 3 /\ b[1] = h /\ b[2] = i /\ b[3] = j
  BY <1>1
<1>3. PICK v \in Nat : v = h - 224
  OBVIOUS
<1>4. PICK w \in Nat : w = (v * 64) + (i - 128)
  BY <1>3
<1>5. PICK c \in Nat : c = (w * 64) + (j - 128)
  BY <1>4
<1>6. ASSUME NEW x \in Seq(Nat), NEW e, Run(e, UTF8Decoder, b, x)
      PROVE  e[3] = Idle(Append(x, c)) /\ e[0].text = x /\ e[1].text = x /\ e[2].text = x
  <2>1. /\ e[0] = Idle(x) /\ e[1] = UTF8Decoder[<<e[0], h>>]
        /\ e[2] = UTF8Decoder[<<e[1], i>>] /\ e[3] = UTF8Decoder[<<e[2], j>>]
    <3>1. Unrolled(e, UTF8Decoder, b, x)
      BY <1>2, <1>6, RunsOn
    <3> QED BY <1>2, <3>1 DEF Unrolled
  <2>2. UTF8Goes(Idle(x), h, Busy(x, 2, h - 224))
    BY UTF8Begins
  <2>3. UTF8Goes(Busy(x, 2, v), i, Busy(x, 1, (v * 64) + (i - 128)))
    BY UTF8GoesOn
  <2>4. UTF8Goes(Busy(x, 1, w), j, Idle(Append(x, (w * 64) + (j - 128))))
    BY UTF8GoesOn
  <2>5. Idle(x).text = x /\ Busy(x, 2, v).text = x /\ Busy(x, 1, w).text = x
    BY IdleIsDecoder, BusyIsDecoder
  <2>6. e[1] = Busy(x, 2, v)
    BY <1>3, <2>1, <2>2 DEF UTF8Goes
  <2>7. e[2] = Busy(x, 1, w)
    BY <1>4, <2>1, <2>3, <2>6 DEF UTF8Goes
  <2>8. e[3] = Idle(Append(x, c))
    BY <1>5, <2>1, <2>4, <2>7 DEF UTF8Goes
  <2> QED BY <2>1, <2>5, <2>6, <2>7, <2>8
<1>7. \A k \in 0..(3 - 1) : k = 0 \/ k = 1 \/ k = 2
  OBVIOUS
<1>8. Feeds(UTF8Decoder, b, c)
  BY <1>2, <1>6, <1>7 DEF Feeds
<1> QED BY <1>1, <1>3, <1>4, <1>5, <1>8, Zenon DEF FedByThree

FedByFour(h, i, j, k) ==
    Feeds(UTF8Decoder, <<h, i, j, k>>,
                 ((((((h - 240) * 64) + (i - 128)) * 64) + (j - 128)) * 64) + (k - 128))

LEMMA FourBytesFeed ==
    ASSUME NEW h \in 240..247, NEW i \in 128..191, NEW j \in 128..191, NEW k \in 128..191
    PROVE  FedByFour(h, i, j, k)
<1>1. PICK b : b = <<h, i, j, k>>
  OBVIOUS
<1>2. /\ b \in Seq(Nat) /\ Len(b) = 4 /\ b[1] = h /\ b[2] = i /\ b[3] = j /\ b[4] = k
  BY <1>1
<1>3. PICK v \in Nat : v = h - 240
  OBVIOUS
<1>4. PICK w \in Nat : w = (v * 64) + (i - 128)
  BY <1>3
<1>5. PICK q \in Nat : q = (w * 64) + (j - 128)
  BY <1>4
<1>6. PICK c \in Nat : c = (q * 64) + (k - 128)
  BY <1>5
<1>7. ASSUME NEW x \in Seq(Nat), NEW e, Run(e, UTF8Decoder, b, x)
      PROVE  /\ e[4] = Idle(Append(x, c)) /\ e[0].text = x
             /\ e[1].text = x /\ e[2].text = x /\ e[3].text = x
  <2>1. /\ e[0] = Idle(x) /\ e[1] = UTF8Decoder[<<e[0], h>>]
        /\ e[2] = UTF8Decoder[<<e[1], i>>] /\ e[3] = UTF8Decoder[<<e[2], j>>]
        /\ e[4] = UTF8Decoder[<<e[3], k>>]
    <3>1. Unrolled(e, UTF8Decoder, b, x)
      BY <1>2, <1>7, RunsOn
    <3> QED BY <1>2, <3>1 DEF Unrolled
  <2>2. UTF8Goes(Idle(x), h, Busy(x, 3, h - 240))
    BY UTF8Begins
  <2>3. UTF8Goes(Busy(x, 3, v), i, Busy(x, 2, (v * 64) + (i - 128)))
    BY UTF8GoesOn
  <2>4. UTF8Goes(Busy(x, 2, w), j, Busy(x, 1, (w * 64) + (j - 128)))
    BY UTF8GoesOn
  <2>5. UTF8Goes(Busy(x, 1, q), k, Idle(Append(x, (q * 64) + (k - 128))))
    BY UTF8GoesOn
  <2>6. /\ Idle(x).text = x /\ Busy(x, 3, v).text = x
        /\ Busy(x, 2, w).text = x /\ Busy(x, 1, q).text = x
    BY IdleIsDecoder, BusyIsDecoder
  <2>7. e[1] = Busy(x, 3, v)
    BY <1>3, <2>1, <2>2 DEF UTF8Goes
  <2>8. e[2] = Busy(x, 2, w)
    BY <1>4, <2>1, <2>3, <2>7 DEF UTF8Goes
  <2>9. e[3] = Busy(x, 1, q)
    BY <1>5, <2>1, <2>4, <2>8 DEF UTF8Goes
  <2>10. e[4] = Idle(Append(x, c))
    BY <1>6, <2>1, <2>5, <2>9 DEF UTF8Goes
  <2> QED BY <2>1, <2>6, <2>7, <2>8, <2>9, <2>10
<1>8. \A m \in 0..(4 - 1) : m = 0 \/ m = 1 \/ m = 2 \/ m = 3
  OBVIOUS
<1>9. Feeds(UTF8Decoder, b, c)
  BY <1>2, <1>7, <1>8 DEF Feeds
<1> QED BY <1>1, <1>3, <1>4, <1>5, <1>6, <1>9, Zenon DEF FedByFour

-----------------------------------------------------------------------------
(* Every character is fed to the decoder by the units it is encoded to.    *)

Scalar == {c \in Nat : c < 1114112}
Unit16 == {u \in Nat : u < 65536}

EncodesOne(b, F, c) == b \in Seq(Nat) /\ Len(b) >= 1 /\ Feeds(F, b, c)

LEMMA UTF8BytesFeed ==
    ASSUME NEW c \in Scalar
    PROVE  /\ EncodesOne(UTF8Bytes(c), UTF8Decoder, c)
           /\ UTF8Bytes(c) \in Seq(0..255)
           /\ Len(UTF8Bytes(c)) = 1 <=> c < 128
<1>1. c \in Nat /\ c < 1114112
  BY SMT DEF Scalar
<1>2. CASE c < 128
  <2>1. UTF8Bytes(c) = <<c>>
    BY <1>2, SMT DEF UTF8Bytes
  <2>2. c \in 0..127
    BY <1>1, <1>2, SMT
  <2>3. <<c>> \in Seq(0..255) /\ <<c>> \in Seq(Nat) /\ Len(<<c>>) = 1
    BY <2>2
  <2>4. Feeds(UTF8Decoder, <<c>>, c)
    BY <2>2, OneByteFeeds, Zenon
  <2> QED BY <1>2, <2>1, <2>3, <2>4 DEF EncodesOne
<1>3. CASE c >= 128 /\ c < 2048
  <2>1. PICK h, i : h = 192 + (c \div 64) /\ i = 128 + ((c \div 1) % 64)
    OBVIOUS
  <2>2. h \in 192..223 /\ i \in 128..191
    BY <1>1, <1>3, <2>1, SMT
  <2>3. ((h - 192) * 64) + (i - 128) = c
    BY <1>1, <1>3, <2>1, SMT
  <2>4. UTF8Bytes(c) = <<h, i>>
    BY <1>1, <1>3, <2>1, SMT DEF UTF8Bytes
  <2>10. ~(c < 128)
    BY <1>1, <1>3, SMT
  <2>5. PICK b : b = <<h, i>>
    OBVIOUS
  <2>6. b \in Seq(0..255) /\ b \in Seq(Nat) /\ Len(b) = 2
    BY <2>2, <2>5
  <2>7. Feeds(UTF8Decoder, <<h, i>>,
              ((h - 192) * 64) + (i - 128))
    <3>1. FedByTwo(h, i)
      <4>1. \A x \in 192..223, y \in 128..191 : FedByTwo(x, y)
        BY TwoBytesFeed
      <4>2. h \in 192..223
        BY <2>2
      <4>3. i \in 128..191
        BY <2>2
      <4>4. \A y \in 128..191 : FedByTwo(h, y)
        BY <4>1, <4>2, Zenon
      <4> QED BY <4>3, <4>4, Zenon
    <3> QED BY <3>1 DEF FedByTwo
  <2>8. Feeds(UTF8Decoder, b, c)
    BY <2>3, <2>5, <2>7, Zenon
  <2>9. UTF8Bytes(c) = b
    BY <2>4, <2>5
  <2>11. EncodesOne(b, UTF8Decoder, c)
    BY <2>6, <2>8 DEF EncodesOne
  <2>12. Len(b) = 1 <=> c < 128
    BY <2>6, <2>10
  <2> QED BY <2>6, <2>9, <2>11, <2>12, Zenon
<1>4. CASE c >= 2048 /\ c < 65536
  <2>1. PICK h, i, j : /\ h = 224 + (c \div 4096) /\ i = 128 + ((c \div 64) % 64)
                       /\ j = 128 + ((c \div 1) % 64)
    BY SMT
  <2>2. h \in 224..239 /\ i \in 128..191 /\ j \in 128..191
    BY <1>1, <1>4, <2>1, SMT
  <2>3. ((((h - 224) * 64) + (i - 128)) * 64) + (j - 128) = c
    BY <1>1, <1>4, <2>1, SMT
  <2>4. UTF8Bytes(c) = <<h, i, j>>
    BY <1>1, <1>4, <2>1, SMT DEF UTF8Bytes
  <2>10. ~(c < 128)
    BY <1>1, <1>4, SMT
  <2>5. PICK b : b = <<h, i, j>>
    OBVIOUS
  <2>6. b \in Seq(0..255) /\ b \in Seq(Nat) /\ Len(b) = 3
    BY <2>2, <2>5
  <2>7. Feeds(UTF8Decoder, <<h, i, j>>,
              ((((h - 224) * 64) + (i - 128)) * 64) + (j - 128))
    <3>1. FedByThree(h, i, j)
      BY <2>2, ThreeBytesFeed, Zenon
    <3> QED BY <3>1 DEF FedByThree
  <2>8. Feeds(UTF8Decoder, b, c)
    BY <2>3, <2>5, <2>7, Zenon
  <2>9. UTF8Bytes(c) = b
    BY <2>4, <2>5
  <2>11. EncodesOne(b, UTF8Decoder, c)
    BY <2>6, <2>8 DEF EncodesOne
  <2>12. Len(b) = 1 <=> c < 128
    BY <2>6, <2>10
  <2> QED BY <2>6, <2>9, <2>11, <2>12, Zenon
<1>5. CASE c >= 65536
  <2>1. PICK h, i, j, k : /\ h = 240 + (c \div 262144) /\ i = 128 + ((c \div 4096) % 64)
                          /\ j = 128 + ((c \div 64) % 64) /\ k = 128 + ((c \div 1) % 64)
    BY SMT
  <2>2. h \in 240..247 /\ i \in 128..191 /\ j \in 128..191 /\ k \in 128..191
    BY <1>1, <1>5, <2>1, SMT
  <2>3. ((((((h - 240) * 64) + (i - 128)) * 64) + (j - 128)) * 64) + (k - 128) = c
    BY <1>1, <1>5, <2>1, SMT
  <2>4. UTF8Bytes(c) = <<h, i, j, k>>
    BY <1>1, <1>5, <2>1, SMT DEF UTF8Bytes
  <2>10. ~(c < 128)
    BY <1>1, <1>5, SMT
  <2>5. PICK b : b = <<h, i, j, k>>
    OBVIOUS
  <2>6. b \in Seq(0..255) /\ b \in Seq(Nat) /\ Len(b) = 4
    BY <2>2, <2>5
  <2>7. Feeds(UTF8Decoder, <<h, i, j, k>>,
              ((((((h - 240) * 64) + (i - 128)) * 64) + (j - 128)) * 64) + (k - 128))
    <3>1. FedByFour(h, i, j, k)
      BY <2>2, FourBytesFeed, Zenon
    <3> QED BY <3>1 DEF FedByFour
  <2>8. Feeds(UTF8Decoder, b, c)
    BY <2>3, <2>5, <2>7, Zenon
  <2>9. UTF8Bytes(c) = b
    BY <2>4, <2>5
  <2>11. EncodesOne(b, UTF8Decoder, c)
    BY <2>6, <2>8 DEF EncodesOne
  <2>12. Len(b) = 1 <=> c < 128
    BY <2>6, <2>10
  <2> QED BY <2>6, <2>9, <2>11, <2>12, Zenon
<1> QED BY <1>1, <1>2, <1>3, <1>4, <1>5, SMT

UTF16Decoder == [z \in Decoder \X Nat |-> UTF16Step(z[1], z[2])]

LEMMA HighSurrogate ==
    ASSUME NEW u \in High
    PROVE  u \in Nat /\ u >= 55296 /\ u < 56320 /\ u \notin Low /\ HighBits(u) \in Nat
<1>1. u \in Nat /\ u >= 55296 /\ u < 56320
  BY SMT DEF High
<1>2. u \in Low => u >= 56320
  BY SMT DEF Low
<1>3. HighBits(u) \in Nat
  BY <1>1, SMT DEF HighBits
<1> QED BY <1>1, <1>2, <1>3, SMT

LEMMA LowSurrogate ==
    ASSUME NEW u \in Low
    PROVE  /\ u \in Nat /\ u >= 56320 /\ u < 57344 /\ u \notin High
           /\ \A v \in Nat : Paired(v, u) \in Nat
<1>1. u \in Nat /\ u >= 56320 /\ u < 57344
  BY SMT DEF Low
<1>2. u \in High => u < 56320
  BY SMT DEF High
<1>3. \A v \in Nat : Paired(v, u) \in Nat
  BY <1>1, SMT DEF Paired
<1> QED BY <1>1, <1>2, <1>3, SMT

LEMMA Surrogates ==
    ASSUME NEW u
    PROVE  /\ u \in High => u \in Nat /\ u \notin Low /\ HighBits(u) \in Nat
           /\ u \in Low => u \in Nat /\ u \notin High
           /\ \A v \in Nat : u \in Low => Paired(v, u) \in Nat
  BY HighSurrogate, LowSurrogate

LEMMA UTF16Steps ==
    ASSUME NEW x \in Seq(Nat), NEW n \in Int, NEW v \in Nat, NEW u \in Nat
    PROVE  /\ n = 0 /\ u \notin High \cup Low =>
                  UTF16Step(Busy(x, n, v), u) = Busy(Append(x, u), 0, v)
           /\ n = 0 /\ u \in High => UTF16Step(Busy(x, n, v), u) = Busy(x, 1, HighBits(u))
           /\ n = 1 /\ u \in Low => UTF16Step(Busy(x, n, v), u)
                  = Follow(Busy(x, n, v), Paired(v, u))
           /\ \/ n \notin {0, 1} \/ (n = 0 /\ u \in Low)
              \/ (n = 1 /\ u \notin Low)
              => UTF16Step(Busy(x, n, v), u) = Busy(x, -1, v)
<1>1. PICK d : d = Busy(x, n, v)
  OBVIOUS
<1>2. d.due = n /\ d.bits = v /\ d.text = x
  BY <1>1 DEF Busy
<1> DEFINE Q1 == d.due = 0 /\ u \notin High \cup Low
           Q2 == d.due = 0 /\ u \in High
           Q3 == d.due = 1 /\ u \in Low
<1>3. UTF16Step(d, u) = CASE Q1 -> [d EXCEPT !.text = Append(@, u)]
                          [] Q2 -> Lead(d, 1, HighBits(u))
                          [] Q3 -> Follow(d, Paired(d.bits, u))
                          [] OTHER -> Broken(d)
  BY Zenon DEF UTF16Step
<1>4. CASE n = 0 /\ u \notin High \cup Low
  <2>1. Q1 /\ ~Q2 /\ ~Q3
    BY <1>2, <1>4, SMT
  <2>2. UTF16Step(d, u) = [d EXCEPT !.text = Append(@, u)]
    <3> HIDE DEF Q1, Q2, Q3
    <3> QED BY <1>3, <2>1, Zenon
  <2>3. UTF16Step(d, u) = Busy(Append(x, u), 0, v)
    BY <1>1, <1>4, <2>2 DEF Busy
  <2> QED BY <1>1, <1>4, <2>3
<1>5. CASE n = 0 /\ u \in High
  <2>1. ~Q1 /\ Q2 /\ ~Q3
    BY <1>2, <1>5, SMT
  <2>2. UTF16Step(d, u) = Lead(d, 1, HighBits(u))
    <3> HIDE DEF Q1, Q2, Q3
    <3> QED BY <1>3, <2>1, Zenon
  <2>3. Lead(d, 1, HighBits(u)) = Busy(x, 1, HighBits(u))
    <3>1. PICK w : w = HighBits(u)
      OBVIOUS
    <3>2. Lead(Busy(x, n, v), 1, w) = Busy(x, 1, w)
      BY Changes
    <3> QED BY <1>1, <3>1, <3>2
  <2>4. UTF16Step(d, u) = Busy(x, 1, HighBits(u))
    BY <2>2, <2>3
  <2>5. u \notin Low
    BY <1>5, Surrogates
  <2> QED BY <1>1, <1>5, <2>4, <2>5
<1>6. CASE n = 1 /\ u \in Low
  <2>1. ~Q1 /\ ~Q2 /\ Q3
    BY <1>2, <1>6, SMT
  <2>2. UTF16Step(d, u) = Follow(d, Paired(d.bits, u))
    <3> HIDE DEF Q1, Q2, Q3
    <3> QED BY <1>3, <2>1, Zenon
  <2> QED BY <1>1, <1>2, <1>6, <2>2
<1>7. CASE \/ n \notin {0, 1} \/ (n = 0 /\ u \in Low)
           \/ (n = 1 /\ u \notin Low)
  <2>0. u \in Low => u \notin High
    BY Surrogates
  <2>1. ~Q1 /\ ~Q2 /\ ~Q3
    BY <1>2, <1>7, <2>0
  <2>2. UTF16Step(d, u) = Broken(d)
    <3> HIDE DEF Q1, Q2, Q3
    <3> QED BY <1>3, <2>1, Zenon
  <2>3. UTF16Step(d, u) = Busy(x, -1, v)
    BY <1>1, <2>2, Changes
  <2> QED BY <1>1, <1>7, <2>0, <2>3
<1> QED BY <1>4, <1>5, <1>6, <1>7

LEMMA UTF16IsDecoding == IsDecoding(UTF16Decoder)
<1>1. ASSUME NEW d \in Decoder, NEW u \in Nat PROVE UTF16Step(d, u) \in Decoder
  <2>1. PICK x \in Seq(Nat), n \in Int, v \in Nat : d = Busy(x, n, v)
    BY DecoderIsBusy
  <2>2. CASE n = 0 /\ u \notin High \cup Low
    <3>1. UTF16Step(d, u) = Busy(Append(x, u), 0, v)
      BY <2>1, <2>2, UTF16Steps
    <3>2. Append(x, u) \in Seq(Nat)
      BY AppendedText
    <3>3. PICK y \in Seq(Nat) : y = Append(x, u)
      BY <3>2
    <3>4. Busy(y, 0, v) \in Decoder
      BY BusyIsDecoder
    <3> QED BY <3>1, <3>3, <3>4
  <2>3. CASE n = 0 /\ u \in High
    <3>1. UTF16Step(d, u) = Busy(x, 1, HighBits(u))
      BY <2>1, <2>3, UTF16Steps
    <3>2. HighBits(u) \in Nat
      BY <2>3, Surrogates
    <3> QED BY <3>1, <3>2, BusyIsDecoder
  <2>4. CASE n = 1 /\ u \in Low
    <3>1. PICK w \in Nat : w = Paired(v, u)
      BY <2>4, Surrogates
    <3>2. UTF16Step(d, u) = Follow(Busy(x, n, v), Paired(v, u))
      BY <2>1, <2>4, UTF16Steps
    <3>3. Append(x, w) \in Seq(Nat)
      BY AppendedText
    <3>4. Idle(Append(x, w)) \in Decoder
      BY <3>3, IdleIsDecoder
    <3>5. Follow(Busy(x, n, v), w) = Idle(Append(x, w))
      BY <2>4, Followed
    <3> QED BY <3>1, <3>2, <3>4, <3>5
  <2>5. CASE \/ n \notin {0, 1} \/ (n = 0 /\ u \in Low)
             \/ (n = 1 /\ u \notin Low)
    <3>1. UTF16Step(d, u) = Busy(x, -1, v) /\ -1 \in Int
      BY <2>1, <2>5, UTF16Steps
    <3> QED BY <3>1, BusyIsDecoder
  <2> QED BY <2>2, <2>3, <2>4, <2>5
<1>2. \A z \in Decoder \X Nat : UTF16Step(z[1], z[2]) \in Decoder
  BY <1>1
<1> QED BY <1>2 DEF IsDecoding, UTF16Decoder

LEMMA UTF16Reads ==
    ASSUME NEW d \in Decoder, NEW u \in Nat
    PROVE  UTF16Decoder[<<d, u>>] = UTF16Step(d, u)
<1>1. <<d, u>> \in Decoder \X Nat
  OBVIOUS
<1> QED BY <1>1 DEF UTF16Decoder

UTF16Goes(d, u, e) == UTF16Decoder[<<d, u>>] = e

LEMMA UTF16Begins ==
    ASSUME NEW x \in Seq(Nat), NEW u \in Nat
    PROVE  /\ u \notin High \cup Low => UTF16Goes(Idle(x), u, Idle(Append(x, u)))
           /\ u \in High => UTF16Goes(Idle(x), u, Busy(x, 1, HighBits(u)))
<1>1. Idle(x) = Busy(x, 0, 0) /\ Idle(Append(x, u)) = Busy(Append(x, u), 0, 0)
  BY DEF Idle
<1>2. UTF16Decoder[<<Idle(x), u>>] = UTF16Step(Busy(x, 0, 0), u)
  <2>1. Idle(x) \in Decoder
    BY IdleIsDecoder
  <2>2. UTF16Decoder[<<Idle(x), u>>] = UTF16Step(Idle(x), u)
    BY <2>1, UTF16Reads
  <2> QED BY <1>1, <2>2
<1>3. /\ u \notin High \cup Low =>
             UTF16Step(Busy(x, 0, 0), u) = Busy(Append(x, u), 0, 0)
      /\ u \in High => UTF16Step(Busy(x, 0, 0), u) = Busy(x, 1, HighBits(u))
  BY UTF16Steps
<1> QED BY <1>1, <1>2, <1>3, Zenon DEF UTF16Goes

LEMMA UTF16GoesOn ==
    ASSUME NEW x \in Seq(Nat), NEW v \in Nat, NEW u \in Low
    PROVE  UTF16Goes(Busy(x, 1, v), u, Idle(Append(x, Paired(v, u))))
<1>1. PICK w : w = Paired(v, u)
  OBVIOUS
<1>2. Busy(x, 1, v) \in Decoder /\ u \in Nat /\ 1 \in Int
  BY BusyIsDecoder, Surrogates
<1>3. UTF16Decoder[<<Busy(x, 1, v), u>>] = UTF16Step(Busy(x, 1, v), u)
  BY <1>2, UTF16Reads
<1>4. UTF16Step(Busy(x, 1, v), u)
          = Follow(Busy(x, 1, v), Paired(v, u))
  BY <1>2, UTF16Steps
<1>5. Follow(Busy(x, 1, v), w) = Idle(Append(x, w))
  BY <1>2, Followed
<1> QED BY <1>1, <1>3, <1>4, <1>5 DEF UTF16Goes

LEMMA OneUnitFeeds ==
    ASSUME NEW c \in Nat, c \notin High \cup Low
    PROVE  Feeds(UTF16Decoder, <<c>>, c)
<1>1. PICK b : b = <<c>>
  OBVIOUS
<1>2. b \in Seq(Nat) /\ Len(b) = 1 /\ b[1] = c
  BY <1>1
<1>3. ASSUME NEW x \in Seq(Nat), NEW e, Run(e, UTF16Decoder, b, x)
      PROVE  e[1] = Idle(Append(x, c)) /\ e[0].text = x
  <2>1. e[0] = Idle(x) /\ e[1] = UTF16Decoder[<<e[0], c>>]
    <3>1. Unrolled(e, UTF16Decoder, b, x)
      BY <1>2, <1>3, RunsOn
    <3> QED BY <1>2, <3>1 DEF Unrolled
  <2>2. UTF16Goes(Idle(x), c, Idle(Append(x, c)))
    BY UTF16Begins
  <2>3. Idle(x).text = x
    BY IdleIsDecoder
  <2> QED BY <2>1, <2>2, <2>3, Zenon DEF UTF16Goes
<1>4. \A k \in 0..(1 - 1) : k = 0
  OBVIOUS
<1>5. Feeds(UTF16Decoder, b, c)
  BY <1>2, <1>3, <1>4 DEF Feeds
<1> QED BY <1>1, <1>5

LEMMA TwoUnitsFeed ==
    ASSUME NEW h \in High, NEW i \in Low
    PROVE  Feeds(UTF16Decoder, <<h, i>>, Paired(HighBits(h), i))
<1>1. PICK b : b = <<h, i>>
  OBVIOUS
<1>0. h \in Nat /\ i \in Nat
  BY Surrogates
<1>2. b \in Seq(Nat) /\ Len(b) = 2 /\ b[1] = h /\ b[2] = i
  BY <1>0, <1>1
<1>3. PICK v \in Nat : v = HighBits(h)
  BY Surrogates
<1>4. PICK c \in Nat : c = Paired(v, i)
  BY Surrogates
<1>5. ASSUME NEW x \in Seq(Nat), NEW e, Run(e, UTF16Decoder, b, x)
      PROVE  e[2] = Idle(Append(x, c)) /\ e[0].text = x /\ e[1].text = x
  <2>1. /\ e[0] = Idle(x) /\ e[1] = UTF16Decoder[<<e[0], h>>]
        /\ e[2] = UTF16Decoder[<<e[1], i>>]
    <3>1. Unrolled(e, UTF16Decoder, b, x)
      BY <1>2, <1>5, RunsOn
    <3> QED BY <1>2, <3>1 DEF Unrolled
  <2>2. UTF16Goes(Idle(x), h, Busy(x, 1, HighBits(h)))
    BY <1>0, UTF16Begins
  <2>3. UTF16Goes(Busy(x, 1, v), i, Idle(Append(x, Paired(v, i))))
    BY UTF16GoesOn
  <2>4. Idle(x).text = x /\ Busy(x, 1, v).text = x
    BY IdleIsDecoder, BusyIsDecoder
  <2>5. e[1] = Busy(x, 1, v)
    BY <1>3, <2>1, <2>2 DEF UTF16Goes
  <2>6. e[2] = Idle(Append(x, c))
    BY <1>4, <2>1, <2>3, <2>5 DEF UTF16Goes
  <2> QED BY <2>1, <2>4, <2>5, <2>6
<1>6. \A k \in 0..(2 - 1) : k = 0 \/ k = 1
  OBVIOUS
<1>7. Feeds(UTF16Decoder, b, c)
  BY <1>2, <1>5, <1>6 DEF Feeds
<1> QED BY <1>1, <1>3, <1>4, <1>7, Zenon

LEMMA UTF16UnitsFeed ==
    ASSUME NEW c, IsCodePoint(c)
    PROVE  /\ EncodesOne(UTF16Units(c), UTF16Decoder, c)
           /\ UTF16Units(c) \in Seq(Unit16)
           /\ Len(UTF16Units(c)) = 1 <=> c < 65536
<1>1. c \in Nat /\ c < 1114112 /\ c \notin High \cup Low
  BY SMT DEF IsCodePoint, High, Low
<1>2. CASE c < 65536
  <2>1. PICK b : b = <<c>>
    OBVIOUS
  <2>2. UTF16Units(c) = b
    BY <1>2, <2>1, SMT DEF UTF16Units
  <2>3. c \in Unit16
    BY <1>1, <1>2, SMT DEF Unit16
  <2>4. b \in Seq(Unit16) /\ b \in Seq(Nat) /\ Len(b) = 1
    BY <1>1, <2>1, <2>3, SMT
  <2>5. Feeds(UTF16Decoder, b, c)
    <3>1. c \in Nat /\ c \notin High \cup Low
      BY <1>1, SMT
    <3>2. Feeds(UTF16Decoder, <<c>>, c)
      BY <3>1, OneUnitFeeds, Zenon
    <3> QED BY <2>1, <3>2
  <2> QED BY <1>2, <2>2, <2>4, <2>5, SMT DEF EncodesOne
<1>3. CASE c >= 65536
  <2>1. PICK h \in Nat, i \in Nat : /\ h = 55296 + ((c - 65536) \div 1024)
                                    /\ i = 56320 + ((c - 65536) % 1024)
    BY <1>1, <1>3, SMT
  <2>2. h \in High /\ i \in Low
    BY <1>1, <1>3, <2>1, SMT DEF High, Low
  <2>3. Paired(HighBits(h), i) = c
    BY <1>1, <1>3, <2>1, SMT DEF Paired, HighBits
  <2>4. UTF16Units(c) = <<h, i>>
    BY <1>1, <1>3, <2>1, SMT DEF UTF16Units
  <2>5. PICK b : b = <<h, i>>
    OBVIOUS
  <2>6. h \in Unit16 /\ i \in Unit16
    <3>1. h < 56320 /\ i < 57344
      BY <2>2, HighSurrogate, LowSurrogate, SMT
    <3> QED BY <3>1, SMT DEF Unit16
  <2>7. b \in Seq(Unit16) /\ b \in Seq(Nat) /\ Len(b) = 2
    BY <2>5, <2>6, SMT
  <2>8. Feeds(UTF16Decoder, <<h, i>>, Paired(HighBits(h), i))
    BY <2>2, TwoUnitsFeed, Zenon
  <2>9. Feeds(UTF16Decoder, b, c)
    BY <2>3, <2>5, <2>8, Zenon
  <2>10. UTF16Units(c) = b /\ ~(c < 65536)
    BY <1>1, <1>3, <2>4, <2>5, SMT
  <2>11. EncodesOne(b, UTF16Decoder, c)
    BY <2>7, <2>9 DEF EncodesOne
  <2>12. Len(b) = 1 <=> c < 65536
    BY <2>7, <2>10, SMT
  <2> QED BY <2>7, <2>10, <2>11, <2>12, SMT
<1> QED BY <1>1, <1>2, <1>3, SMT

-----------------------------------------------------------------------------
(* A decoder restores a text from its units, and a start of it from the    *)
(* first of them.                                                          *)

LEMMA FromUTF8IsDecoding ==
    ASSUME NEW u \in Seq(Nat)
    PROVE  \E D : Decodes(D, UTF8Decoder, u) /\ FromUTF8(u) = D[Len(u)]
<1>1. PICK n \in Nat : n = Len(u)
  BY LenProperties
<1>2. \A i \in 1..n : u[i] \in Nat
  BY <1>1, ElementOfSeq
<1>3. PICK D : Decodes(D, UTF8Decoder, u)
  BY UTF8IsDecoding, DecodingExists
<1>4. /\ D \in [0..n -> Decoder] /\ D[0] = Start
      /\ \A k \in 1..n : D[k] = UTF8Decoder[<<D[k - 1], u[k]>>]
  BY <1>1, <1>3 DEF Decodes, Start, Idle, Busy
<1>5. ASSUME NEW k \in 1..n PROVE D[k] = UTF8Step(D[k - 1], u[k])
  <2>1. k - 1 \in 0..n /\ D[k - 1] \in Decoder
    BY <1>4
  <2> QED BY <1>2, <1>4, <2>1, UTF8Reads
<1>6. D = [i \in 0..n |-> IF i = 0 THEN Start ELSE UTF8Step(D[i - 1], u[i])]
  <2>1. \A i \in 0..n : i # 0 => i \in 1..n
    OBVIOUS
  <2>2. \A i \in 0..n : D[i] = IF i = 0 THEN Start ELSE UTF8Step(D[i - 1], u[i])
    BY <1>4, <1>5, <2>1
  <2> QED BY <1>4, <2>2
<1> DEFINE f == CHOOSE f : f = [i \in 0..n |-> IF i = 0 THEN Start
                                               ELSE UTF8Step(f[i - 1], u[i])]
<1>7. f = [i \in 0..n |-> IF i = 0 THEN Start ELSE UTF8Step(f[i - 1], u[i])]
  BY <1>6
<1>8. FromUTF8(u) = f[n]
  BY <1>1 DEF FromUTF8
<1> HIDE DEF f
<1>9. Decodes(f, UTF8Decoder, u)
  <2> DEFINE S == {i \in 0..n : f[i] = D[i]}
  <2>1. 0 \in S
    BY <1>4, <1>7
  <2>2. \A i \in 0..n : i < n /\ i \in S => i + 1 \in S
    <3> SUFFICES ASSUME NEW i \in 0..n, i < n, f[i] = D[i] PROVE f[i + 1] = D[i + 1]
      OBVIOUS
    <3>1. i + 1 \in 0..n /\ i + 1 \in 1..n /\ (i + 1) - 1 = i /\ i + 1 # 0
      OBVIOUS
    <3>2. f[i + 1] = UTF8Step(f[i], u[i + 1])
      BY <1>7, <3>1
    <3>3. D[i + 1] = UTF8Step(D[i], u[i + 1])
      BY <1>5, <3>1
    <3> QED BY <3>2, <3>3
  <2>3. 0..n \subseteq S
    <3> HIDE DEF S
    <3> QED BY ONLY n \in Nat, <2>1, <2>2, Induction
  <2>4. \A i \in 0..n : f[i] = D[i]
    BY <2>3
  <2>5. DOMAIN f = 0..n /\ f = [i \in 0..n |-> f[i]]
    BY <1>7
  <2>6. f = D
    BY <1>4, <2>4, <2>5
  <2> QED BY <1>3, <2>6
<1> QED BY <1>1, <1>8, <1>9

LEMMA FromUTF16IsDecoding ==
    ASSUME NEW u \in Seq(Nat)
    PROVE  \E D : Decodes(D, UTF16Decoder, u) /\ FromUTF16(u) = D[Len(u)]
<1>1. PICK n \in Nat : n = Len(u)
  BY LenProperties
<1>2. \A i \in 1..n : u[i] \in Nat
  BY <1>1, ElementOfSeq
<1>3. PICK D : Decodes(D, UTF16Decoder, u)
  BY UTF16IsDecoding, DecodingExists
<1>4. /\ D \in [0..n -> Decoder] /\ D[0] = Start
      /\ \A k \in 1..n : D[k] = UTF16Decoder[<<D[k - 1], u[k]>>]
  BY <1>1, <1>3 DEF Decodes, Start, Idle, Busy
<1>5. ASSUME NEW k \in 1..n PROVE D[k] = UTF16Step(D[k - 1], u[k])
  <2>1. k - 1 \in 0..n /\ D[k - 1] \in Decoder
    BY <1>4
  <2> QED BY <1>2, <1>4, <2>1, UTF16Reads
<1>6. D = [i \in 0..n |-> IF i = 0 THEN Start ELSE UTF16Step(D[i - 1], u[i])]
  <2>1. \A i \in 0..n : i # 0 => i \in 1..n
    OBVIOUS
  <2>2. \A i \in 0..n : D[i] = IF i = 0 THEN Start ELSE UTF16Step(D[i - 1], u[i])
    BY <1>4, <1>5, <2>1
  <2> QED BY <1>4, <2>2
<1> DEFINE f == CHOOSE f : f = [i \in 0..n |-> IF i = 0 THEN Start
                                               ELSE UTF16Step(f[i - 1], u[i])]
<1>7. f = [i \in 0..n |-> IF i = 0 THEN Start ELSE UTF16Step(f[i - 1], u[i])]
  BY <1>6
<1>8. FromUTF16(u) = f[n]
  BY <1>1 DEF FromUTF16
<1> HIDE DEF f
<1>9. Decodes(f, UTF16Decoder, u)
  <2> DEFINE S == {i \in 0..n : f[i] = D[i]}
  <2>1. 0 \in S
    BY <1>4, <1>7
  <2>2. \A i \in 0..n : i < n /\ i \in S => i + 1 \in S
    <3> SUFFICES ASSUME NEW i \in 0..n, i < n, f[i] = D[i] PROVE f[i + 1] = D[i + 1]
      OBVIOUS
    <3>1. i + 1 \in 0..n /\ i + 1 \in 1..n /\ (i + 1) - 1 = i /\ i + 1 # 0
      OBVIOUS
    <3>2. f[i + 1] = UTF16Step(f[i], u[i + 1])
      BY <1>7, <3>1
    <3>3. D[i + 1] = UTF16Step(D[i], u[i + 1])
      BY <1>5, <3>1
    <3> QED BY <3>2, <3>3
  <2>3. 0..n \subseteq S
    <3> HIDE DEF S
    <3> QED BY ONLY n \in Nat, <2>1, <2>2, Induction
  <2>4. \A i \in 0..n : f[i] = D[i]
    BY <2>3
  <2>5. DOMAIN f = 0..n /\ f = [i \in 0..n |-> f[i]]
    BY <1>7
  <2>6. f = D
    BY <1>4, <2>4, <2>5
  <2> QED BY <1>3, <2>6
<1> QED BY <1>1, <1>8, <1>9

LEMMA ScalarsAreNumbers == ASSUME NEW t \in Seq(Scalar) PROVE t \in Seq(Nat)
<1>1. Scalar \subseteq Nat
  BY SMT DEF Scalar
<1>2. t \in [1..Len(t) -> Scalar] /\ Len(t) \in Nat
  BY LenProperties
<1>3. t \in [1..Len(t) -> Nat]
  BY <1>1, <1>2
<1> QED BY <1>2, <1>3, SeqDef

Pieces(seqs, u, C, F, t) == /\ u = FlattenSeq(seqs) /\ seqs \in Seq(Seq(C))
                            /\ Encodes(seqs, F, t)

LEMMA UTF8Pieces ==
    ASSUME NEW t \in Seq(Scalar)
    PROVE  \E seqs : /\ Pieces(seqs, ToUTF8(t), 0..255, UTF8Decoder, t)
                     /\ \A i \in 1..Len(t) : Len(seqs[i]) = 1 <=> t[i] < 128
<1>1. PICK n \in Nat : n = Len(t)
  BY LenProperties
<1>2. DOMAIN t = 1..n /\ \A i \in 1..n : t[i] \in Scalar
  BY <1>1, LenProperties, ElementOfSeq
<1>3. PICK seqs : seqs = [i \in 1..n |-> UTF8Bytes(t[i])]
  OBVIOUS
<1>4. ASSUME NEW i \in 1..n
      PROVE  /\ EncodesOne(seqs[i], UTF8Decoder, t[i]) /\ seqs[i] \in Seq(0..255)
             /\ Len(seqs[i]) = 1 <=> t[i] < 128
  <2>1. PICK c \in Scalar : c = t[i]
    BY <1>2
  <2>2. /\ EncodesOne(UTF8Bytes(c), UTF8Decoder, c)
        /\ UTF8Bytes(c) \in Seq(0..255)
        /\ Len(UTF8Bytes(c)) = 1 <=> c < 128
    BY UTF8BytesFeed
  <2>3. seqs[i] = UTF8Bytes(c)
    BY <1>3, <2>1
  <2> QED BY <2>1, <2>2, <2>3
<1>5. seqs \in Seq(Seq(0..255)) /\ seqs \in Seq(Seq(Nat)) /\ Len(seqs) = n
  <2>1. seqs \in [1..n -> Seq(0..255)] /\ seqs \in [1..n -> Seq(Nat)]
    BY <1>3, <1>4 DEF EncodesOne
  <2> QED BY <2>1, SeqDef, LenProperties
<1>6. Encodes(seqs, UTF8Decoder, t)
  BY <1>1, <1>4, <1>5 DEF Encodes, EncodesOne
<1>7. ToUTF8(t) = FlattenSeq(seqs)
  BY <1>2, <1>3 DEF ToUTF8
<1> QED BY <1>1, <1>4, <1>5, <1>6, <1>7 DEF Pieces

LEMMA UTF16Pieces ==
    ASSUME NEW t, IsText(t)
    PROVE  \E seqs : /\ Pieces(seqs, ToUTF16(t), Unit16, UTF16Decoder, t)
                     /\ \A i \in 1..Len(t) : Len(seqs[i]) = 1 <=> t[i] < 65536
<1>1. PICK n \in Nat : n = Len(t)
  BY TextElements
<1>2. DOMAIN t = 1..n /\ \A i \in 1..n : IsCodePoint(t[i])
  BY <1>1, TextElements
<1>3. PICK seqs : seqs = [i \in 1..n |-> UTF16Units(t[i])]
  OBVIOUS
<1>4. ASSUME NEW i \in 1..n
      PROVE  /\ EncodesOne(seqs[i], UTF16Decoder, t[i]) /\ seqs[i] \in Seq(Unit16)
             /\ Len(seqs[i]) = 1 <=> t[i] < 65536
  <2>1. PICK c : c = t[i] /\ IsCodePoint(c)
    BY <1>2
  <2>2. /\ EncodesOne(UTF16Units(c), UTF16Decoder, c)
        /\ UTF16Units(c) \in Seq(Unit16)
        /\ Len(UTF16Units(c)) = 1 <=> c < 65536
    BY <2>1, UTF16UnitsFeed, SMT
  <2>3. seqs[i] = UTF16Units(c)
    BY <1>3, <2>1
  <2> QED BY <2>1, <2>2, <2>3, SMT
<1>5. seqs \in Seq(Seq(Unit16)) /\ seqs \in Seq(Seq(Nat)) /\ Len(seqs) = n
  <2>1. seqs \in [1..n -> Seq(Unit16)] /\ seqs \in [1..n -> Seq(Nat)]
    BY <1>3, <1>4, SMT DEF EncodesOne
  <2> QED BY <2>1, SeqDef, LenProperties
<1>6. Encodes(seqs, UTF16Decoder, t)
  BY <1>1, <1>4, <1>5, SMT DEF Encodes, EncodesOne
<1>7. ToUTF16(t) = FlattenSeq(seqs)
  BY <1>2, <1>3 DEF ToUTF16
<1> QED BY <1>1, <1>4, <1>5, <1>6, <1>7, SMT DEF Pieces

(* What a decoder made of the first r of n units of a text.                *)
Restores(d, r, n, t) == /\ IsStart(d.text, t) /\ d \in Decoder
                        /\ r = n => d = Idle(t)

LEMMA UTF8Restores ==
    ASSUME NEW t \in Seq(Scalar), NEW r \in 0..Len(ToUTF8(t))
    PROVE  Restores(FromUTF8(SubSeq(ToUTF8(t), 1, r)), r, Len(ToUTF8(t)), t)
<1>0. t \in Seq(Nat)
  BY ScalarsAreNumbers
<1>1. PICK seqs : Pieces(seqs, ToUTF8(t), 0..255, UTF8Decoder, t)
  BY UTF8Pieces
<1>2. PICK u : u = ToUTF8(t) /\ u = FlattenSeq(seqs)
  BY <1>1 DEF Pieces
<1>3. seqs \in Seq(Seq(Nat)) /\ Encodes(seqs, UTF8Decoder, t)
  BY <1>1 DEF Pieces, Encodes
<1>4. u \in Seq(Nat)
  BY <1>2, <1>3, ConcatenationIsText
<1>5. PICK w : w = SubSeq(u, 1, r)
  OBVIOUS
<1>6. w \in Seq(Nat) /\ Len(w) = r
  BY <1>2, <1>4, <1>5, Firsts DEF First
<1>7. PICK E : Decodes(E, UTF8Decoder, w) /\ FromUTF8(w) = E[r]
  BY <1>6, FromUTF8IsDecoding
<1>8. /\ r \in 0..Len(FlattenSeq(seqs))
      /\ Decodes(E, UTF8Decoder, SubSeq(FlattenSeq(seqs), 1, r))
  BY <1>2, <1>5, <1>7
<1>9. /\ IsStart(E[r].text, t) /\ E[r] \in Decoder
      /\ r = Len(FlattenSeq(seqs)) => E[r] = Idle(t)
  BY <1>0, <1>3, <1>8, UTF8IsDecoding, DecodedStart
<1>10. Restores(E[r], r, Len(u), t)
  BY <1>2, <1>9 DEF Restores
<1> QED BY <1>2, <1>5, <1>7, <1>10

LEMMA UTF16Restores ==
    ASSUME NEW t, IsText(t), NEW r \in 0..Len(ToUTF16(t))
    PROVE  Restores(FromUTF16(SubSeq(ToUTF16(t), 1, r)), r, Len(ToUTF16(t)), t)
<1>0. t \in Seq(Nat)
  BY TextElements
<1>1. PICK seqs : Pieces(seqs, ToUTF16(t), Unit16, UTF16Decoder, t)
  BY UTF16Pieces
<1>2. PICK u : u = ToUTF16(t) /\ u = FlattenSeq(seqs)
  BY <1>1 DEF Pieces
<1>3. seqs \in Seq(Seq(Nat)) /\ Encodes(seqs, UTF16Decoder, t)
  BY <1>1 DEF Pieces, Encodes
<1>4. u \in Seq(Nat)
  BY <1>2, <1>3, ConcatenationIsText
<1>5. PICK w : w = SubSeq(u, 1, r)
  OBVIOUS
<1>6. w \in Seq(Nat) /\ Len(w) = r
  BY <1>2, <1>4, <1>5, Firsts DEF First
<1>7. PICK E : Decodes(E, UTF16Decoder, w) /\ FromUTF16(w) = E[r]
  BY <1>6, FromUTF16IsDecoding
<1>8. /\ r \in 0..Len(FlattenSeq(seqs))
      /\ Decodes(E, UTF16Decoder, SubSeq(FlattenSeq(seqs), 1, r))
  BY <1>2, <1>5, <1>7
<1>9. /\ IsStart(E[r].text, t) /\ E[r] \in Decoder
      /\ r = Len(FlattenSeq(seqs)) => E[r] = Idle(t)
  BY <1>0, <1>3, <1>8, UTF16IsDecoding, DecodedStart
<1>10. Restores(E[r], r, Len(u), t)
  BY <1>2, <1>9 DEF Restores
<1> QED BY <1>2, <1>5, <1>7, <1>10

-----------------------------------------------------------------------------
(* The lengths of encoded texts, and what a mark and a zero encode to.     *)

LEMMA TextsAreScalars == ASSUME NEW t, IsText(t) PROVE t \in Seq(Scalar)
<1>1. PICK n \in Nat : n = Len(t)
  BY TextElements
<1>2. \A i \in 1..n : t[i] \in Scalar
  <2>1. \A c : IsCodePoint(c) => c \in Scalar
    BY SMT DEF IsCodePoint, Scalar
  <2> QED BY <1>1, <2>1, TextElements
<1>3. t \in [1..n -> Nat]
  BY <1>1, TextElements, LenProperties
<1>4. t \in [1..n -> Scalar]
  BY <1>2, <1>3
<1> QED BY <1>4, SeqDef

LEMMA LengthOfUTF8 ==
    ASSUME NEW t \in Seq(Scalar)
    PROVE  /\ ToUTF8(t) \in Seq(0..255)
           /\ Len(ToUTF8(t)) \in Nat /\ Len(ToUTF8(t)) >= Len(t)
           /\ Len(ToUTF8(t)) = Len(t) <=> \A i \in 1..Len(t) : t[i] < 128
<1>1. PICK seqs : /\ Pieces(seqs, ToUTF8(t), 0..255, UTF8Decoder, t)
                  /\ \A i \in 1..Len(t) : Len(seqs[i]) = 1 <=> t[i] < 128
  BY UTF8Pieces
<1>2. PICK u : u = ToUTF8(t) /\ u = FlattenSeq(seqs)
  BY <1>1 DEF Pieces
<1>3. /\ seqs \in Seq(Seq(0..255)) /\ Len(seqs) = Len(t)
      /\ \A i \in 1..Len(seqs) : Len(seqs[i]) >= 1
  BY <1>1 DEF Pieces, Encodes
<1>4. FlattenSeq(seqs) \in Seq(0..255)
  BY <1>3, ConcatenationIsText
<1>5. /\ Len(FlattenSeq(seqs)) \in Nat /\ Len(FlattenSeq(seqs)) >= Len(seqs)
      /\ Len(FlattenSeq(seqs)) = Len(seqs) <=> \A i \in 1..Len(seqs) : Len(seqs[i]) = 1
  BY <1>3, JoinLength
<1>6. /\ u \in Seq(0..255) /\ Len(u) \in Nat /\ Len(u) >= Len(t)
      /\ Len(u) = Len(t) <=> \A i \in 1..Len(t) : t[i] < 128
  BY <1>1, <1>2, <1>3, <1>4, <1>5
<1> QED BY <1>2, <1>6

LEMMA LengthOfUTF16 ==
    ASSUME NEW t, IsText(t)
    PROVE  /\ ToUTF16(t) \in Seq(Unit16)
           /\ Len(ToUTF16(t)) \in Nat /\ Len(ToUTF16(t)) >= Len(t)
           /\ Len(ToUTF16(t)) = Len(t) <=> \A i \in 1..Len(t) : t[i] < 65536
<1>1. PICK seqs : /\ Pieces(seqs, ToUTF16(t), Unit16, UTF16Decoder, t)
                  /\ \A i \in 1..Len(t) : Len(seqs[i]) = 1 <=> t[i] < 65536
  BY UTF16Pieces
<1>2. PICK u : u = ToUTF16(t) /\ u = FlattenSeq(seqs)
  BY <1>1, SMT DEF Pieces
<1>3. /\ seqs \in Seq(Seq(Unit16)) /\ Len(seqs) = Len(t)
      /\ \A i \in 1..Len(seqs) : Len(seqs[i]) >= 1
  BY <1>1, SMT DEF Pieces, Encodes
<1>4. FlattenSeq(seqs) \in Seq(Unit16)
  BY <1>3, ConcatenationIsText
<1>5. /\ Len(FlattenSeq(seqs)) \in Nat /\ Len(FlattenSeq(seqs)) >= Len(seqs)
      /\ Len(FlattenSeq(seqs)) = Len(seqs) <=> \A i \in 1..Len(seqs) : Len(seqs[i]) = 1
  BY <1>3, JoinLength
<1>6. /\ u \in Seq(Unit16) /\ Len(u) \in Nat /\ Len(u) >= Len(t)
      /\ Len(u) = Len(t) <=> \A i \in 1..Len(t) : t[i] < 65536
  BY <1>1, <1>2, <1>3, <1>4, <1>5, SMT
<1> QED BY <1>2, <1>6, SMT

LEMMA AsciiUTF8 ==
    ASSUME NEW t, IsText(t)
    PROVE  Len(ToUTF8(t)) = Len(t) <=> IsAscii(t)
<1>1. Len(ToUTF8(t)) = Len(t) <=> \A i \in 1..Len(t) : t[i] < 128
  BY TextsAreScalars, LengthOfUTF8
<1>2. DOMAIN t = 1..Len(t)
  BY TextElements
<1> QED BY <1>1, <1>2 DEF IsAscii

LEMMA NarrowUTF16 ==
    ASSUME NEW t, IsText(t), IsAscii(t) \/ IsUTF15(t)
    PROVE  Len(ToUTF16(t)) = Len(t)
<1>1. DOMAIN t = 1..Len(t) /\ \A i \in 1..Len(t) : t[i] \in Nat
  BY TextElements
<1>2. \A i \in 1..Len(t) : t[i] < 65536
  BY <1>1, SMT DEF IsAscii, IsUTF15
<1> QED BY <1>2, LengthOfUTF16

(* Encoding of a concatenation.                                            *)
LEMMA UTF8OfConcat ==
    ASSUME NEW x \in Seq(Scalar), NEW y \in Seq(Scalar)
    PROVE  ToUTF8(x \o y) = ToUTF8(x) \o ToUTF8(y)
<1>1. PICK m \in Nat, n \in Nat : m = Len(x) /\ n = Len(y)
  BY LenProperties
<1>2. PICK z \in Seq(Scalar) : z = x \o y
  BY ConcatProperties
<1>3. Len(z) = m + n /\ \A i \in 1..(m + n) : z[i] = IF i <= m THEN x[i] ELSE y[i - m]
  BY <1>1, <1>2, ConcatProperties
<1>4. /\ DOMAIN x = 1..m /\ DOMAIN y = 1..n /\ DOMAIN z = 1..(m + n)
      /\ \A i \in 1..m : x[i] \in Scalar
      /\ \A i \in 1..n : y[i] \in Scalar
      /\ \A i \in 1..(m + n) : z[i] \in Scalar
  BY <1>1, <1>3, LenProperties, ElementOfSeq
<1>5. \A c \in Scalar : UTF8Bytes(c) \in Seq(0..255)
  BY UTF8BytesFeed
<1>6. PICK r, s, q : /\ r = [i \in 1..m |-> UTF8Bytes(x[i])]
                     /\ s = [i \in 1..n |-> UTF8Bytes(y[i])]
                     /\ q = [i \in 1..(m + n) |-> UTF8Bytes(z[i])]
  OBVIOUS
<1>7. r \in Seq(Seq(0..255)) /\ s \in Seq(Seq(0..255)) /\ q \in Seq(Seq(0..255))
  <2>1. /\ r \in [1..m -> Seq(0..255)] /\ s \in [1..n -> Seq(0..255)]
        /\ q \in [1..(m + n) -> Seq(0..255)]
    BY <1>4, <1>5, <1>6
  <2>2. m + n \in Nat
    OBVIOUS
  <2>3. r \in Seq(Seq(0..255))
    BY <2>1, SeqDef
  <2>4. s \in Seq(Seq(0..255))
    BY <2>1, SeqDef
  <2>5. q \in Seq(Seq(0..255))
    BY <2>1, <2>2, SeqDef
  <2> QED BY <2>3, <2>4, <2>5
<1>8. Len(r) = m /\ Len(s) = n /\ Len(q) = m + n
  <2>1. DOMAIN r = 1..m /\ DOMAIN s = 1..n /\ DOMAIN q = 1..(m + n)
    BY <1>6
  <2> QED BY <1>7, <2>1, LenProperties
<1>9. q = r \o s
  <2>1. PICK w \in Seq(Seq(0..255)) : w = r \o s
    BY <1>7, ConcatProperties
  <2>2. Len(w) = m + n /\ \A i \in 1..(m + n) : w[i] = IF i <= m THEN r[i] ELSE s[i - m]
    <3>1. /\ Len(r \o s) = Len(r) + Len(s)
          /\ \A i \in 1..(Len(r) + Len(s)) :
                 (r \o s)[i] = IF i <= Len(r) THEN r[i] ELSE s[i - Len(r)]
      BY <1>7, ConcatProperties
    <3> QED BY <1>8, <2>1, <3>1
  <2>3. \A i \in 1..(m + n) : (i <= m => i \in 1..m) /\ (~(i <= m) => i - m \in 1..n)
    OBVIOUS
  <2>4. \A i \in 1..(m + n) : q[i] = w[i]
    BY <1>3, <1>6, <2>2, <2>3
  <2>5. q = w
    BY <1>7, <1>8, <2>2, <2>4, SeqEqual
  <2> QED BY <2>1, <2>5
<1>10. FlattenSeq(q) = FlattenSeq(r) \o FlattenSeq(s)
  <2>1. FlattenSeq(r \o s) = FlattenSeq(r) \o FlattenSeq(s)
    BY <1>7, JoinOfConcat
  <2> QED BY <1>9, <2>1
<1>11. ToUTF8(x) = FlattenSeq(r) /\ ToUTF8(y) = FlattenSeq(s) /\ ToUTF8(z) = FlattenSeq(q)
  BY <1>4, <1>6 DEF ToUTF8
<1> QED BY <1>2, <1>10, <1>11

LEMMA UTF8OfOne ==
    ASSUME NEW c \in Scalar
    PROVE  ToUTF8(<<c>>) = UTF8Bytes(c)
<1>1. PICK a \in Seq(0..255) : a = UTF8Bytes(c)
  BY UTF8BytesFeed
<1>2. [i \in DOMAIN <<c>> |-> UTF8Bytes(<<c>>[i])] = <<a>>
  BY <1>1
<1>3. FlattenSeq(<<a>>) = a
  BY JoinOfOne
<1> QED BY <1>1, <1>2, <1>3 DEF ToUTF8

LEMMA UTF8OfNone == ToUTF8(<<>>) = <<>>
<1>1. [i \in DOMAIN <<>> |-> UTF8Bytes(<<>>[i])] = <<>>
  OBVIOUS
<1> QED BY <1>1, JoinOfNone DEF ToUTF8

(* The byte order mark the code writes is the character U+FEFC.            *)
Written(options) == IF "BOM" \in options THEN <<65276>> ELSE <<>>

LEMMA WrittenMark ==
    ASSUME NEW options
    PROVE  /\ Written(options) \in Seq(Scalar)
           /\ ToUTF8(Written(options)) = IF "BOM" \in options THEN <<239, 187, 188>> ELSE <<>>
<1>1. PICK c : c = 65276
  OBVIOUS
<1>2. c \in Scalar
  BY <1>1, SMT DEF Scalar
<1>3. UTF8Bytes(c) = <<239, 187, 188>>
  BY <1>1, SMT DEF UTF8Bytes
<1>4. <<c>> \in Seq(Scalar) /\ <<>> \in Seq(Scalar)
  BY <1>2, EmptySeq
<1>5. Written(options) = IF "BOM" \in options THEN <<c>> ELSE <<>>
  BY <1>1, SMT DEF Written
<1>6. ToUTF8(<<c>>) = <<239, 187, 188>>
  BY <1>2, <1>3, UTF8OfOne
<1> QED BY <1>4, <1>5, <1>6, UTF8OfNone

LEMMA WrittenZero ==
    ASSUME NEW options
    PROVE  Zero(options) \in Seq(Scalar) /\ ToUTF8(Zero(options)) = Zero(options)
<1>1. 0 \in Scalar
  BY SMT DEF Scalar
<1>2. UTF8Bytes(0) = <<0>>
  BY SMT DEF UTF8Bytes
<1>3. <<0>> \in Seq(Scalar) /\ <<>> \in Seq(Scalar)
  BY <1>1, EmptySeq
<1>4. ToUTF8(<<0>>) = <<0>>
  BY <1>1, <1>2, UTF8OfOne
<1> QED BY <1>3, <1>4, UTF8OfNone DEF Zero

(* The mark, the text and the zero are encoded as one text.                *)
LEMMA UTF8DataOfText ==
    ASSUME NEW s, Stored(s), NEW options
    PROVE  /\ Written(options) \o s.units \o Zero(options) \in Seq(Scalar)
           /\ UTF8Data(s, options) = ToUTF8(Written(options) \o s.units \o Zero(options))
<1>1. PICK m \in Seq(Scalar) : m = Written(options)
  BY WrittenMark
<1>2. PICK z \in Seq(Scalar) : z = Zero(options)
  BY WrittenZero
<1>3. PICK t \in Seq(Scalar) : t = s.units
  BY StoredParts, TextsAreScalars
<1>4. PICK v \in Seq(Scalar) : v = m \o t
  BY ConcatProperties
<1>5. v \o z \in Seq(Scalar)
  BY ConcatProperties
<1>6. ToUTF8(v) = ToUTF8(m) \o ToUTF8(t)
  <2>1. ToUTF8(m \o t) = ToUTF8(m) \o ToUTF8(t)
    BY UTF8OfConcat
  <2> QED BY <1>4, <2>1
<1>7. ToUTF8(v \o z) = ToUTF8(v) \o ToUTF8(z)
  BY UTF8OfConcat
<1>8. UTF8Data(s, options) = ToUTF8(m) \o ToUTF8(t) \o ToUTF8(z)
  BY <1>1, <1>2, <1>3, WrittenMark, WrittenZero DEF UTF8Data
<1>9. Written(options) \o s.units \o Zero(options) = v \o z
  BY <1>1, <1>2, <1>3, <1>4
<1> QED BY <1>5, <1>6, <1>7, <1>8, <1>9

-----------------------------------------------------------------------------
(* Where the bytes and the imported string come from.                      *)

(* The data is what an export had for its result, or the start of it.      *)
IsExported(d) ==
    /\ Stored(d.source) /\ d.encoding \in Encodings /\ d.options \in Options
    /\ d.state = Exported(d.source, d.encoding, d.options).state
    /\ IF d.state = "refused" THEN d.bytes = <<>>
       ELSE LET all == Exported(d.source, d.encoding, d.options).bytes
            IN  /\ d.state = "bytes" /\ all \in Seq(Byte)
                /\ IF d.whole THEN d.bytes = all
                   ELSE /\ d.options = Default
                        /\ \E room \in 0..Len(all) : d.bytes = SubSeq(all, 1, room)

IsImported(o, d) == /\ o = Imported(d.bytes, d.encoding)
                    /\ d.state = "bytes" /\ "TerminateWithZero" \notin d.options

Sourced(o, d) == d = NoData \/ /\ IsExported(d)
                               /\ o = None \/ IsImported(o, d)

IInv == TypeOK /\ Sourced(other, data)

LEMMA ExportedData ==
    ASSUME NEW s, Stored(s), NEW e \in Encodings, NEW options \in Options,
           Export(s, e, options, Exported(s, e, options))
    PROVE  IsExported(data')
<1>1. PICK result : result = Exported(s, e, options)
  OBVIOUS
<1>2. IsResult(result)
  BY <1>1, ExportedIsResult
<1>3. PICK b : b = IF result.state = "bytes" THEN result.bytes ELSE <<>>
  OBVIOUS
<1>4. data' = [state |-> result.state, source |-> s, encoding |-> e,
               options |-> options, whole |-> TRUE, bytes |-> b]
  BY <1>1, <1>3 DEF Export
<1>5. /\ data'.state = result.state /\ data'.source = s /\ data'.encoding = e
      /\ data'.options = options /\ data'.whole /\ data'.bytes = b
  BY <1>4
<1> QED BY <1>1, <1>2, <1>3, <1>5, Zenon DEF IsExported, IsResult

LEMMA DataUsingEncodingSources ==
    ASSUME TypeOK, NEW e \in Encodings, NEW options \in Options,
           DataUsingEncoding(e, options)
    PROVE  Sourced(other', data')
<1>1. Stored(string) /\ other' = None
  BY TypeParts DEF DataUsingEncoding, Unused, IsString
<1>2. IsExported(data')
  BY <1>1, ExportedData DEF DataUsingEncoding
<1> QED BY <1>1, <1>2 DEF Sourced

LEMMA GetBytesSources ==
    ASSUME TypeOK, NEW e \in Encodings, NEW room \in Rooms, NEW r \in Ranges(string),
           GetBytes(e, room, r)
    PROVE  Sourced(other', data')
<1>1. Stored(string) /\ other' = None
  BY TypeParts DEF GetBytes, Unused, IsString
<1>2. PICK s : s = IF r.length # Length(string)
                   THEN SubstringWithRange(string, r.location, r.length) ELSE string
  OBVIOUS
<1>3. Stored(s)
  <2>1. Stored(SubstringWithRange(string, r.location, r.length))
    BY <1>1, RangeFits, SubstringIsStored
  <2> QED BY <1>1, <1>2, <2>1
<1>4. PICK result : result = Exported(s, e, Default)
  OBVIOUS
<1>5. IsResult(result) /\ Default \in Options
  BY <1>3, <1>4, ExportedIsResult DEF Default, Options
<1>6. IsExported(data')
  <2>1. CASE result.state = "bytes" /\ Len(result.bytes) > room
    <3>1. PICK b : b = SubSeq(result.bytes, 1, room)
      OBVIOUS
    <3>2. data' = [state |-> "bytes", source |-> s, encoding |-> e,
                   options |-> Default, whole |-> FALSE, bytes |-> b]
      BY <1>2, <1>4, <2>1, <3>1 DEF GetBytes
    <3>3. /\ data'.state = "bytes" /\ data'.source = s /\ data'.encoding = e
          /\ data'.options = Default /\ ~data'.whole /\ data'.bytes = b
      BY <3>2
    <3>4. result.bytes \in Seq(Byte) /\ room \in 0..Len(result.bytes)
      <4>1. result.bytes \in Seq(Byte) /\ room \in Nat
        BY <1>5, <2>1, RoomsAreSizes DEF IsResult
      <4> QED BY <2>1, <4>1, LenProperties
    <3> QED BY <1>3, <1>4, <1>5, <2>1, <3>1, <3>3, <3>4, Zenon DEF IsExported
  <2>2. CASE ~(result.state = "bytes" /\ Len(result.bytes) > room)
    <3>1. Export(s, e, Default, result)
      BY <1>2, <1>4, <2>2 DEF GetBytes
    <3> QED BY <1>3, <1>4, <1>5, <3>1, ExportedData
  <2> QED BY <2>1, <2>2
<1> QED BY <1>1, <1>6 DEF Sourced

LEMMA NoDataHasNoState == ASSUME NEW d, IsExported(d) PROVE d # NoData
<1>1. NoData.state = "none"
  BY DEF NoData
<1> QED BY <1>1 DEF IsExported

LEMMA NextSources == ASSUME IInv, [Next]_vars PROVE Sourced(other', data')
<1>1. TypeOK /\ Sourced(other, data)
  BY DEF IInv
<1>2. ASSUME data' = NoData PROVE Sourced(other', data')
  BY <1>2 DEF Sourced
<1>3. ASSUME UNCHANGED <<other, data>> PROVE Sourced(other', data')
  BY <1>1, <1>3
<1>4. ASSUME NEW t \in Texts,
             \/ InitWithCharacters(t)
             \/ InitWithUTF8NoCopy(t)
             \/ InitNoCopy(t)
             \/ InitWithUTF16(t)
             \/ AppendPieces(t)
             \/ CheatingInit(t)
      PROVE  Sourced(other', data')
  BY <1>2, <1>4 DEF InitWithCharacters, InitWithUTF8NoCopy, InitNoCopy, InitWithUTF16,
                    AppendPieces, CheatingInit, Appear
<1>5. CASE Copy
  BY <1>3, <1>5 DEF Copy
<1>6. CASE Substring
  BY <1>3, <1>6 DEF Substring
<1>7. ASSUME NEW e \in Encodings, NEW options \in Options, DataUsingEncoding(e, options)
      PROVE  Sourced(other', data')
  BY <1>1, <1>7, DataUsingEncodingSources
<1>8. ASSUME NEW e \in Encodings, NEW room \in Rooms, NEW r \in Ranges(string),
             GetBytes(e, room, r)
      PROVE  Sourced(other', data')
  BY <1>1, <1>8, GetBytesSources
<1>9. CASE InitWithData
  <2>1. IsExported(data) /\ data' = data
    BY <1>1, <1>9 DEF InitWithData, Sourced
  <2>2. IsImported(other', data)
    BY <1>9 DEF InitWithData, IsImported
  <2> QED BY <2>1, <2>2 DEF Sourced
<1>10. CASE Release
  BY <1>2, <1>10 DEF Release
<1>11. CASE UNCHANGED vars
  BY <1>3, <1>11 DEF vars
<1> QED BY <1>4, <1>5, <1>6, <1>7, <1>8, <1>9, <1>10, <1>11 DEF Next

LEMMA AlwaysSourced == Spec => []IInv
<1>1. Init => Sourced(other, data)
  BY DEF Init, Sourced
<1>2. TypeOK /\ TypeOK' /\ Sourced(other, data) /\ [Next]_vars => Sourced(other, data)'
  BY NextSources DEF IInv
<1>3. TypeOK /\ Sourced(other, data) <=> IInv
  BY DEF IInv
<1> QED BY TypeCorrect, <1>1, <1>2, <1>3, PTL DEF Spec

-----------------------------------------------------------------------------
(* What is refused: an export to ASCII or to ISO Latin 1 of a text with    *)
(* other characters.                                                       *)

LEMMA UTF8Whole ==
    ASSUME NEW t \in Seq(Scalar)
    PROVE  FromUTF8(ToUTF8(t)) = Idle(t)
<1>1. PICK u : u = ToUTF8(t)
  OBVIOUS
<1>2. u \in Seq(0..255) /\ Len(u) \in Nat
  BY <1>1, LengthOfUTF8
<1>3. u \in Seq(Nat)
  <2>1. u \in [1..Len(u) -> 0..255]
    BY <1>2, LenProperties
  <2>3. 0..255 \subseteq Nat
    OBVIOUS
  <2>2. u \in [1..Len(u) -> Nat]
    BY <2>1, <2>3
  <2> QED BY <1>2, <2>2, SeqDef
<1>4. SubSeq(u, 1, Len(u)) = u
  BY <1>3, Firsts DEF First
<1>5. PICK r \in 0..Len(ToUTF8(t)) : r = Len(ToUTF8(t))
  BY <1>1, <1>2
<1>6. Restores(FromUTF8(SubSeq(ToUTF8(t), 1, r)), r, Len(ToUTF8(t)), t)
  BY UTF8Restores
<1>7. FromUTF8(SubSeq(ToUTF8(t), 1, r)) = Idle(t)
  BY <1>5, <1>6 DEF Restores
<1> QED BY <1>1, <1>4, <1>5, <1>7

LEMMA ISO1Text ==
    ASSUME NEW s, Stored(s), NEW options
    PROVE  FromUTF8(UTF8Data(s, options)).text = Written(options) \o s.units \o Zero(options)
<1>1. PICK t \in Seq(Scalar) : t = Written(options) \o s.units \o Zero(options)
  BY UTF8DataOfText
<1>2. FromUTF8(ToUTF8(t)) = Idle(t)
  BY UTF8Whole
<1>3. UTF8Data(s, options) = ToUTF8(t)
  BY <1>1, UTF8DataOfText
<1>4. Idle(t).text = t
  BY ScalarsAreNumbers, IdleIsDecoder
<1> QED BY <1>1, <1>2, <1>3, <1>4

LEMMA Results == /\ \A b : Bytes(b).state = "bytes" /\ Bytes(b).bytes = b
                 /\ Refused.state = "refused"
BY DEF Bytes, Refused

Narrow(t) == \A i \in 1..Len(t) : t[i] < 256

LEMMA ISO1Bytes ==
    ASSUME NEW s, Stored(s), NEW options
    PROVE  LET t == FromUTF8(UTF8Data(s, options)).text
           IN  /\ t \in Seq(0..255) => Narrow(s.units)
               /\ Narrow(s.units) /\ "BOM" \notin options => t \in Seq(0..255)
<1>1. PICK m \in Seq(Scalar) : m = Written(options)
  BY WrittenMark
<1>2. PICK z \in Seq(Scalar) : z = Zero(options)
  BY WrittenZero
<1>3. PICK t \in Seq(Scalar) : t = s.units
  BY StoredParts, TextsAreScalars
<1>4. PICK v \in Seq(Scalar) : v = m \o t
  BY ConcatProperties
<1>5. PICK w \in Seq(Scalar) : w = v \o z
  BY ConcatProperties
<1>6. FromUTF8(UTF8Data(s, options)).text = w
  BY <1>1, <1>2, <1>3, <1>4, <1>5, ISO1Text
<1>7. PICK k \in Nat, n \in Nat : k = Len(m) /\ n = Len(t)
  BY LenProperties
<1>8. Len(v) = k + n /\ \A i \in 1..(k + n) : v[i] = IF i <= k THEN m[i] ELSE t[i - k]
  <2>1. /\ Len(m \o t) = Len(m) + Len(t)
        /\ \A i \in 1..(Len(m) + Len(t)) :
               (m \o t)[i] = IF i <= Len(m) THEN m[i] ELSE t[i - Len(m)]
    BY ConcatProperties
  <2> QED BY <1>4, <1>7, <2>1
<1>9. /\ Len(w) = k + n + Len(z) /\ Len(z) \in Nat
      /\ \A i \in 1..(k + n + Len(z)) : w[i] = IF i <= k + n THEN v[i] ELSE z[i - (k + n)]
  <2>1. /\ Len(v \o z) = Len(v) + Len(z) /\ Len(z) \in Nat
        /\ \A i \in 1..(Len(v) + Len(z)) :
               (v \o z)[i] = IF i <= Len(v) THEN v[i] ELSE z[i - Len(v)]
    BY ConcatProperties, LenProperties
  <2> QED BY <1>5, <1>8, <2>1
<1>10. ASSUME w \in Seq(0..255) PROVE Narrow(t)
  <2> SUFFICES ASSUME NEW i \in 1..n PROVE t[i] < 256
    BY <1>7 DEF Narrow
  <2>1. k + i \in 1..(k + n) /\ ~(k + i <= k) /\ (k + i) - k = i
        /\ k + i \in 1..(k + n + Len(z)) /\ k + i <= k + n
    BY <1>9
  <2>2. w[k + i] = t[i]
    BY <1>8, <1>9, <2>1
  <2>3. k + i \in 1..Len(w)
    BY <1>9, <2>1
  <2>4. w[k + i] \in 0..255
    BY <1>10, <2>3, ElementOfSeq
  <2>5. \A c \in 0..255 : c < 256
    OBVIOUS
  <2> QED BY <2>2, <2>4, <2>5, Zenon
<1>11. ASSUME Narrow(t), "BOM" \notin options PROVE w \in Seq(0..255)
  <2>1. m = <<>>
    BY <1>1, <1>11 DEF Written
  <2>2. k = 0
    BY <1>7, <2>1
  <2>3. \A i \in 1..n : t[i] \in 0..255
    <3>1. \A i \in 1..n : t[i] \in Nat
      BY <1>7, ScalarsAreNumbers, ElementOfSeq
    <3>2. \A i \in 1..n : t[i] < 256
      BY <1>7, <1>11 DEF Narrow
    <3>3. \A c \in Nat : c < 256 => c \in 0..255
      OBVIOUS
    <3> QED BY <3>1, <3>2, <3>3
  <2>4. t \in Seq(0..255)
    <3>1. t \in [1..n -> Scalar]
      BY <1>7, LenProperties
    <3>2. t \in [1..n -> 0..255]
      BY <2>3, <3>1
    <3> QED BY <3>2, SeqDef
  <2>5. z \in Seq(0..255)
    BY <1>2, ZeroIsBytes DEF Byte
  <2>6. v = t
    BY <1>3, <1>4, <2>1, ConcatEmptySeq
  <2> QED BY <1>5, <2>4, <2>5, <2>6, ConcatProperties
<1> QED BY <1>3, <1>6, <1>10, <1>11

RefusesLoss(s, e, options) ==
    /\ Exported(s, e, options).state = "bytes" => Fits(s.units, e)
    /\ Exported(s, e, options).state = "refused" =>
           /\ ~CanBeConverted(e)
           /\ ~Fits(s.units, e) \/ (e = "ISO1" /\ "BOM" \in options)

LEMMA Refusals ==
    ASSUME NEW s, Stored(s), NEW e \in Encodings, NEW options
    PROVE  RefusesLoss(s, e, options)
<1>1. IsText(s.units) /\ Length(s) = Len(s.units) /\ DOMAIN s.units = 1..Len(s.units)
  BY StoredParts, TextElements
<1>2. /\ \A b : Bytes(b).state = "bytes"
      /\ Refused.state = "refused" /\ "refused" # "bytes"
  BY Results
<1>3. CASE e = "ASCII"
  <2>1. Fits(s.units, e) <=> IsAscii(s.units)
    BY <1>3 DEF Fits
  <2>2. Exported(s, e, options) = ASCIIData(s, options)
    BY <1>3 DEF Exported
  <2>3. ~CanBeConverted(e)
    BY <1>3 DEF CanBeConverted
  <2>4. CASE IsAscii(s.units)
    <3>1. Len(ToUTF8(s.units)) = Length(s)
      BY <1>1, <2>4, AsciiUTF8
    <3>2. Exported(s, e, options).state = "bytes"
      BY <1>2, <2>2, <3>1, Zenon DEF ASCIIData
    <3> QED BY <1>2, <2>1, <2>4, <3>2 DEF RefusesLoss
  <2>5. CASE ~IsAscii(s.units)
    <3>1. Len(ToUTF8(s.units)) # Length(s)
      BY <1>1, <2>5, AsciiUTF8
    <3>2. Exported(s, e, options).state = "refused"
      BY <1>2, <2>2, <3>1, Zenon DEF ASCIIData
    <3> QED BY <1>2, <2>1, <2>3, <2>5, <3>2 DEF RefusesLoss
  <2> QED BY <2>4, <2>5
<1>4. CASE e = "ISO1"
  <2>1. Fits(s.units, e) <=> Narrow(s.units)
    BY <1>1, <1>4 DEF Fits, Narrow
  <2>2. PICK t : t = FromUTF8(UTF8Data(s, options)).text
    OBVIOUS
  <2>3. Exported(s, e, options) = IF t \in Seq(0..255) THEN Bytes(t) ELSE Refused
    BY <1>4, <2>2 DEF Exported, ISO1Data
  <2>4. ~CanBeConverted(e)
    BY <1>4 DEF CanBeConverted
  <2>5. /\ t \in Seq(0..255) => Narrow(s.units)
        /\ Narrow(s.units) /\ "BOM" \notin options => t \in Seq(0..255)
    BY <2>2, ISO1Bytes
  <2>6. CASE t \in Seq(0..255)
    <3>1. Exported(s, e, options).state = "bytes"
      BY <1>2, <2>3, <2>6, Zenon
    <3> QED BY <1>2, <2>1, <2>5, <2>6, <3>1 DEF RefusesLoss
  <2>7. CASE ~(t \in Seq(0..255))
    <3>1. Exported(s, e, options).state = "refused"
      BY <1>2, <2>3, <2>7, Zenon
    <3> QED BY <1>2, <1>4, <2>1, <2>4, <2>5, <2>7, <3>1 DEF RefusesLoss
  <2> QED BY <2>6, <2>7
<1>5. CASE e \notin {"ASCII", "ISO1"}
  <2>1. Fits(s.units, e)
    BY <1>5 DEF Fits
  <2>2. \E b : Exported(s, e, options) = Bytes(b)
    <3>1. CASE e = "UTF8"
      BY <3>1 DEF Exported
    <3>2. CASE e \in Wide16
      BY <3>2 DEF Exported, UTF16Data, Wide16
    <3>3. CASE e \in Wide32
      BY <3>3 DEF Exported, UTF32Data, Wide16, Wide32
    <3> QED BY <1>5, <3>1, <3>2, <3>3 DEF Encodings
  <2> QED BY <1>2, <2>1, <2>2 DEF RefusesLoss
<1> QED BY <1>3, <1>4, <1>5

(* A text with characters that an encoding lacks is refused, and no other  *)
(* text is, except for the byte order mark that ISO Latin 1 does not have. *)
THEOREM NothingIsLost == Spec => []ExportRefusesLoss
<1>1. IInv => ExportRefusesLoss
  <2> SUFFICES ASSUME IInv, data # NoData
               PROVE  /\ data.state = "bytes" => Fits(data.source.units, data.encoding)
                      /\ data.state = "refused" =>
                             /\ ~CanBeConverted(data.encoding)
                             /\ \/ ~Fits(data.source.units, data.encoding)
                                \/ data.encoding = "ISO1" /\ "BOM" \in data.options
    BY DEF ExportRefusesLoss
  <2>1. IsExported(data)
    BY DEF IInv, Sourced
  <2>2. PICK s, e, options : s = data.source /\ e = data.encoding /\ options = data.options
                         /\ e \in Encodings
    BY <2>1 DEF IsExported
  <2>3. Stored(s) /\ data.state = Exported(s, e, options).state
    BY <2>1, <2>2 DEF IsExported
  <2>4. RefusesLoss(s, e, options)
    BY <2>2, <2>3, Refusals
  <2> QED BY <2>2, <2>3, <2>4 DEF RefusesLoss
<1> QED BY AlwaysSourced, <1>1, PTL

-----------------------------------------------------------------------------
(* The byte order marks at the start of a text.                            *)

IsMarks(m, t) == /\ m \in 0..Len(t)
                 /\ \A j \in 1..m : t[j] = Mark
                 /\ m < Len(t) => t[m + 1] # Mark

LEMMA CountMarks ==
    ASSUME NEW t \in Seq(Nat), NEW m, IsMarks(m, t)
    PROVE  Marks(t) = m
<1>1. PICK n \in Nat : n = Len(t) /\ DOMAIN t = 1..n
  BY LenProperties
<1>2. m \in 0..n /\ (\A j \in 1..m : t[j] = Mark) /\ (m < n => t[m + 1] # Mark)
  BY <1>1 DEF IsMarks
<1>3. {i \in 1..n : \A j \in 1..i : t[j] = Mark} = 1..m
  <2>1. ASSUME NEW i \in 1..n, \A j \in 1..i : t[j] = Mark PROVE i \in 1..m
    <3>1. ~(i > m)
      <4> SUFFICES ASSUME i > m PROVE FALSE
        OBVIOUS
      <4>1. m + 1 \in 1..i /\ m < n
        BY <1>2
      <4> QED BY <1>2, <2>1, <4>1
    <3> QED BY <1>2, <3>1
  <2>2. ASSUME NEW i \in 1..m PROVE i \in 1..n /\ \A j \in 1..i : t[j] = Mark
    <3>1. i \in 1..n /\ \A j \in 1..i : j \in 1..m
      BY <1>2
    <3> QED BY <1>2, <3>1
  <2> QED BY <2>1, <2>2
<1>4. Cardinality(1..m) = m
  <2>1. m \in Int /\ (IF 1 > m THEN 0 ELSE m - 1 + 1) = m
    BY <1>2
  <2>2. Cardinality(1..m) = IF 1 > m THEN 0 ELSE m - 1 + 1
    BY <2>1, FS_Interval
  <2> QED BY <2>1, <2>2
<1> QED BY <1>1, <1>3, <1>4, Zenon DEF Marks

LEMMA MarksAre ==
    ASSUME NEW t \in Seq(Nat)
    PROVE  IsMarks(Marks(t), t)
<1>1. PICK n \in Nat : n = Len(t)
  BY LenProperties
<1>2. \E m : IsMarks(m, t)
  <2> DEFINE T == {i \in 1..n : t[i] # Mark}
  <2>1. CASE T = {}
    <3>1. IsMarks(n, t)
      BY <1>1, <2>1 DEF IsMarks
    <3> QED BY <3>1
  <2>2. CASE T # {}
    <3>1. PICK x \in T : \A y \in T : x <= y
      BY <2>2, LeastNumber, T \subseteq Nat
    <3>2. PICK m \in 0..n : m = x - 1 /\ m + 1 = x /\ m < n
      BY <3>1
    <3>3. \A j \in 1..m : t[j] = Mark
      <4> SUFFICES ASSUME NEW j \in 1..m, t[j] # Mark PROVE FALSE
        OBVIOUS
      <4>1. j \in T /\ j < x
        BY <3>2
      <4> QED BY <3>1, <4>1
    <3>4. IsMarks(m, t)
      BY <1>1, <3>1, <3>2, <3>3 DEF IsMarks
    <3> QED BY <3>4
  <2> QED BY <2>1, <2>2
<1> QED BY <1>2, CountMarks

LEMMA BodyOfMarked ==
    ASSUME NEW t \in Seq(Nat)
    PROVE  /\ Marks(t) = 0 => Body(t) = t
           /\ Marks(t) > 0 => /\ Body(t) \in Seq(Nat) /\ Len(Body(t)) = Len(t) - 1
                              /\ \A i \in 1..(Len(t) - 1) : Body(t)[i] = t[i + 1]
<1>1. PICK n \in Nat, m \in Nat : n = Len(t) /\ m = Marks(t)
  BY LenProperties, MarksAre DEF IsMarks
<1>2. m \in 0..n /\ (\A j \in 1..m : t[j] = Mark) /\ (m < n => t[m + 1] # Mark)
  BY <1>1, MarksAre DEF IsMarks
<1>3. t # <<>> => n > 0 /\ Head(t) = t[1]
  BY <1>1, EmptySeq
<1>4. t = <<>> => n = 0
  BY <1>1, EmptySeq
<1>5. CASE m = 0
  <2>1. ~(t # <<>> /\ Head(t) = Mark)
    BY <1>2, <1>3, <1>5
  <2>2. Body(t) = t
    BY <2>1 DEF Body
  <2> QED BY <1>1, <1>5, <2>2
<1>6. CASE m > 0
  <2>1. 1 \in 1..m /\ n > 0
    BY <1>2, <1>6
  <2>2. t # <<>> /\ Head(t) = Mark
    BY <1>2, <1>3, <1>4, <2>1
  <2>3. Body(t) = Tail(t)
    BY <2>2 DEF Body
  <2>4. /\ Tail(t) \in Seq(Nat) /\ Len(Tail(t)) = Len(t) - 1
        /\ \A i \in 1..Len(Tail(t)) : Tail(t)[i] = t[i + 1]
    BY <2>2, HeadTailProperties
  <2> QED BY <1>1, <1>6, <2>3, <2>4
<1> QED BY <1>5, <1>6

-----------------------------------------------------------------------------
(* The lengths that are announced.                                         *)

LEMMA LengthOfToBytes ==
    ASSUME NEW u \in Seq(Nat), NEW z \in {2, 4}, NEW e
    PROVE  /\ Len(ToBytes(u, z)) = Len(u) * z
           /\ Len(Ordered(ToBytes(u, z), z, e)) = Len(u) * z
<1>1. PICK n \in Nat : n = Len(u)
  BY LenProperties
<1>2. PICK b \in Seq(Byte) : b = ToBytes(u, z)
  BY ToBytesIsBytes
<1>3. Len(b) = n * z
  <2>1. n * z \in Nat /\ DOMAIN b = 1..(n * z)
    BY <1>1, <1>2 DEF ToBytes
  <2>2. DOMAIN b = 1..Len(b) /\ Len(b) \in Nat
    BY <1>2, LenProperties
  <2> QED BY <2>1, <2>2
<1>4. (Len(b) \div z) * z = n * z
  <2>1. ((n * 2) \div 2) * 2 = n * 2 /\ ((n * 4) \div 4) * 4 = n * 4
    OBVIOUS
  <2> QED BY <1>3, <2>1
<1>5. Len(SwapUnits(b, z)) = n * z
  <2>1. PICK c \in Seq(Byte) : c = SwapUnits(b, z)
    BY SwapUnitsIsBytes
  <2>2. n * z \in Nat /\ DOMAIN c = 1..(n * z)
    BY <1>4, <2>1 DEF SwapUnits
  <2>3. DOMAIN c = 1..Len(c) /\ Len(c) \in Nat
    BY <2>1, LenProperties
  <2> QED BY <2>1, <2>2, <2>3
<1> QED BY <1>1, <1>2, <1>3, <1>5 DEF Ordered

LEMMA NoOptions == Zero({}) = <<>> /\ MarkUnit({}) = <<>> /\ "BOM" \notin {}
BY DEF Zero, MarkUnit, Wanted

(* What is ASCII or has 15 bit does not start with a byte order mark.      *)
LEMMA NarrowHasNoMark ==
    ASSUME NEW t, IsText(t), IsAscii(t) \/ IsUTF15(t)
    PROVE  Body(t) = t
<1>1. DOMAIN t = 1..Len(t) /\ Len(t) \in Nat /\ t \in Seq(Nat)
  BY TextElements
<1>2. SUFFICES ASSUME t # <<>>, Head(t) = Mark PROVE FALSE
  BY DEF Body
<1>3. 1 \in DOMAIN t /\ Head(t) = t[1]
  BY <1>1, <1>2, EmptySeq
<1>4. t[1] < 32768
  <2>1. t[1] < 128 \/ t[1] < 32768
    BY <1>3 DEF IsAscii, IsUTF15
  <2>2. t[1] \in Nat
    BY <1>1, <1>3, TextElements
  <2> QED BY <2>1, <2>2
<1> QED BY <1>2, <1>3, <1>4 DEF Mark

(* The bytes of an export without options.                                 *)
LEMMA PlainExport ==
    ASSUME NEW s, Stored(s), NEW e \in Encodings
    PROVE  /\ e = "UTF8" => Exported(s, e, {}) = Bytes(ToUTF8(s.units))
           /\ e = "ASCII" => Exported(s, e, {}) = IF IsAscii(s.units)
                                                  THEN Bytes(ToUTF8(s.units)) ELSE Refused
           /\ e = "UTF16" => \E b : /\ Exported(s, e, {}) = Bytes(b)
                                    /\ Len(b) = 2 * Len(ToUTF16(Body(s.units)))
           /\ e = "UTF32" => \E b : /\ Exported(s, e, {}) = Bytes(b)
                                    /\ Len(b) = 4 * Len(s.units)
<1>1. IsText(s.units) /\ Length(s) = Len(s.units)
  BY StoredParts
<1>2. PICK x \in Seq(0..255) : x = ToUTF8(s.units)
  BY <1>1, TextsAreScalars, LengthOfUTF8
<1>3. PICK y \in Seq(Nat) : y = ToUTF16(Body(s.units))
  BY <1>1, BodyIsText, ToUTF16IsUnits
<1>4. PICK u \in Seq(Nat) : u = s.units
  BY <1>1, TextElements
<1>5. x \o <<>> = x /\ <<>> \o x = x
  BY ConcatEmptySeq
<1>6. <<>> \o y \o <<>> = y
  BY ConcatEmptySeq
<1>7. <<>> \o u \o <<>> = u
  BY ConcatEmptySeq
<1>8. ASSUME e = "UTF8" PROVE Exported(s, e, {}) = Bytes(x)
  <2>1. Exported(s, e, {}) = Bytes(UTF8Data(s, {}))
    BY <1>8 DEF Exported
  <2>2. UTF8Data(s, {}) = <<>> \o x \o <<>>
    BY <1>2, NoOptions DEF UTF8Data
  <2> QED BY <1>5, <2>1, <2>2
<1>9. ASSUME e = "ASCII"
      PROVE  Exported(s, e, {}) = IF IsAscii(s.units) THEN Bytes(x) ELSE Refused
  <2>1. Exported(s, e, {}) = ASCIIData(s, {})
    BY <1>9 DEF Exported
  <2>2. Len(ToUTF8(s.units)) = Length(s) <=> IsAscii(s.units)
    BY <1>1, AsciiUTF8
  <2>3. x \o Zero({}) = x
    BY <1>5, NoOptions
  <2> QED BY <1>2, <2>1, <2>2, <2>3 DEF ASCIIData
<1>10. ASSUME e = "UTF16"
       PROVE  \E b : Exported(s, e, {}) = Bytes(b) /\ Len(b) = 2 * Len(y)
  <2>1. Exported(s, e, {}) = UTF16Data(s, {}, e)
    BY <1>10 DEF Exported, Wide16
  <2>2. MarkUnit({}) \o ToUTF16(Body(s.units)) \o Zero({}) = y
    BY <1>3, <1>6, NoOptions
  <2>3. UTF16Data(s, {}, e) = Bytes(Ordered(ToBytes(y, 2), 2, e))
    BY <2>2 DEF UTF16Data
  <2>4. PICK b : b = Ordered(ToBytes(y, 2), 2, e)
    OBVIOUS
  <2>5. Len(b) = Len(y) * 2
    BY <2>4, LengthOfToBytes
  <2>6. Len(y) * 2 = 2 * Len(y)
    BY LenProperties
  <2> QED BY <2>1, <2>3, <2>4, <2>5, <2>6
<1>11. ASSUME e = "UTF32"
       PROVE  \E b : Exported(s, e, {}) = Bytes(b) /\ Len(b) = 4 * Len(u)
  <2>1. Exported(s, e, {}) = UTF32Data(s, {}, e)
    BY <1>11 DEF Exported, Wide16
  <2>2. MarkUnit({}) \o s.units \o Zero({}) = u
    BY <1>4, <1>7, NoOptions
  <2>3. UTF32Data(s, {}, e) = Bytes(Ordered(ToBytes(u, 4), 4, e))
    BY <2>2 DEF UTF32Data
  <2>4. PICK b : b = Ordered(ToBytes(u, 4), 4, e)
    OBVIOUS
  <2>5. Len(b) = Len(u) * 4
    BY <2>4, LengthOfToBytes
  <2>6. Len(u) * 4 = 4 * Len(u)
    BY LenProperties
  <2> QED BY <2>1, <2>3, <2>4, <2>5, <2>6
<1> QED BY <1>2, <1>3, <1>4, <1>8, <1>9, <1>10, <1>11

LEMMA AnnouncedLength ==
    ASSUME NEW s, Stored(s), NEW e \in Encodings
    PROVE  /\ e = "UTF8" => LengthOfBytes(s, e) = Len(ToUTF8(s.units))
           /\ e = "ASCII" => LengthOfBytes(s, e) = IF IsAscii(Body(s.units))
                                                   THEN Len(Body(s.units)) ELSE 0
           /\ e = "UTF16" => LengthOfBytes(s, e) = 2 * Len(ToUTF16(Body(s.units)))
           /\ e = "UTF32" => LengthOfBytes(s, e) = IF s.class = "Mutable"
                                                   THEN 4 * Len(Body(s.units))
                                                   ELSE 4 * Len(s.units)
           /\ e \notin {"ASCII", "UTF8", "UTF16", "UTF32"} => LengthOfBytes(s, e) = 0
<1>1. /\ IsText(s.units) /\ Length(s) = Len(s.units) /\ s.class \in Classes
      /\ s.class \in ASCII \cup Tagged => IsAscii(s.units)
      /\ s.class = "UTF16" => IsUTF15(s.units)
  BY StoredParts
<1>2. /\ IsAscii(s.units) => Len(ToUTF8(s.units)) = Len(s.units)
      /\ IsAscii(s.units) \/ IsUTF15(s.units) => Len(ToUTF16(s.units)) = Len(s.units)
      /\ IsAscii(s.units) \/ IsUTF15(s.units) => Body(s.units) = s.units
  BY <1>1, AsciiUTF8, NarrowUTF16, NarrowHasNoMark
<1>3. /\ "UTF16" \notin ASCII /\ "UTF32" \notin ASCII /\ "Mutable" \notin ASCII
      /\ Classes = Tagged \cup ASCII \cup {"UTF16", "UTF32", "Mutable"}
      /\ "Mutable" \notin Tagged
  BY DEF ASCII, Classes, Tagged
<1>4. CASE e = "UTF8"
  <2>1. LengthOfBytes(s, e) = IF s.class \in ASCII THEN Length(s) ELSE Len(ToUTF8(s.units))
    BY <1>4 DEF LengthOfBytes
  <2> QED BY <1>1, <1>2, <1>4, <2>1
<1>5. CASE e = "ASCII"
  <2>1. LengthOfBytes(s, e) = IF s.class \in ASCII THEN Length(s)
                              ELSE IF IsAscii(Body(s.units)) THEN Len(Body(s.units)) ELSE 0
    BY <1>5 DEF LengthOfBytes
  <2> QED BY <1>1, <1>2, <1>5, <2>1
<1>6. CASE e = "UTF16"
  <2>1. LengthOfBytes(s, e) = IF s.class \in ASCII \/ s.class = "UTF16" THEN 2 * Length(s)
                              ELSE 2 * Len(ToUTF16(Body(s.units)))
    BY <1>6 DEF LengthOfBytes
  <2> QED BY <1>1, <1>2, <1>6, <2>1
<1>7. CASE e = "UTF32"
  <2>1. LengthOfBytes(s, e) = IF s.class \in ASCII \/ s.class \in {"UTF16", "UTF32"}
                              THEN 4 * Length(s) ELSE 4 * Len(Body(s.units))
    BY <1>7 DEF LengthOfBytes
  <2>2. s.class \in Tagged => Body(s.units) = s.units
    BY <1>1, <1>2
  <2> QED BY <1>1, <1>3, <1>7, <2>1, <2>2
<1>8. CASE e \notin {"ASCII", "UTF8", "UTF16", "UTF32"}
  <2>1. LengthOfBytes(s, e) = 0
    BY <1>8 DEF LengthOfBytes
  <2> QED BY <1>8, <2>1
<1> QED BY <1>4, <1>5, <1>6, <1>7, <1>8

(* -lengthOfBytesUsingEncoding: announces the length of the bytes that an  *)
(* export without options yields, whichever class the string has, unless a *)
(* byte order mark is missed: then that of the text behind the mark.       *)
THEOREM LengthsAnnounced == Spec => []LengthsAgree
<1>1. IInv => LengthsAgree
  <2> SUFFICES ASSUME IInv, data # NoData, data.options = {},
                      NEW s, s = data.source, NEW e, e = data.encoding,
                      NEW b, b = data.bytes
               PROVE  LengthOfBytes(s, e) =
                        IF MarkIsMissed(s, e)
                        THEN (IF e = "ASCII" THEN 1 ELSE 4) * Len(Body(s.units))
                        ELSE IF e \in {"ASCII", "UTF8", "UTF16", "UTF32"} THEN Len(b) ELSE 0
    BY DEF LengthsAgree
  <2>1. IsExported(data)
    BY DEF IInv, Sourced
  <2>2. Stored(s) /\ e \in Encodings
    BY <2>1 DEF IsExported
  <2>3. /\ Exported(s, e, {}).state = "refused" => b = <<>>
        /\ Exported(s, e, {}).state = "bytes" => b = Exported(s, e, {}).bytes
    <3>1. {} # Default
      BY DEF Default
    <3> QED BY <2>1, <3>1 DEF IsExported
  <2>4. PICK x, y : x = ToUTF8(s.units) /\ y = ToUTF16(Body(s.units))
    OBVIOUS
  <2>5. PICK m, n : m = Len(Body(s.units)) /\ n = Len(s.units)
    OBVIOUS
  <2>6. m \in Nat /\ n \in Nat /\ (IsAscii(s.units) => Body(s.units) = s.units)
    BY <2>2, <2>5, StoredParts, BodyIsText, TextElements, NarrowHasNoMark
  <2>7. CASE e = "UTF8"
    <3>1. b = x
      BY <2>2, <2>3, <2>4, <2>7, PlainExport, Results
    <3>2. LengthOfBytes(s, e) = Len(x)
      BY <2>2, <2>4, <2>7, AnnouncedLength
    <3>3. ~MarkIsMissed(s, e)
      BY <2>7 DEF MarkIsMissed
    <3> QED BY <2>7, <3>1, <3>2, <3>3
  <2>8. CASE e = "ASCII"
    <3>1. b = IF IsAscii(s.units) THEN x ELSE <<>>
      BY <2>2, <2>3, <2>4, <2>8, PlainExport, Results
    <3>2. LengthOfBytes(s, e) = IF IsAscii(Body(s.units)) THEN m ELSE 0
      BY <2>2, <2>5, <2>8, AnnouncedLength
    <3>3. IsAscii(s.units) => Len(x) = n
      BY <2>2, <2>4, <2>5, StoredParts, AsciiUTF8
    <3>4. Len(<<>>) = 0
      OBVIOUS
    <3>5. CASE MarkIsMissed(s, e)
      <4>1. LengthOfBytes(s, e) = m /\ 1 * m = m
        BY <2>6, <2>8, <3>2, <3>5 DEF MarkIsMissed
      <4> QED BY <2>5, <2>8, <3>5, <4>1
    <3>6. CASE ~MarkIsMissed(s, e)
      <4>1. IsAscii(Body(s.units)) <=> IsAscii(s.units)
        BY <2>6, <2>8, <3>6 DEF MarkIsMissed
      <4>2. IsAscii(s.units) => m = n
        BY <2>5, <2>6
      <4>3. LengthOfBytes(s, e) = Len(b)
        BY <3>1, <3>2, <3>3, <3>4, <4>1, <4>2
      <4> QED BY <2>8, <3>6, <4>3
    <3> QED BY <3>5, <3>6
  <2>9. CASE e = "UTF16"
    <3>1. Len(b) = 2 * Len(y)
      BY <2>2, <2>3, <2>4, <2>9, PlainExport, Results
    <3>2. LengthOfBytes(s, e) = 2 * Len(y)
      BY <2>2, <2>4, <2>9, AnnouncedLength
    <3>3. ~MarkIsMissed(s, e)
      BY <2>9 DEF MarkIsMissed
    <3> QED BY <2>9, <3>1, <3>2, <3>3
  <2>10. CASE e = "UTF32"
    <3>1. Len(b) = 4 * n
      <4>1. PICK w : Exported(s, e, {}) = Bytes(w) /\ Len(w) = 4 * Len(s.units)
        BY <2>2, <2>10, PlainExport
      <4>2. b = w
        BY <2>3, <4>1, Results
      <4> QED BY <2>5, <4>1, <4>2
    <3>2. LengthOfBytes(s, e) = IF s.class = "Mutable" THEN 4 * m ELSE 4 * n
      BY <2>2, <2>5, <2>10, AnnouncedLength
    <3>3. MarkIsMissed(s, e) <=> Body(s.units) # s.units /\ s.class = "Mutable"
      BY <2>10 DEF MarkIsMissed
    <3>4. Body(s.units) = s.units => m = n
      BY <2>5
    <3>5. CASE MarkIsMissed(s, e)
      <4>1. LengthOfBytes(s, e) = 4 * m
        BY ONLY <3>2, <3>3, <3>5
      <4>2. (IF e = "ASCII" THEN 1 ELSE 4) = 4
        BY ONLY <2>10
      <4>3. m = Len(Body(s.units))
        BY <2>5
      <4> QED BY ONLY <3>5, <4>1, <4>2, <4>3
    <3>6. CASE ~MarkIsMissed(s, e)
      <4>1. LengthOfBytes(s, e) = 4 * n
        BY ONLY <3>2, <3>3, <3>4, <3>6
      <4>2. LengthOfBytes(s, e) = Len(b)
        BY ONLY <3>1, <4>1
      <4> QED BY <2>10, <3>6, <4>2
    <3> QED BY <3>5, <3>6
  <2>11. CASE e \notin {"ASCII", "UTF8", "UTF16", "UTF32"}
    <3>1. LengthOfBytes(s, e) = 0
      BY <2>2, <2>11, AnnouncedLength
    <3>2. ~MarkIsMissed(s, e)
      BY <2>11 DEF MarkIsMissed
    <3> QED BY <2>11, <3>1, <3>2
  <2> QED BY <2>7, <2>8, <2>9, <2>10, <2>11
<1> QED BY AlwaysSourced, <1>1, PTL

-----------------------------------------------------------------------------
(* What is left of a text without the byte order marks at its start.       *)

(* x is y with a byte order mark before it.                                *)
MarkBefore(x, y) == /\ x \in Seq(Nat) /\ y \in Seq(Nat)
                    /\ Len(x) = Len(y) + 1 /\ x[1] = Mark
                    /\ \A i \in 1..Len(y) : x[i + 1] = y[i]

LEMMA MarkedBody ==
    ASSUME NEW t \in Seq(Nat), Marks(t) > 0
    PROVE  MarkBefore(t, Body(t))
<1>1. PICK n \in Nat, m \in Nat : n = Len(t) /\ m = Marks(t)
  BY LenProperties, MarksAre DEF IsMarks
<1>2. m \in 0..n /\ (\A j \in 1..m : t[j] = Mark)
  BY <1>1, MarksAre DEF IsMarks
<1>3. PICK b \in Seq(Nat) : b = Body(t)
  BY BodyOfMarked
<1>4. Len(b) = n - 1 /\ \A i \in 1..(n - 1) : b[i] = t[i + 1]
  BY <1>1, <1>3, BodyOfMarked
<1>5. 1 \in 1..m /\ n = (n - 1) + 1
  BY <1>1
<1>6. MarkBefore(t, b)
  BY <1>1, <1>2, <1>4, <1>5 DEF MarkBefore
<1> QED BY <1>3, <1>6

LEMMA MarkAdded ==
    ASSUME NEW y \in Seq(Nat)
    PROVE  MarkBefore(<<Mark>> \o y, y)
<1>1. PICK c \in Nat : c = Mark
  BY SMT DEF Mark
<1>2. PICK n \in Nat : n = Len(y)
  BY LenProperties
<1>3. <<c>> \in Seq(Nat) /\ Len(<<c>>) = 1 /\ <<c>>[1] = c
  OBVIOUS
<1>4. PICK x \in Seq(Nat) : x = <<c>> \o y
  BY <1>3, ConcatProperties
<1>5. Len(x) = 1 + n /\ \A i \in 1..(1 + n) : x[i] = IF i <= 1 THEN <<c>>[i] ELSE y[i - 1]
  BY <1>2, <1>3, <1>4, ConcatProperties
<1>6. x[1] = c
  BY <1>3, <1>5
<1>7. \A i \in 1..n : x[i + 1] = y[i]
  <2> SUFFICES ASSUME NEW i \in 1..n PROVE x[i + 1] = y[i]
    OBVIOUS
  <2>1. i + 1 \in 1..(1 + n) /\ ~(i + 1 <= 1) /\ (i + 1) - 1 = i
    OBVIOUS
  <2> QED BY <1>5, <2>1
<1>8. MarkBefore(x, y)
  BY <1>1, <1>2, <1>5, <1>6, <1>7 DEF MarkBefore
<1> QED BY <1>1, <1>4, <1>8

LEMMA OneMarkMore ==
    ASSUME NEW x, NEW y, MarkBefore(x, y)
    PROVE  Marks(x) = Marks(y) + 1
<1>1. /\ x \in Seq(Nat) /\ y \in Seq(Nat) /\ Len(x) = Len(y) + 1 /\ x[1] = Mark
      /\ \A i \in 1..Len(y) : x[i + 1] = y[i]
  BY DEF MarkBefore
<1>2. PICK n \in Nat, m \in Nat : n = Len(y) /\ m = Marks(y)
  BY <1>1, LenProperties, MarksAre DEF IsMarks
<1>3. m \in 0..n /\ (\A j \in 1..m : y[j] = Mark) /\ (m < n => y[m + 1] # Mark)
  BY <1>1, <1>2, MarksAre DEF IsMarks
<1>4. \A j \in 1..(m + 1) : x[j] = Mark
  <2> SUFFICES ASSUME NEW j \in 1..(m + 1), j # 1 PROVE x[j] = Mark
    BY <1>1
  <2>1. PICK k \in 1..m : j = k + 1
    <3>1. j - 1 \in 1..m /\ j = (j - 1) + 1
      OBVIOUS
    <3> QED BY <3>1
  <2>2. k \in 1..n
    BY <1>3
  <2> QED BY <1>1, <1>2, <1>3, <2>1, <2>2
<1>5. m + 1 < n + 1 => x[(m + 1) + 1] # Mark
  <2> SUFFICES ASSUME m < n PROVE x[(m + 1) + 1] # Mark
    OBVIOUS
  <2>1. m + 1 \in 1..n
    OBVIOUS
  <2> QED BY <1>1, <1>2, <1>3, <2>1
<1>6. m + 1 \in 0..(n + 1)
  BY <1>3
<1>7. PICK k \in Nat : k = m + 1
  OBVIOUS
<1>8. IsMarks(k, x)
  BY <1>1, <1>2, <1>4, <1>5, <1>6, <1>7 DEF IsMarks
<1>9. Marks(x) = k
  BY <1>1, <1>8, CountMarks
<1> QED BY <1>2, <1>7, <1>9

(* What is left are the characters after the marks.                        *)
LEMMA UnmarkedText ==
    ASSUME NEW t \in Seq(Nat), NEW m \in Nat, NEW k \in Nat,
           Marks(t) = m, Len(t) = m + k
    PROVE  /\ Unmarked(t) \in Seq(Nat) /\ Len(Unmarked(t)) = k
           /\ \A j \in 1..k : Unmarked(t)[j] = t[m + j]
<1>1. IsPart(SubSeq(t, m + 1, m + k), t, m, k, Nat)
  BY PartOfText
<1>2. Unmarked(t) = SubSeq(t, m + 1, m + k)
  BY DEF Unmarked
<1> QED BY <1>1, <1>2 DEF IsPart

LEMMA SameUnmarked ==
    ASSUME NEW x, NEW y, MarkBefore(x, y)
    PROVE  Unmarked(x) = Unmarked(y)
<1>1. /\ x \in Seq(Nat) /\ y \in Seq(Nat) /\ Len(x) = Len(y) + 1
      /\ \A i \in 1..Len(y) : x[i + 1] = y[i]
  BY DEF MarkBefore
<1>2. PICK m \in Nat : m = Marks(y) /\ m \in 0..Len(y)
  BY <1>1, LenProperties, MarksAre DEF IsMarks
<1>3. PICK k \in Nat : Len(y) = m + k
  <2>1. Len(y) - m \in Nat /\ Len(y) = m + (Len(y) - m)
    BY <1>1, <1>2, LenProperties
  <2> QED BY <2>1
<1>4. PICK l \in Nat : l = m + 1
  OBVIOUS
<1>5. Marks(x) = l /\ Len(x) = l + k
  BY <1>1, <1>2, <1>3, <1>4, OneMarkMore
<1>6. PICK u, v : u = Unmarked(x) /\ v = Unmarked(y)
  OBVIOUS
<1>7. /\ u \in Seq(Nat) /\ Len(u) = k /\ \A j \in 1..k : u[j] = x[l + j]
  BY <1>1, <1>5, <1>6, UnmarkedText
<1>8. /\ v \in Seq(Nat) /\ Len(v) = k /\ \A j \in 1..k : v[j] = y[m + j]
  BY <1>1, <1>2, <1>3, <1>6, UnmarkedText
<1>9. \A j \in 1..k : u[j] = v[j]
  <2> SUFFICES ASSUME NEW j \in 1..k PROVE u[j] = v[j]
    OBVIOUS
  <2>1. m + j \in 1..Len(y) /\ l + j = (m + j) + 1
    BY <1>3, <1>4
  <2> QED BY <1>1, <1>7, <1>8, <2>1
<1>10. u = v
  BY <1>7, <1>8, <1>9, SeqEqual
<1> QED BY <1>6, <1>10

(* x is t but for marks at the start that got lost.                        *)
LosesMarks(x, t) == /\ x \in Seq(Nat) /\ t \in Seq(Nat)
                    /\ Unmarked(x) = Unmarked(t) /\ Marks(x) =< Marks(t)

LEMMA NothingLost == ASSUME NEW t \in Seq(Nat) PROVE LosesMarks(t, t)
<1>1. Marks(t) \in Nat
  BY LenProperties, MarksAre DEF IsMarks
<1> QED BY <1>1 DEF LosesMarks

LEMMA MarksLostTwice ==
    ASSUME NEW x, NEW y, NEW t, LosesMarks(x, y), LosesMarks(y, t)
    PROVE  LosesMarks(x, t)
<1>1. x \in Seq(Nat) /\ y \in Seq(Nat) /\ t \in Seq(Nat)
  BY DEF LosesMarks
<1>2. Marks(x) \in Nat /\ Marks(y) \in Nat /\ Marks(t) \in Nat
  BY <1>1, LenProperties, MarksAre DEF IsMarks
<1> QED BY <1>2 DEF LosesMarks

LEMMA MarkLost ==
    ASSUME NEW x, NEW y, MarkBefore(x, y)
    PROVE  LosesMarks(y, x)
<1>1. x \in Seq(Nat) /\ y \in Seq(Nat)
  BY DEF MarkBefore
<1>2. Marks(y) \in Nat
  BY <1>1, LenProperties, MarksAre DEF IsMarks
<1> QED BY <1>1, <1>2, OneMarkMore, SameUnmarked DEF LosesMarks

LEMMA BodyLosesMarks == ASSUME NEW t \in Seq(Nat) PROVE LosesMarks(Body(t), t)
<1>1. CASE Marks(t) = 0
  BY <1>1, BodyOfMarked, NothingLost
<1>2. CASE Marks(t) > 0
  BY <1>2, MarkedBody, MarkLost
<1>3. Marks(t) \in Nat
  BY LenProperties, MarksAre DEF IsMarks
<1> QED BY <1>1, <1>2, <1>3

LEMMA BodyOfMarkAdded ==
    ASSUME NEW y \in Seq(Nat)
    PROVE  Body(<<Mark>> \o y) = y
<1>1. PICK x \in Seq(Nat) : x = <<Mark>> \o y /\ MarkBefore(x, y)
  BY MarkAdded DEF MarkBefore
<1>2. PICK n \in Nat : n = Len(y)
  BY LenProperties
<1>3. Len(x) = n + 1 /\ \A i \in 1..n : x[i + 1] = y[i]
  BY <1>1, <1>2 DEF MarkBefore
<1>4. Marks(x) > 0
  BY <1>1, OneMarkMore, MarksAre, LenProperties DEF IsMarks
<1>5. PICK b \in Seq(Nat) : b = Body(x)
  BY <1>4, BodyOfMarked
<1>6. Len(b) = n /\ \A i \in 1..n : b[i] = x[i + 1]
  <2>1. /\ Len(Body(x)) = Len(x) - 1
        /\ \A i \in 1..(Len(x) - 1) : Body(x)[i] = x[i + 1]
    BY <1>4, BodyOfMarked
  <2>2. Len(x) - 1 = n
    BY <1>3
  <2> QED BY <1>5, <2>1, <2>2
<1>7. b = y
  BY <1>2, <1>3, <1>6, SeqEqual
<1> QED BY <1>1, <1>5, <1>7

LEMMA PrefixFromStart ==
    ASSUME NEW a \in Seq(Nat), NEW b \in Seq(Nat), Len(a) <= Len(b),
           \A i \in 1..Len(a) : a[i] = b[i]
    PROVE  IsPrefix(a, b)
<1>1. PICK k \in Nat, n \in Nat : k = Len(a) /\ n = Len(b)
  BY LenProperties
<1>2. PICK c, d : c = First(a, k) /\ d = First(b, k)
  OBVIOUS
<1>3. c \in Seq(Nat) /\ Len(c) = k /\ \A i \in 1..k : c[i] = a[i]
  <2>1. k \in 0..Len(a)
    BY <1>1
  <2> QED BY <1>2, <2>1, Firsts
<1>4. d \in Seq(Nat) /\ Len(d) = k /\ \A i \in 1..k : d[i] = b[i]
  <2>1. k \in 0..Len(b)
    BY <1>1
  <2> QED BY <1>2, <2>1, Firsts
<1>5. c = d
  BY <1>1, <1>3, <1>4, SeqEqual
<1> QED BY <1>1, <1>2, <1>5 DEF IsPrefix, First

LEMMA StartUnmarked ==
    ASSUME NEW t \in Seq(Nat), NEW x, IsStart(x, t)
    PROVE  IsPrefix(Unmarked(x), Unmarked(t))
<1>1. PICK n \in Nat, m \in Nat : n = Len(t) /\ m = Marks(t)
  BY LenProperties, MarksAre DEF IsMarks
<1>2. m \in 0..n /\ (\A j \in 1..m : t[j] = Mark) /\ (m < n => t[m + 1] # Mark)
  BY <1>1, MarksAre DEF IsMarks
<1>3. PICK p \in 0..n : x = First(t, p)
  BY <1>1 DEF IsStart
<1>4. x \in Seq(Nat) /\ Len(x) = p /\ \A i \in 1..p : x[i] = t[i]
  BY <1>1, <1>3, Firsts
<1>5. PICK k \in Nat : n = m + k
  <2>1. n - m \in Nat /\ n = m + (n - m)
    BY <1>2
  <2> QED BY <2>1
<1>6. PICK v : v = Unmarked(t)
  OBVIOUS
<1>7. v \in Seq(Nat) /\ Len(v) = k /\ \A j \in 1..k : v[j] = t[m + j]
  <2>1. Marks(t) = m /\ Len(t) = m + k
    BY <1>1, <1>5
  <2> QED BY <1>6, <2>1, UnmarkedText
<1>8. PICK u : u = Unmarked(x)
  OBVIOUS
<1>9. CASE p <= m
  <2>1. p \in 0..p /\ (\A j \in 1..p : x[j] = Mark) /\ ~(p < p)
    <3>1. p \in 0..p /\ ~(p < p)
      OBVIOUS
    <3>2. ASSUME NEW j \in 1..p PROVE x[j] = Mark
      <4>1. j \in 1..m
        BY <1>9
      <4>2. t[j] = Mark
        BY <1>2, <4>1
      <4>3. x[j] = t[j]
        BY <1>4
      <4> QED BY <4>2, <4>3
    <3> QED BY <3>1, <3>2
  <2>2. IsMarks(p, x)
    BY <1>4, <2>1 DEF IsMarks
  <2>3. PICK q \in Nat : q = 0
    OBVIOUS
  <2>4. Marks(x) = p /\ Len(x) = p + q /\ p \in Nat
    BY <1>4, <2>2, <2>3, CountMarks
  <2>5. u \in Seq(Nat) /\ Len(u) = q
    BY <1>4, <1>8, <2>4, UnmarkedText
  <2>6. Len(u) <= Len(v) /\ \A j \in 1..Len(u) : u[j] = v[j]
    BY <1>7, <2>3, <2>5
  <2> QED BY <1>6, <1>7, <1>8, <2>5, <2>6, PrefixFromStart
<1>10. CASE p > m
  <2>1. m \in 0..p /\ (\A j \in 1..m : x[j] = Mark) /\ x[m + 1] # Mark
    <3>1. m + 1 \in 1..p /\ m < n /\ \A j \in 1..m : j \in 1..p
      BY <1>2, <1>10
    <3> QED BY <1>2, <1>4, <3>1
  <2>2. IsMarks(m, x)
    BY <1>4, <2>1 DEF IsMarks
  <2>3. PICK q \in Nat : p = m + q
    <3>1. p - m \in Nat /\ p = m + (p - m)
      BY <1>10
    <3> QED BY <3>1
  <2>4. Marks(x) = m /\ Len(x) = m + q
    BY <1>4, <2>2, <2>3, CountMarks
  <2>5. u \in Seq(Nat) /\ Len(u) = q /\ \A j \in 1..q : u[j] = x[m + j]
    BY <1>4, <1>8, <2>4, UnmarkedText
  <2>6. q <= k /\ \A j \in 1..q : j \in 1..k /\ m + j \in 1..p
    BY <1>5, <2>3
  <2>7. \A j \in 1..q : u[j] = v[j]
    BY <1>4, <1>7, <2>5, <2>6
  <2> QED BY <1>6, <1>7, <1>8, <2>5, <2>6, <2>7, PrefixFromStart
<1> QED BY <1>9, <1>10

-----------------------------------------------------------------------------
(* Units come back from their bytes, in either byte order, and of bytes    *)
(* that were cut off as many units as are complete.                        *)

(* The bytes of the k-th unit of two, or four, and the same swapped.       *)
Two(b, k, x)      == b[2*k - 1] = ByteOf(x, 0) /\ b[2*k] = ByteOf(x, 1)
TwoSwapped(b, k, x) == b[2*k - 1] = ByteOf(x, 1) /\ b[2*k] = ByteOf(x, 0)
Four(b, k, x) == /\ b[4*k - 3] = ByteOf(x, 0) /\ b[4*k - 2] = ByteOf(x, 1)
                 /\ b[4*k - 1] = ByteOf(x, 2) /\ b[4*k] = ByteOf(x, 3)
FourSwapped(b, k, x) == /\ b[4*k - 3] = ByteOf(x, 3) /\ b[4*k - 2] = ByteOf(x, 2)
                        /\ b[4*k - 1] = ByteOf(x, 1) /\ b[4*k] = ByteOf(x, 0)

LEMMA BytesOfTwo ==
    ASSUME NEW u, Len(u) \in Nat, NEW k \in 1..Len(u)
    PROVE  Two(ToBytes(u, 2), k, u[k])
<1>1. PICK n \in Nat : n = Len(u)
  OBVIOUS
<1>2. PICK b : b = [i \in 1..(n * 2) |-> ByteOf(u[((i - 1) \div 2) + 1], (i - 1) % 2)]
  OBVIOUS
<1>3. /\ 2*k - 1 \in 1..(n * 2) /\ (((2*k - 1) - 1) \div 2) + 1 = k /\ ((2*k - 1) - 1) % 2 = 0
      /\ 2*k \in 1..(n * 2) /\ ((2*k - 1) \div 2) + 1 = k /\ (2*k - 1) % 2 = 1
  BY <1>1
<1>4. b[2*k - 1] = ByteOf(u[k], 0)
  BY <1>2, <1>3
<1>5. b[2*k] = ByteOf(u[k], 1)
  BY <1>2, <1>3
<1>6. ToBytes(u, 2) = b
  BY <1>1, <1>2 DEF ToBytes
<1> QED BY <1>4, <1>5, <1>6 DEF Two

LEMMA BytesOfFour ==
    ASSUME NEW u, Len(u) \in Nat, NEW k \in 1..Len(u)
    PROVE  Four(ToBytes(u, 4), k, u[k])
<1>1. PICK n \in Nat : n = Len(u)
  OBVIOUS
<1>2. PICK b : b = [i \in 1..(n * 4) |-> ByteOf(u[((i - 1) \div 4) + 1], (i - 1) % 4)]
  OBVIOUS
<1>3. /\ 4*k - 3 \in 1..(n * 4) /\ (((4*k - 3) - 1) \div 4) + 1 = k /\ ((4*k - 3) - 1) % 4 = 0
      /\ 4*k - 2 \in 1..(n * 4) /\ (((4*k - 2) - 1) \div 4) + 1 = k /\ ((4*k - 2) - 1) % 4 = 1
      /\ 4*k - 1 \in 1..(n * 4) /\ (((4*k - 1) - 1) \div 4) + 1 = k /\ ((4*k - 1) - 1) % 4 = 2
      /\ 4*k \in 1..(n * 4) /\ ((4*k - 1) \div 4) + 1 = k /\ (4*k - 1) % 4 = 3
  BY <1>1
<1>4. b[4*k - 3] = ByteOf(u[k], 0)
  BY <1>2, <1>3
<1>5. b[4*k - 2] = ByteOf(u[k], 1)
  BY <1>2, <1>3
<1>6. b[4*k - 1] = ByteOf(u[k], 2)
  BY <1>2, <1>3
<1>7. b[4*k] = ByteOf(u[k], 3)
  BY <1>2, <1>3
<1>8. ToBytes(u, 4) = b
  BY <1>1, <1>2 DEF ToBytes
<1> QED BY <1>4, <1>5, <1>6, <1>7, <1>8 DEF Four

LEMMA SwapsTwo ==
    ASSUME NEW b, Len(b) \in Nat, NEW k \in 1..(Len(b) \div 2)
    PROVE  SwapUnits(b, 2)[2*k - 1] = b[2*k] /\ SwapUnits(b, 2)[2*k] = b[2*k - 1]
<1>1. PICK h \in Nat : h = Len(b) \div 2
  OBVIOUS
<1>2. PICK c : c = [i \in 1..(h * 2) |-> b[(2 * ((i - 1) \div 2) * 2) + 2 + 1 - i]]
  OBVIOUS
<1>3. /\ 2*k - 1 \in 1..(h * 2) /\ (2 * (((2*k - 1) - 1) \div 2) * 2) + 2 + 1 - (2*k - 1) = 2*k
      /\ 2*k \in 1..(h * 2) /\ (2 * ((2*k - 1) \div 2) * 2) + 2 + 1 - 2*k = 2*k - 1
  BY <1>1
<1>4. c[2*k - 1] = b[2*k]
  BY <1>2, <1>3
<1>5. c[2*k] = b[2*k - 1]
  BY <1>2, <1>3
<1>6. SwapUnits(b, 2) = c
  BY <1>1, <1>2 DEF SwapUnits
<1> QED BY <1>4, <1>5, <1>6

LEMMA SwapsFour ==
    ASSUME NEW b, Len(b) \in Nat, NEW k \in 1..(Len(b) \div 4)
    PROVE  /\ SwapUnits(b, 4)[4*k - 3] = b[4*k] /\ SwapUnits(b, 4)[4*k - 2] = b[4*k - 1]
           /\ SwapUnits(b, 4)[4*k - 1] = b[4*k - 2] /\ SwapUnits(b, 4)[4*k] = b[4*k - 3]
<1>1. PICK h \in Nat : h = Len(b) \div 4
  OBVIOUS
<1>2. PICK c : c = [i \in 1..(h * 4) |-> b[(2 * ((i - 1) \div 4) * 4) + 4 + 1 - i]]
  OBVIOUS
<1>3. /\ 4*k - 3 \in 1..(h * 4) /\ (2 * (((4*k - 3) - 1) \div 4) * 4) + 4 + 1 - (4*k - 3) = 4*k
      /\ 4*k - 2 \in 1..(h * 4) /\ (2 * (((4*k - 2) - 1) \div 4) * 4) + 4 + 1 - (4*k - 2) = 4*k - 1
      /\ 4*k - 1 \in 1..(h * 4) /\ (2 * (((4*k - 1) - 1) \div 4) * 4) + 4 + 1 - (4*k - 1) = 4*k - 2
      /\ 4*k \in 1..(h * 4) /\ (2 * ((4*k - 1) \div 4) * 4) + 4 + 1 - 4*k = 4*k - 3
  BY <1>1
<1>4. c[4*k - 3] = b[4*k]
  BY <1>2, <1>3
<1>5. c[4*k - 2] = b[4*k - 1]
  BY <1>2, <1>3
<1>6. c[4*k - 1] = b[4*k - 2]
  BY <1>2, <1>3
<1>7. c[4*k] = b[4*k - 3]
  BY <1>2, <1>3
<1>8. SwapUnits(b, 4) = c
  BY <1>1, <1>2 DEF SwapUnits
<1> QED BY <1>4, <1>5, <1>6, <1>7, <1>8

LEMMA SwapTwo ==
    ASSUME NEW b, Len(b) \in Nat, NEW k \in 1..(Len(b) \div 2), NEW x
    PROVE  /\ Two(b, k, x) => TwoSwapped(SwapUnits(b, 2), k, x)
           /\ TwoSwapped(b, k, x) => Two(SwapUnits(b, 2), k, x)
BY SwapsTwo DEF Two, TwoSwapped

LEMMA SwapFour ==
    ASSUME NEW b, Len(b) \in Nat, NEW k \in 1..(Len(b) \div 4), NEW x
    PROVE  /\ Four(b, k, x) => FourSwapped(SwapUnits(b, 4), k, x)
           /\ FourSwapped(b, k, x) => Four(SwapUnits(b, 4), k, x)
BY SwapsFour DEF Four, FourSwapped

LEMMA UnitOfTwo ==
    ASSUME NEW b, Len(b) \in Nat, NEW k \in 1..(Len(b) \div 2), NEW x \in Unit16, Two(b, k, x)
    PROVE  ToUnits(b, 2)[k] = x
<1>1. ToUnits(b, 2)[k] = b[2*k - 1] + (256 * b[2*k])
  BY DEF ToUnits
<1>2. ByteOf(x, 0) = x % 256 /\ ByteOf(x, 1) = (x \div 256) % 256
  BY DEF ByteOf
<1>3. x \in Nat /\ x < 65536
  BY SMT DEF Unit16
<1>4. (x % 256) + (256 * ((x \div 256) % 256)) = x
  BY <1>3, SMT
<1> QED BY <1>1, <1>2, <1>4 DEF Two

LEMMA UnitOfFour ==
    ASSUME NEW b, Len(b) \in Nat, NEW k \in 1..(Len(b) \div 4), NEW x \in Scalar, Four(b, k, x)
    PROVE  ToUnits(b, 4)[k] = x
<1>1. ToUnits(b, 4)[k] = b[4*k - 3] + (256 * b[4*k - 2]) + (65536 * b[4*k - 1])
  BY SMT DEF ToUnits
<1>2. /\ ByteOf(x, 0) = x % 256 /\ ByteOf(x, 1) = (x \div 256) % 256
      /\ ByteOf(x, 2) = (x \div 65536) % 256
  BY SMT DEF ByteOf
<1>3. x \in Nat /\ x < 1114112
  BY SMT DEF Scalar
<1>4. (x % 256) + (256 * ((x \div 256) % 256)) + (65536 * ((x \div 65536) % 256)) = x
  BY <1>3, SMT
<1> QED BY <1>1, <1>2, <1>4, SMT DEF Four

LEMMA FirstBytes ==
    ASSUME NEW b \in Seq(Byte), NEW r \in 0..Len(b)
    PROVE  /\ SubSeq(b, 1, r) \in Seq(Byte) /\ Len(SubSeq(b, 1, r)) = r
           /\ \A i \in 1..r : SubSeq(b, 1, r)[i] = b[i]
<1>1. r \in Nat /\ 0 + r <= Len(b)
  BY LenProperties
<1>2. IsPart(SubSeq(b, 0 + 1, 0 + r), b, 0, r, Byte)
  BY <1>1, PartOfText
<1>3. 0 + 1 = 1 /\ 0 + r = r /\ \A i \in 1..r : 0 + i = i
  BY <1>1
<1> QED BY <1>2, <1>3 DEF IsPart

(* The first k units that can be read from b are those of u.               *)
ReadsTwo(b, h, u) == /\ Len(b) \in Nat /\ Len(b) \div 2 = h
                     /\ \A k \in 1..h : Two(b, k, u[k])
ReadsFour(b, h, u) == /\ Len(b) \in Nat /\ Len(b) \div 4 = h
                      /\ \A k \in 1..h : Four(b, k, u[k])

LEMMA TwoAreRead ==
    ASSUME NEW u \in Seq(Unit16), NEW h \in 0..Len(u), NEW b, ReadsTwo(b, h, u)
    PROVE  ToUnits(b, 2) = SubSeq(u, 1, h)
<1>1. /\ Len(b) \in Nat /\ Len(b) \div 2 = h /\ \A k \in 1..h : Two(b, k, u[k])
  BY DEF ReadsTwo
<1>2. h \in Nat /\ 0 + h <= Len(u)
  BY LenProperties
<1>3. IsPart(SubSeq(u, 0 + 1, 0 + h), u, 0, h, Unit16)
  BY <1>2, PartOfText
<1>4. PICK w : w = SubSeq(u, 1, h)
  OBVIOUS
<1>5. w \in Seq(Unit16) /\ Len(w) = h /\ \A k \in 1..h : w[k] = u[k]
  <2>1. 0 + 1 = 1 /\ 0 + h = h /\ \A i \in 1..h : 0 + i = i
    BY <1>2
  <2> QED BY <1>3, <1>4, <2>1 DEF IsPart
<1>6. PICK x : x = ToUnits(b, 2)
  OBVIOUS
<1>7. x = [i \in 1..h |-> x[i]]
  BY <1>1, <1>6 DEF ToUnits
<1>8. ASSUME NEW k \in 1..h PROVE x[k] = w[k]
  <2>1. PICK c \in Unit16 : c = u[k]
    <3>1. k \in 1..Len(u)
      BY <1>2
    <3> QED BY <3>1, ElementOfSeq
  <2>2. Two(b, k, c) /\ k \in 1..(Len(b) \div 2)
    BY <1>1, <2>1
  <2>3. ToUnits(b, 2)[k] = c
    BY <1>1, <2>2, UnitOfTwo
  <2> QED BY <1>5, <1>6, <2>1, <2>3
<1>9. w \in [1..h -> Unit16]
  BY <1>5, LenProperties
<1>10. x = w
  BY <1>7, <1>8, <1>9
<1> QED BY <1>4, <1>6, <1>10

LEMMA FourAreRead ==
    ASSUME NEW u \in Seq(Scalar), NEW h \in 0..Len(u), NEW b, ReadsFour(b, h, u)
    PROVE  ToUnits(b, 4) = SubSeq(u, 1, h)
<1>1. /\ Len(b) \in Nat /\ Len(b) \div 4 = h /\ \A k \in 1..h : Four(b, k, u[k])
  BY DEF ReadsFour
<1>2. h \in Nat /\ 0 + h <= Len(u)
  BY LenProperties
<1>3. IsPart(SubSeq(u, 0 + 1, 0 + h), u, 0, h, Scalar)
  BY <1>2, PartOfText
<1>4. PICK w : w = SubSeq(u, 1, h)
  OBVIOUS
<1>5. w \in Seq(Scalar) /\ Len(w) = h /\ \A k \in 1..h : w[k] = u[k]
  <2>1. 0 + 1 = 1 /\ 0 + h = h /\ \A i \in 1..h : 0 + i = i
    BY <1>2
  <2> QED BY <1>3, <1>4, <2>1 DEF IsPart
<1>6. PICK x : x = ToUnits(b, 4)
  OBVIOUS
<1>7. x = [i \in 1..h |-> x[i]]
  BY <1>1, <1>6, SMT DEF ToUnits
<1>8. ASSUME NEW k \in 1..h PROVE x[k] = w[k]
  <2>1. PICK c \in Scalar : c = u[k]
    <3>1. k \in 1..Len(u)
      BY <1>2
    <3> QED BY <3>1, ElementOfSeq
  <2>2. Four(b, k, c) /\ k \in 1..(Len(b) \div 4)
    BY <1>1, <2>1
  <2>3. ToUnits(b, 4)[k] = c
    BY <1>1, <2>2, UnitOfFour
  <2> QED BY <1>5, <1>6, <2>1, <2>3
<1>9. w \in [1..h -> Scalar]
  BY <1>5, LenProperties
<1>10. x = w
  BY <1>7, <1>8, <1>9
<1> QED BY <1>4, <1>6, <1>10

LEMMA TwoBytesAreRead ==
    ASSUME NEW u \in Seq(Unit16), NEW e, NEW r \in 0..(Len(u) * 2)
    PROVE  ToUnits(Ordered(SubSeq(Ordered(ToBytes(u, 2), 2, e), 1, r), 2, e), 2)
             = SubSeq(u, 1, r \div 2)
<1>0. Unit16 \subseteq Nat
  BY SMT DEF Unit16
<1>1. PICK n \in Nat : n = Len(u)
  BY LenProperties
<1>2. u \in Seq(Nat)
  <2>1. u \in [1..n -> Unit16]
    BY <1>1, LenProperties
  <2>2. u \in [1..n -> Nat]
    BY <1>0, <2>1
  <2> QED BY <2>2, SeqDef
<1>3. PICK b \in Seq(Byte) : b = ToBytes(u, 2)
  BY <1>2, ToBytesIsBytes
<1>4. Len(b) = n * 2 /\ \A k \in 1..n : Two(b, k, u[k])
  BY <1>1, <1>2, <1>3, LengthOfToBytes, BytesOfTwo
<1>5. PICK h \in Nat : h = r \div 2 /\ h <= n /\ 2 * h <= r /\ r <= (2 * h) + 1 /\ r <= n * 2
  BY <1>1
<1>6. \A k \in 1..h : k \in 1..n /\ 2*k - 1 \in 1..r /\ 2*k \in 1..r /\ k \in 1..((n * 2) \div 2)
  BY <1>5
<1>7. CASE e \notin BigEnd
  <2>1. PICK c : c = SubSeq(b, 1, r)
    OBVIOUS
  <2>2. Len(c) = r /\ \A i \in 1..r : c[i] = b[i]
    BY <1>1, <1>4, <2>1, FirstBytes
  <2>3. \A k \in 1..h : Two(c, k, u[k])
    BY <1>4, <1>6, <2>2 DEF Two
  <2>4. ReadsTwo(c, h, u)
    BY <1>5, <2>2, <2>3 DEF ReadsTwo
  <2>5. ToUnits(c, 2) = SubSeq(u, 1, h)
    BY <1>1, <1>5, <2>4, TwoAreRead
  <2>6. Ordered(SubSeq(Ordered(ToBytes(u, 2), 2, e), 1, r), 2, e) = c
    BY <1>3, <1>7, <2>1 DEF Ordered
  <2> QED BY <1>5, <2>5, <2>6
<1>8. CASE e \in BigEnd
  <2>1. PICK a \in Seq(Byte) : a = SwapUnits(b, 2)
    BY SwapUnitsIsBytes
  <2>2. Ordered(ToBytes(u, 2), 2, e) = a
    BY <1>3, <1>8, <2>1 DEF Ordered
  <2>3. Len(a) = n * 2
    BY <1>1, <1>2, <2>2, LengthOfToBytes
  <2>4. \A k \in 1..h : TwoSwapped(a, k, u[k])
    <3>1. Len(b) \in Nat /\ \A k \in 1..h : k \in 1..(Len(b) \div 2)
      BY <1>4, <1>6
    <3> QED BY <1>4, <1>6, <2>1, <3>1, SwapTwo
  <2>5. PICK c \in Seq(Byte) : c = SubSeq(a, 1, r)
    BY <1>1, <2>3, FirstBytes
  <2>6. Len(c) = r /\ \A i \in 1..r : c[i] = a[i]
    BY <1>1, <2>3, <2>5, FirstBytes
  <2>7. \A k \in 1..h : TwoSwapped(c, k, u[k])
    BY <1>6, <2>4, <2>6 DEF TwoSwapped
  <2>8. PICK f \in Seq(Byte) : f = SwapUnits(c, 2)
    BY SwapUnitsIsBytes
  <2>9. \A k \in 1..h : Two(f, k, u[k])
    <3>1. Len(c) \in Nat /\ \A k \in 1..h : k \in 1..(Len(c) \div 2)
      BY <1>5, <2>6
    <3> QED BY <2>7, <2>8, <3>1, SwapTwo
  <2>10. Len(f) = h * 2
    <3>1. DOMAIN f = 1..(h * 2)
      BY <1>5, <2>6, <2>8 DEF SwapUnits
    <3>2. DOMAIN f = 1..Len(f) /\ Len(f) \in Nat
      BY LenProperties
    <3> QED BY <3>1, <3>2
  <2>11. Len(f) \in Nat /\ Len(f) \div 2 = h
    BY <2>10
  <2>12. ReadsTwo(f, h, u)
    BY <2>9, <2>11 DEF ReadsTwo
  <2>13. ToUnits(f, 2) = SubSeq(u, 1, h)
    BY <1>1, <1>5, <2>12, TwoAreRead
  <2>14. Ordered(SubSeq(Ordered(ToBytes(u, 2), 2, e), 1, r), 2, e) = f
    BY <1>8, <2>2, <2>5, <2>8 DEF Ordered
  <2> QED BY <1>5, <2>13, <2>14
<1> QED BY <1>7, <1>8

LEMMA FourBytesAreRead ==
    ASSUME NEW u \in Seq(Scalar), NEW e, NEW r \in 0..(Len(u) * 4)
    PROVE  ToUnits(Ordered(SubSeq(Ordered(ToBytes(u, 4), 4, e), 1, r), 4, e), 4)
             = SubSeq(u, 1, r \div 4)
<1>0. Scalar \subseteq Nat
  BY SMT DEF Scalar
<1>1. PICK n \in Nat : n = Len(u)
  BY LenProperties
<1>2. u \in Seq(Nat)
  <2>1. u \in [1..n -> Scalar]
    BY <1>1, LenProperties
  <2>2. u \in [1..n -> Nat]
    BY <1>0, <2>1
  <2> QED BY <2>2, SeqDef
<1>3. PICK b \in Seq(Byte) : b = ToBytes(u, 4)
  BY <1>2, ToBytesIsBytes
<1>4. Len(b) = n * 4 /\ \A k \in 1..n : Four(b, k, u[k])
  BY <1>1, <1>2, <1>3, LengthOfToBytes, BytesOfFour
<1>5. PICK h \in Nat : h = r \div 4 /\ h <= n /\ 4 * h <= r /\ r <= (4 * h) + 3 /\ r <= n * 4
  BY <1>1
<1>6. \A k \in 1..h : k \in 1..n /\ {4*k - 3, 4*k - 2, 4*k - 1, 4*k} \subseteq 1..r /\ k \in 1..((n * 4) \div 4)
  BY <1>5
<1>7. CASE e \notin BigEnd
  <2>1. PICK c : c = SubSeq(b, 1, r)
    OBVIOUS
  <2>2. Len(c) = r /\ \A i \in 1..r : c[i] = b[i]
    BY <1>1, <1>4, <2>1, FirstBytes
  <2>3. \A k \in 1..h : Four(c, k, u[k])
    BY <1>4, <1>6, <2>2 DEF Four
  <2>4. ReadsFour(c, h, u)
    BY <1>5, <2>2, <2>3 DEF ReadsFour
  <2>5. ToUnits(c, 4) = SubSeq(u, 1, h)
    BY <1>1, <1>5, <2>4, FourAreRead
  <2>6. Ordered(SubSeq(Ordered(ToBytes(u, 4), 4, e), 1, r), 4, e) = c
    BY <1>3, <1>7, <2>1 DEF Ordered
  <2> QED BY <1>5, <2>5, <2>6
<1>8. CASE e \in BigEnd
  <2>1. PICK a \in Seq(Byte) : a = SwapUnits(b, 4)
    BY SwapUnitsIsBytes
  <2>2. Ordered(ToBytes(u, 4), 4, e) = a
    BY <1>3, <1>8, <2>1 DEF Ordered
  <2>3. Len(a) = n * 4
    BY <1>1, <1>2, <2>2, LengthOfToBytes
  <2>4. \A k \in 1..h : FourSwapped(a, k, u[k])
    <3>1. Len(b) \in Nat /\ \A k \in 1..h : k \in 1..(Len(b) \div 4)
      BY <1>4, <1>6
    <3> QED BY <1>4, <1>6, <2>1, <3>1, SwapFour
  <2>5. PICK c \in Seq(Byte) : c = SubSeq(a, 1, r)
    BY <1>1, <2>3, FirstBytes
  <2>6. Len(c) = r /\ \A i \in 1..r : c[i] = a[i]
    BY <1>1, <2>3, <2>5, FirstBytes
  <2>7. \A k \in 1..h : FourSwapped(c, k, u[k])
    BY <1>6, <2>4, <2>6 DEF FourSwapped
  <2>8. PICK f \in Seq(Byte) : f = SwapUnits(c, 4)
    BY SwapUnitsIsBytes
  <2>9. \A k \in 1..h : Four(f, k, u[k])
    <3>1. Len(c) \in Nat /\ \A k \in 1..h : k \in 1..(Len(c) \div 4)
      BY <1>5, <2>6
    <3> QED BY <2>7, <2>8, <3>1, SwapFour
  <2>10. Len(f) = h * 4
    <3>1. DOMAIN f = 1..(h * 4)
      BY <1>5, <2>6, <2>8 DEF SwapUnits
    <3>2. DOMAIN f = 1..Len(f) /\ Len(f) \in Nat
      BY LenProperties
    <3> QED BY <3>1, <3>2
  <2>11. Len(f) \in Nat /\ Len(f) \div 4 = h
    BY <2>10
  <2>12. ReadsFour(f, h, u)
    BY <2>9, <2>11 DEF ReadsFour
  <2>13. ToUnits(f, 4) = SubSeq(u, 1, h)
    BY <1>1, <1>5, <2>12, FourAreRead
  <2>14. Ordered(SubSeq(Ordered(ToBytes(u, 4), 4, e), 1, r), 4, e) = f
    BY <1>8, <2>2, <2>5, <2>8 DEF Ordered
  <2> QED BY <1>5, <2>13, <2>14
<1> QED BY <1>7, <1>8

-----------------------------------------------------------------------------
(* UTF-16 and UTF-32 with a byte order mark are those of a marked text.    *)

LEMMA ConcatIsText ==
    ASSUME NEW x, IsText(x), NEW y, IsText(y)
    PROVE  IsText(x \o y)
<1>1. PICK m \in Nat, n \in Nat : m = Len(x) /\ n = Len(y)
  BY TextElements
<1>2. /\ x \in Seq(Nat) /\ y \in Seq(Nat)
      /\ \A i \in 1..m : IsCodePoint(x[i])
      /\ \A i \in 1..n : IsCodePoint(y[i])
  BY <1>1, TextElements
<1>3. PICK z \in Seq(Nat) : z = x \o y
  BY <1>2, ConcatProperties
<1>4. Len(z) = m + n /\ \A i \in 1..(m + n) : z[i] = IF i <= m THEN x[i] ELSE y[i - m]
  <2>1. /\ Len(x \o y) = Len(x) + Len(y)
        /\ \A i \in 1..(Len(x) + Len(y)) :
               (x \o y)[i] = IF i <= Len(x) THEN x[i] ELSE y[i - Len(x)]
    BY <1>2, ConcatProperties
  <2> QED BY <1>1, <1>3, <2>1
<1>5. \A i \in 1..(m + n) : (i <= m => i \in 1..m) /\ (~(i <= m) => i - m \in 1..n)
  OBVIOUS
<1>6. \A i \in 1..(m + n) : IsCodePoint(z[i])
  BY <1>2, <1>4, <1>5
<1>7. DOMAIN z = 1..(m + n)
  BY <1>4, LenProperties
<1>8. IsText(z)
  BY <1>6, <1>7 DEF IsText
<1> QED BY <1>3, <1>8

LEMMA UTF16OfConcat ==
    ASSUME NEW x, IsText(x), NEW y, IsText(y)
    PROVE  ToUTF16(x \o y) = ToUTF16(x) \o ToUTF16(y)
<1> DEFINE U == Seq(Unit16)
<1>0. x \in Seq(Nat) /\ y \in Seq(Nat)
  BY TextElements
<1>1. PICK m \in Nat, n \in Nat : m = Len(x) /\ n = Len(y)
  BY TextElements
<1>2. PICK z : z = x \o y /\ IsText(z)
  BY ConcatIsText
<1>3. Len(z) = m + n /\ \A i \in 1..(m + n) : z[i] = IF i <= m THEN x[i] ELSE y[i - m]
  <2>1. /\ Len(x \o y) = Len(x) + Len(y)
        /\ \A i \in 1..(Len(x) + Len(y)) :
               (x \o y)[i] = IF i <= Len(x) THEN x[i] ELSE y[i - Len(x)]
    BY <1>0, ConcatProperties
  <2> QED BY <1>1, <1>2, <2>1
<1>4. /\ DOMAIN x = 1..m /\ DOMAIN y = 1..n /\ DOMAIN z = 1..(m + n)
      /\ \A i \in 1..m : IsCodePoint(x[i])
      /\ \A i \in 1..n : IsCodePoint(y[i])
      /\ \A i \in 1..(m + n) : IsCodePoint(z[i])
  BY <1>1, <1>2, <1>3, TextElements
<1>5. \A c : IsCodePoint(c) => UTF16Units(c) \in U
  BY UTF16UnitsFeed
<1> HIDE DEF U
<1>6. PICK r, s, q : /\ r = [i \in 1..m |-> UTF16Units(x[i])]
                     /\ s = [i \in 1..n |-> UTF16Units(y[i])]
                     /\ q = [i \in 1..(m + n) |-> UTF16Units(z[i])]
  OBVIOUS
<1>7. r \in Seq(U) /\ s \in Seq(U) /\ q \in Seq(U)
  <2>1. r \in [1..m -> U] /\ s \in [1..n -> U] /\ q \in [1..(m + n) -> U]
    BY <1>4, <1>5, <1>6
  <2>2. m + n \in Nat
    OBVIOUS
  <2>3. r \in Seq(U)
    BY <2>1, SeqDef
  <2>4. s \in Seq(U)
    BY <2>1, SeqDef
  <2>5. q \in Seq(U)
    BY <2>1, <2>2, SeqDef
  <2> QED BY <2>3, <2>4, <2>5
<1>8. Len(r) = m /\ Len(s) = n /\ Len(q) = m + n
  <2>1. DOMAIN r = 1..m /\ DOMAIN s = 1..n /\ DOMAIN q = 1..(m + n)
    BY <1>6
  <2> QED BY <1>7, <2>1, LenProperties
<1>9. q = r \o s
  <2>1. PICK w \in Seq(U) : w = r \o s
    BY <1>7, ConcatProperties
  <2>2. Len(w) = m + n /\ \A i \in 1..(m + n) : w[i] = IF i <= m THEN r[i] ELSE s[i - m]
    <3>1. /\ Len(r \o s) = Len(r) + Len(s)
          /\ \A i \in 1..(Len(r) + Len(s)) :
                 (r \o s)[i] = IF i <= Len(r) THEN r[i] ELSE s[i - Len(r)]
      BY <1>7, ConcatProperties
    <3> QED BY <1>8, <2>1, <3>1
  <2>3. \A i \in 1..(m + n) : (i <= m => i \in 1..m) /\ (~(i <= m) => i - m \in 1..n)
    OBVIOUS
  <2>4. \A i \in 1..(m + n) : q[i] = w[i]
    BY <1>3, <1>6, <2>2, <2>3
  <2>5. q = w
    BY <1>7, <1>8, <2>2, <2>4, SeqEqual
  <2> QED BY <2>1, <2>5
<1>10. FlattenSeq(q) = FlattenSeq(r) \o FlattenSeq(s)
  <2>1. FlattenSeq(r \o s) = FlattenSeq(r) \o FlattenSeq(s)
    BY <1>7, JoinOfConcat DEF U
  <2> QED BY <1>9, <2>1
<1>11. ToUTF16(x) = FlattenSeq(r) /\ ToUTF16(y) = FlattenSeq(s) /\ ToUTF16(z) = FlattenSeq(q)
  BY <1>4, <1>6 DEF ToUTF16
<1> QED BY <1>2, <1>10, <1>11

LEMMA UTF16OfMark ==
    ASSUME NEW options
    PROVE  IsText(MarkUnit(options)) /\ ToUTF16(MarkUnit(options)) = MarkUnit(options)
<1>1. PICK c \in Nat : c = Mark
  BY SMT DEF Mark
<1>2. IsCodePoint(c)
  BY <1>1, SMT DEF IsCodePoint, Mark
<1>3. UTF16Units(c) = <<c>>
  BY <1>1, SMT DEF UTF16Units, Mark
<1>4. IsText(<<c>>)
  <2>1. <<c>> \in Seq(Nat) /\ DOMAIN <<c>> = {1} /\ <<c>>[1] = c
    OBVIOUS
  <2> QED BY <1>2, <2>1 DEF IsText
<1>5. ToUTF16(<<c>>) = <<c>>
  <2>1. [i \in DOMAIN <<c>> |-> UTF16Units(<<c>>[i])] = <<<<c>>>>
    BY <1>3
  <2>2. FlattenSeq(<<<<c>>>>) = <<c>>
    <3>1. <<c>> \in Seq(Nat)
      OBVIOUS
    <3> QED BY <3>1, JoinOfOne
  <2> QED BY <2>1, <2>2 DEF ToUTF16
<1>6. ToUTF16(<<>>) = <<>>
  <2>1. [i \in DOMAIN <<>> |-> UTF16Units(<<>>[i])] = <<>>
    OBVIOUS
  <2> QED BY <2>1, JoinOfNone DEF ToUTF16
<1>7. MarkUnit(options) = <<c>> \/ MarkUnit(options) = <<>>
  BY <1>1 DEF MarkUnit
<1> QED BY <1>4, <1>5, <1>6, <1>7, EmptyIsText

-----------------------------------------------------------------------------
(* What an import makes of the bytes.                                      *)

(* The text of a decoder that was fed with the encoded v.                  *)
Brings(d, v, whole) == /\ IsStart(d.text, v)
                       /\ whole => d.text = v /\ d.due = 0

(* o was made of the units of v, which is t but for marks.                 *)
Reads(o, v, t, whole) ==
    /\ IsText(v) /\ LosesMarks(Body(v), t)
    /\ \/ o = Empty /\ (whole => v = <<>>)
       \/ \E d : Brings(d, v, whole) /\ (o = Decoded(d) \/ o = DecodedUTF16(d))

Returns(o, t, whole) ==
    IF whole THEN o # Rejected /\ LosesMarks(o.units, t)
    ELSE o = Rejected \/ IsPrefix(Unmarked(o.units), Unmarked(t))

LEMMA UnitsOfObjects ==
    ASSUME NEW t
    PROVE  /\ Packed(t).units = t /\ NewASCII(t).units = t /\ UTF16(t).units = t
           /\ UTF32(t).units = t /\ Empty.units = <<>>
BY DEF Packed, Char7String, Char5String, NewASCII, UTF16, UTF32, Empty, Object

LEMMA UnitsOfNewString ==
    ASSUME NEW t
    PROVE  NewString(t).units = Body(t)
<1>1. t = <<>> => Body(t) = <<>>
  BY DEF Body
<1>2. PICK b : b = Body(t)
  OBVIOUS
<1>3. NewString(t) = IF t = <<>> THEN Empty ELSE IF FitsPointer(b) THEN Packed(b)
                     ELSE IF IsAscii(b) THEN NewASCII(b)
                     ELSE IF IsUTF15(b) THEN UTF16(b) ELSE UTF32(b)
  BY <1>2 DEF NewString
<1> QED BY <1>1, <1>2, <1>3, UnitsOfObjects, Zenon

LEMMA UnitsOfUTF16 ==
    ASSUME NEW t
    PROVE  \/ InitWithUTF16Characters(t).units = Body(t)
           \/ InitWithUTF16Characters(t).units = Body(Body(t))
<1>1. PICK b, c : b = Body(t) /\ c = Body(b)
  OBVIOUS
<1>2. InitWithCharactersNoCopy(b) = IF c = <<>> THEN Empty
                                    ELSE IF c # b THEN NewString(b) ELSE UTF32(b)
  BY <1>1 DEF InitWithCharactersNoCopy
<1>3. \/ InitWithCharactersNoCopy(b).units = b
      \/ InitWithCharactersNoCopy(b).units = c
  BY <1>1, <1>2, UnitsOfObjects, UnitsOfNewString, Zenon
<1>4. InitWithUTF16Characters(t) = IF FitsPointer(b) THEN Packed(b)
                                   ELSE IF IsUTF15(b) THEN UTF16(b)
                                   ELSE InitWithCharactersNoCopy(b)
  BY <1>1 DEF InitWithUTF16Characters
<1> QED BY <1>1, <1>3, <1>4, UnitsOfObjects, Zenon

LEMMA RejectedIsNoString == ASSUME NEW s, Stored(s) PROVE s # Rejected
<1>1. Rejected.class \notin Classes
  BY DEF Rejected, Classes, Tagged, ASCII
<1> QED BY <1>1, StoredParts

LEMMA DecodedUnits ==
    ASSUME NEW d, NEW o, o = Decoded(d) \/ o = DecodedUTF16(d)
    PROVE  /\ d.due = 0 /\ IsText(d.text) => o # Rejected
           /\ o # Rejected => o.units = Body(d.text) \/ o.units = Body(Body(d.text))
<1>1. CASE d.due = 0 /\ IsText(d.text)
  <2>1. PICK x : x = d.text /\ IsText(x)
    BY <1>1
  <2>2. Decoded(d) = NewString(x) /\ DecodedUTF16(d) = InitWithUTF16Characters(x)
    BY <1>1, <2>1 DEF Decoded, DecodedUTF16
  <2>3. Stored(NewString(x)) /\ Stored(InitWithUTF16Characters(x))
    BY <2>1, NewStringIsStored, UTF16CharactersIsStored
  <2>4. NewString(x) # Rejected /\ InitWithUTF16Characters(x) # Rejected
    BY <2>3, RejectedIsNoString
  <2>5. o.units = Body(x) \/ o.units = Body(Body(x))
    BY <2>2, UnitsOfNewString, UnitsOfUTF16
  <2> QED BY <2>1, <2>2, <2>4, <2>5
<1>2. CASE ~(d.due = 0 /\ IsText(d.text))
  <2>1. o = Rejected
    BY <1>2 DEF Decoded, DecodedUTF16
  <2> QED BY <1>2, <2>1
<1> QED BY <1>1, <1>2

LEMMA StartIsText == ASSUME NEW t \in Seq(Nat), NEW x, IsStart(x, t) PROVE x \in Seq(Nat)
BY Firsts DEF IsStart

LEMMA ReadingReturns ==
    ASSUME NEW t, IsText(t), NEW v, NEW o, NEW whole, Reads(o, v, t, whole)
    PROVE  Returns(o, t, whole)
<1>1. IsText(v) /\ LosesMarks(Body(v), t)
  BY DEF Reads
<1>2. v \in Seq(Nat) /\ t \in Seq(Nat)
  BY <1>1, TextElements
<1>3. Unmarked(v) = Unmarked(t)
  BY <1>1, <1>2, BodyLosesMarks DEF LosesMarks
<1>4. CASE o = Empty /\ (whole => v = <<>>)
  <2>1. o # Rejected
    BY <1>4, EmptyIsStored, RejectedIsNoString
  <2>2. o.units = <<>>
    BY <1>4, UnitsOfObjects
  <2>3. CASE whole
    <3>1. Body(v) = <<>>
      BY <1>4, <2>3 DEF Body
    <3> QED BY <1>1, <2>1, <2>2, <2>3, <3>1 DEF Returns
  <2>4. CASE ~whole
    <3>1. IsStart(<<>>, t)
      <4>1. 0 \in 0..Len(t) /\ <<>> = First(t, 0)
        BY <1>2, LenProperties, Firsts
      <4> QED BY <4>1 DEF IsStart
    <3>2. IsPrefix(Unmarked(<<>>), Unmarked(t))
      BY <1>2, <3>1, StartUnmarked
    <3> QED BY <2>2, <2>4, <3>2 DEF Returns
  <2> QED BY <2>3, <2>4
<1>5. CASE \E d : Brings(d, v, whole) /\ (o = Decoded(d) \/ o = DecodedUTF16(d))
  <2>1. PICK d : Brings(d, v, whole) /\ (o = Decoded(d) \/ o = DecodedUTF16(d))
    BY <1>5
  <2>2. PICK x : x = d.text
    OBVIOUS
  <2>3. IsStart(x, v) /\ (whole => x = v /\ d.due = 0)
    BY <2>1, <2>2 DEF Brings
  <2>4. /\ d.due = 0 /\ IsText(x) => o # Rejected
        /\ o # Rejected => o.units = Body(x) \/ o.units = Body(Body(x))
    BY <2>1, <2>2, DecodedUnits
  <2>5. x \in Seq(Nat)
    BY <1>2, <2>3, StartIsText
  <2>6. LosesMarks(Body(x), x) /\ LosesMarks(Body(Body(x)), Body(x))
    <3>1. LosesMarks(Body(x), x)
      BY <2>5, BodyLosesMarks
    <3>2. Body(x) \in Seq(Nat)
      BY <3>1 DEF LosesMarks
    <3> QED BY <3>1, <3>2, BodyLosesMarks
  <2>7. CASE whole
    <3>1. x = v /\ o # Rejected
      BY <1>1, <2>3, <2>4, <2>7
    <3>2. LosesMarks(Body(x), t)
      BY <1>1, <3>1
    <3>3. LosesMarks(Body(Body(x)), t)
      BY <2>6, <3>2, MarksLostTwice
    <3>4. LosesMarks(o.units, t)
      BY <2>4, <3>1, <3>2, <3>3, Zenon
    <3> QED BY <2>7, <3>1, <3>4 DEF Returns
  <2>8. CASE ~whole
    <3>1. ASSUME o # Rejected PROVE IsPrefix(Unmarked(o.units), Unmarked(t))
      <4>1. Unmarked(Body(x)) = Unmarked(x) /\ Unmarked(Body(Body(x))) = Unmarked(x)
        BY <2>6 DEF LosesMarks
      <4>2. Unmarked(o.units) = Unmarked(x)
        BY <2>4, <3>1, <4>1, Zenon
      <4>3. IsPrefix(Unmarked(x), Unmarked(v))
        BY <1>2, <2>3, StartUnmarked
      <4> QED BY <1>3, <4>2, <4>3
    <3> QED BY <2>8, <3>1 DEF Returns
  <2> QED BY <2>7, <2>8
<1> QED BY <1>4, <1>5 DEF Reads

(* An import reads the text that was exported, up to where it was cut off. *)
Back(s, e, options, whole) ==
    \A all, r : /\ Exported(s, e, options) = Bytes(all) /\ all \in Seq(Byte)
                /\ r \in 0..Len(all) /\ (whole => r = Len(all))
                => \E v : Reads(Imported(SubSeq(all, 1, r), e), v, s.units, whole)

LEMMA ReadingOfNone ==
    ASSUME NEW v, IsText(v), NEW t, LosesMarks(Body(v), t), NEW whole, NEW e,
           NEW b, b = <<>>, whole => Len(v) = 0
    PROVE  Reads(Imported(b, e), v, t, whole)
<1>1. Imported(b, e) = Empty
  BY DEF Imported
<1>2. whole => v = <<>>
  BY TextElements, EmptySeq
<1> QED BY <1>1, <1>2 DEF Reads

LEMMA ReadingOfSome ==
    ASSUME NEW v, IsText(v), NEW t, LosesMarks(Body(v), t), NEW whole,
           NEW d, Brings(d, v, whole), NEW o, o = Decoded(d) \/ o = DecodedUTF16(d)
    PROVE  Reads(o, v, t, whole)
BY DEF Reads

LEMMA BringsRestored ==
    ASSUME NEW d, NEW r \in Nat, NEW n \in Nat, NEW v \in Seq(Nat), Restores(d, r, n, v),
           NEW whole, whole => r = n
    PROVE  Brings(d, v, whole)
<1>1. IsStart(d.text, v) /\ (whole => d = Idle(v))
  BY DEF Restores
<1> QED BY <1>1, IdleIsDecoder DEF Brings

LEMMA BringsFirst ==
    ASSUME NEW v \in Seq(Nat), NEW r \in 0..Len(v), NEW whole, whole => r = Len(v),
           NEW d, d.text = SubSeq(v, 1, r), d.due = 0
    PROVE  Brings(d, v, whole)
<1>1. IsStart(d.text, v)
  BY DEF IsStart, First
<1>2. whole => d.text = v
  BY Firsts DEF First
<1> QED BY <1>1, <1>2 DEF Brings

LEMMA UnitsLoseMarks ==
    ASSUME NEW s, Stored(s)
    PROVE  /\ IsText(s.units) /\ s.units \in Seq(Nat) /\ LosesMarks(Body(s.units), s.units)
           /\ IsText(Body(s.units)) /\ LosesMarks(Body(Body(s.units)), s.units)
<1>1. IsText(s.units) /\ s.units \in Seq(Nat) /\ IsText(Body(s.units))
  BY StoredParts, TextElements, BodyIsText
<1>2. LosesMarks(Body(s.units), s.units)
  BY <1>1, BodyLosesMarks
<1>3. LosesMarks(Body(Body(s.units)), Body(s.units))
  BY <1>1, TextElements, BodyLosesMarks
<1> QED BY <1>1, <1>2, <1>3, MarksLostTwice

LEMMA UTF8Back ==
    ASSUME NEW s, Stored(s), NEW e \in {"ASCII", "UTF8"}, NEW options,
           "TerminateWithZero" \notin options, "BOM" \notin options \/ e = "ASCII",
           NEW whole
    PROVE  Back(s, e, options, whole)
<1> SUFFICES ASSUME NEW all, NEW r, Exported(s, e, options) = Bytes(all), all \in Seq(Byte),
                    r \in 0..Len(all), whole => r = Len(all)
             PROVE  \E v : Reads(Imported(SubSeq(all, 1, r), e), v, s.units, whole)
  BY DEF Back
<1>1. PICK v : v = s.units /\ IsText(v) /\ v \in Seq(Nat) /\ LosesMarks(Body(v), v)
  BY UnitsLoseMarks
<1>2. v \in Seq(Scalar) /\ Len(v) \in Nat
  BY <1>1, TextsAreScalars, TextElements
<1>3. PICK x \in Seq(0..255) : x = ToUTF8(v)
  BY <1>2, LengthOfUTF8
<1>4. Exported(s, e, options) = Bytes(x) \/ Exported(s, e, options) = Refused
  <2>1. Zero(options) = <<>> /\ x \o <<>> = x /\ <<>> \o x = x
    BY ConcatEmptySeq DEF Zero
  <2>2. CASE e = "ASCII"
    <3>1. Exported(s, e, options) = ASCIIData(s, options)
      BY <2>2 DEF Exported
    <3>2. ASCIIData(s, options) = Bytes(x \o Zero(options)) \/ ASCIIData(s, options) = Refused
      BY <1>1, <1>3 DEF ASCIIData
    <3> QED BY <2>1, <3>1, <3>2
  <2>3. CASE e = "UTF8"
    <3>1. "BOM" \notin options
      BY <2>3
    <3>2. Exported(s, e, options) = Bytes(UTF8Data(s, options))
      BY <2>3 DEF Exported
    <3>3. UTF8Data(s, options) = <<>> \o x \o Zero(options)
      BY <1>1, <1>3, <3>1 DEF UTF8Data
    <3> QED BY <2>1, <3>2, <3>3
  <2> QED BY <2>2, <2>3
<1>5. all = x
  BY <1>4, Results
<1>6. PICK b : b = SubSeq(all, 1, r)
  OBVIOUS
<1>7. Len(x) \in Nat /\ Len(x) >= Len(v) /\ r \in 0..Len(x) /\ Len(b) = r
  BY <1>2, <1>3, <1>5, <1>6, LengthOfUTF8, FirstBytes
<1>8. CASE b = <<>>
  <2>1. r = 0
    BY <1>7, <1>8
  <2>2. whole => Len(v) = 0
    BY <1>2, <1>5, <1>7, <2>1
  <2> QED BY <1>1, <1>6, <1>8, <2>2, ReadingOfNone
<1>9. CASE b # <<>>
  <2>1. PICK d : d = FromUTF8(b)
    OBVIOUS
  <2>2. Restores(FromUTF8(SubSeq(ToUTF8(v), 1, r)), r, Len(ToUTF8(v)), v)
    BY <1>2, <1>3, <1>7, UTF8Restores
  <2>3. Restores(d, r, Len(x), v)
    BY <1>3, <1>5, <1>6, <2>1, <2>2
  <2>4. whole => r = Len(x)
    BY <1>5
  <2>5. Brings(d, v, whole)
    BY <1>1, <1>7, <2>3, <2>4, BringsRestored
  <2>6. Imported(b, e) = Decoded(d)
    BY <1>9, <2>1 DEF Imported
  <2>7. Reads(Imported(b, e), v, s.units, whole)
    BY <1>1, <2>5, <2>6, ReadingOfSome
  <2> QED BY <1>6, <2>7
<1> QED BY <1>8, <1>9

(* ISO Latin 1 has no byte order mark, so an export with one is refused.   *)
LEMMA ISO1HasNoMark ==
    ASSUME NEW t \in Seq(0..255), NEW x \in Seq(Nat), NEW options, t = Written(options) \o x
    PROVE  "BOM" \notin options
<1> SUFFICES ASSUME "BOM" \in options PROVE FALSE
  OBVIOUS
<1>1. PICK c \in Nat : c = 65276
  BY SMT
<1>2. Written(options) = <<c>>
  BY <1>1 DEF Written
<1>3. <<c>> \in Seq(Nat) /\ Len(<<c>>) = 1 /\ <<c>>[1] = c /\ Len(x) \in Nat
  BY LenProperties
<1>4. PICK y : y = <<c>> \o x
  OBVIOUS
<1>5. Len(y) = 1 + Len(x) /\ \A i \in 1..(1 + Len(x)) : y[i] = IF i <= 1 THEN <<c>>[i] ELSE x[i - 1]
  BY <1>3, <1>4, ConcatProperties
<1>6. 1 \in 1..(1 + Len(x)) /\ y[1] = c
  BY <1>3, <1>5
<1>7. t[1] = c /\ 1 \in 1..Len(t)
  BY <1>2, <1>4, <1>5, <1>6
<1>8. t[1] \in 0..255
  BY <1>7, ElementOfSeq
<1>9. c \notin 0..255
  BY <1>1, SMT
<1> QED BY <1>7, <1>8, <1>9

LEMMA ISO1Back ==
    ASSUME NEW s, Stored(s), NEW options, "TerminateWithZero" \notin options, NEW whole
    PROVE  Back(s, "ISO1", options, whole)
<1> SUFFICES ASSUME NEW all, NEW r, Exported(s, "ISO1", options) = Bytes(all),
                    all \in Seq(Byte), r \in 0..Len(all), whole => r = Len(all)
             PROVE  \E v : Reads(Imported(SubSeq(all, 1, r), "ISO1"), v, s.units, whole)
  BY DEF Back
<1>1. PICK v : v = s.units /\ IsText(v) /\ v \in Seq(Nat) /\ LosesMarks(Body(v), v)
  BY UnitsLoseMarks
<1>2. all \in Seq(0..255) /\ all = FromUTF8(UTF8Data(s, options)).text
  <2>1. PICK t : t = FromUTF8(UTF8Data(s, options)).text
    OBVIOUS
  <2>2. Exported(s, "ISO1", options) = IF t \in Seq(0..255) THEN Bytes(t) ELSE Refused
    BY <2>1 DEF Exported, ISO1Data
  <2> QED BY <2>1, <2>2, Results
<1>3. PICK m \in Seq(Nat) : m = Written(options)
  BY WrittenMark, ScalarsAreNumbers
<1>4. all = m \o v
  <2>1. Zero(options) = <<>>
    BY DEF Zero
  <2>2. all = m \o v \o <<>>
    BY <1>1, <1>2, <1>3, <2>1, ISO1Text
  <2>3. m \o v \in Seq(Nat)
    BY <1>1, <1>3, ConcatProperties
  <2> QED BY <2>2, <2>3, ConcatEmptySeq
<1>5. "BOM" \notin options
  BY <1>1, <1>2, <1>3, <1>4, ISO1HasNoMark
<1>6. all = v
  <2>1. m = <<>>
    BY <1>3, <1>5 DEF Written
  <2> QED BY <1>1, <1>4, <2>1, ConcatEmptySeq
<1>7. PICK b : b = SubSeq(all, 1, r)
  OBVIOUS
<1>8. Len(b) = r /\ Len(v) \in Nat
  BY <1>1, <1>7, FirstBytes, TextElements
<1>9. CASE b = <<>>
  <2>1. whole => Len(v) = 0
    BY <1>6, <1>8, <1>9
  <2> QED BY <1>1, <1>7, <1>9, <2>1, ReadingOfNone
<1>10. CASE b # <<>>
  <2>1. PICK d : d = FromISO1(b)
    OBVIOUS
  <2>2. d.text = SubSeq(v, 1, r) /\ d.due = 0
    BY <1>6, <1>7, <2>1 DEF FromISO1
  <2>3. Brings(d, v, whole)
    BY <1>1, <1>6, <2>2, BringsFirst
  <2>4. Imported(b, "ISO1") = Decoded(d)
    BY <1>10, <2>1 DEF Imported
  <2>5. Reads(Imported(b, "ISO1"), v, s.units, whole)
    BY <1>1, <2>3, <2>4, ReadingOfSome
  <2> QED BY <1>7, <2>5
<1> QED BY <1>9, <1>10

(* The marked texts that the wide encodings stand for.                     *)
LEMMA WideTexts ==
    ASSUME NEW s, Stored(s), NEW options
    PROVE  /\ IsText(MarkUnit(options) \o Body(s.units))
           /\ LosesMarks(Body(MarkUnit(options) \o Body(s.units)), s.units)
           /\ IsText(MarkUnit(options) \o s.units)
           /\ LosesMarks(Body(MarkUnit(options) \o s.units), s.units)
<1>1. PICK t, b : t = s.units /\ b = Body(t)
  OBVIOUS
<1>2. /\ IsText(t) /\ t \in Seq(Nat) /\ LosesMarks(b, t)
      /\ IsText(b) /\ b \in Seq(Nat) /\ LosesMarks(Body(b), t)
  BY <1>1, UnitsLoseMarks, TextElements
<1>3. LosesMarks(t, t)
  BY <1>2, NothingLost
<1>4. PICK m : m = MarkUnit(options) /\ IsText(m)
  BY UTF16OfMark
<1>5. IsText(m \o b) /\ IsText(m \o t)
  BY <1>2, <1>4, ConcatIsText
<1>6. CASE m = <<Mark>>
  <2>1. Body(m \o b) = b /\ Body(m \o t) = t
    BY <1>2, <1>6, BodyOfMarkAdded
  <2> QED BY <1>1, <1>2, <1>3, <1>4, <1>5, <2>1
<1>7. CASE m = <<>>
  <2>1. m \o b = b /\ m \o t = t
    BY <1>2, <1>7, ConcatEmptySeq
  <2> QED BY <1>1, <1>2, <1>4, <1>5, <2>1
<1> QED BY <1>4, <1>6, <1>7 DEF MarkUnit

LEMMA UTF16Back ==
    ASSUME NEW s, Stored(s), NEW e \in Wide16, NEW options,
           "TerminateWithZero" \notin options, NEW whole
    PROVE  Back(s, e, options, whole)
<1> SUFFICES ASSUME NEW all, NEW r, Exported(s, e, options) = Bytes(all), all \in Seq(Byte),
                    r \in 0..Len(all), whole => r = Len(all)
             PROVE  \E v : Reads(Imported(SubSeq(all, 1, r), e), v, s.units, whole)
  BY DEF Back
<1>1. PICK v : /\ v = MarkUnit(options) \o Body(s.units)
               /\ IsText(v) /\ LosesMarks(Body(v), s.units)
  BY WideTexts
<1>2. v \in Seq(Nat) /\ Len(v) \in Nat
  BY <1>1, TextElements
<1>3. PICK u \in Seq(Unit16) : u = ToUTF16(v) /\ Len(u) \in Nat /\ Len(u) >= Len(v)
  <2>1. ASSUME NEW t, IsText(t)
        PROVE  /\ ToUTF16(t) \in Seq(Unit16) /\ Len(ToUTF16(t)) \in Nat
               /\ Len(ToUTF16(t)) >= Len(t)
    BY <2>1, LengthOfUTF16
  <2> QED BY <1>1, <2>1
<1>4. u \in Seq(Nat)
  BY <1>1, <1>3, ToUTF16IsUnits
<1>5. u = MarkUnit(options) \o ToUTF16(Body(s.units))
  <2>1. IsText(Body(s.units)) /\ IsText(MarkUnit(options))
    BY UnitsLoseMarks, UTF16OfMark
  <2>2. ToUTF16(MarkUnit(options) \o Body(s.units))
          = ToUTF16(MarkUnit(options)) \o ToUTF16(Body(s.units))
    BY <2>1, UTF16OfConcat
  <2> QED BY <1>1, <1>3, <2>2, UTF16OfMark
<1>6. Exported(s, e, options) = Bytes(Ordered(ToBytes(u, 2), 2, e))
  <2>1. Exported(s, e, options) = UTF16Data(s, options, e)
    BY DEF Exported, Wide16
  <2>2. Zero(options) = <<>> /\ u \o <<>> = u
    BY ConcatEmptySeq DEF Zero
  <2>3. MarkUnit(options) \o ToUTF16(Body(s.units)) \o Zero(options) = u
    BY <1>5, <2>2
  <2> QED BY <2>1, <2>3 DEF UTF16Data
<1>7. all = Ordered(ToBytes(u, 2), 2, e)
  <2>1. Bytes(all) = Bytes(Ordered(ToBytes(u, 2), 2, e))
    BY <1>6
  <2>2. Bytes(all).bytes = all
    BY Results
  <2>3. Bytes(Ordered(ToBytes(u, 2), 2, e)).bytes = Ordered(ToBytes(u, 2), 2, e)
    BY Results
  <2> QED BY <2>1, <2>2, <2>3
<1>8. Len(all) = Len(u) * 2
  BY <1>4, <1>7, LengthOfToBytes
<1>9. PICK b : b = SubSeq(all, 1, r)
  OBVIOUS
<1>10. PICK n \in Nat, k \in Nat : n = Len(u) /\ k = Len(v) /\ k <= n
  BY <1>2, <1>3
<1>11. Len(b) = r /\ r \in 0..(n * 2) /\ (whole => r = n * 2)
  BY <1>8, <1>9, <1>10, FirstBytes
<1>12. CASE b = <<>>
  <2>1. r = 0
    BY <1>11, <1>12
  <2>2. whole => k = 0
    BY <1>10, <1>11, <2>1
  <2>3. whole => Len(v) = 0
    BY <1>10, <2>2
  <2> QED BY <1>1, <1>9, <1>12, <2>3, ReadingOfNone
<1>13. CASE b # <<>>
  <2>1. PICK h \in 0..n : h = r \div 2 /\ (whole => h = n)
    <3>1. r \div 2 \in 0..n /\ (whole => r \div 2 = n)
      BY <1>11
    <3> QED BY <3>1
  <2>2. ToUnits(Ordered(SubSeq(Ordered(ToBytes(u, 2), 2, e), 1, r), 2, e), 2)
          = SubSeq(u, 1, r \div 2)
    BY <1>10, <1>11, TwoBytesAreRead
  <2>3. ToUnits(Ordered(b, 2, e), 2) = SubSeq(u, 1, h)
    BY <1>7, <1>9, <2>1, <2>2
  <2>4. PICK d : d = FromUTF16(SubSeq(u, 1, h))
    OBVIOUS
  <2>5. Restores(FromUTF16(SubSeq(ToUTF16(v), 1, h)), h, Len(ToUTF16(v)), v)
    BY <1>1, <1>3, <1>10, UTF16Restores
  <2>6. Restores(d, h, n, v)
    BY <1>3, <1>10, <2>4, <2>5
  <2>7. Brings(d, v, whole)
    BY <1>2, <2>1, <2>6, BringsRestored
  <2>8. Imported(b, e) = DecodedUTF16(FromUTF16(ToUnits(Ordered(b, 2, e), 2)))
    BY <1>13 DEF Imported, Wide16
  <2>9. Imported(b, e) = DecodedUTF16(d)
    BY <2>3, <2>4, <2>8
  <2>10. Reads(Imported(b, e), v, s.units, whole)
    BY <1>1, <2>7, <2>9, ReadingOfSome
  <2> QED BY <1>9, <2>10
<1> QED BY <1>12, <1>13

LEMMA UTF32Back ==
    ASSUME NEW s, Stored(s), NEW e \in Wide32, NEW options,
           "TerminateWithZero" \notin options, NEW whole
    PROVE  Back(s, e, options, whole)
<1> SUFFICES ASSUME NEW all, NEW r, Exported(s, e, options) = Bytes(all), all \in Seq(Byte),
                    r \in 0..Len(all), whole => r = Len(all)
             PROVE  \E v : Reads(Imported(SubSeq(all, 1, r), e), v, s.units, whole)
  BY DEF Back
<1>1. PICK v : /\ v = MarkUnit(options) \o s.units
               /\ IsText(v) /\ LosesMarks(Body(v), s.units)
  BY WideTexts
<1>2. v \in Seq(Nat) /\ Len(v) \in Nat /\ v \in Seq(Scalar)
  BY <1>1, TextElements, TextsAreScalars
<1>3. Exported(s, e, options) = Bytes(Ordered(ToBytes(v, 4), 4, e))
  <2>1. Exported(s, e, options) = UTF32Data(s, options, e)
    BY DEF Exported, Wide16, Wide32
  <2>2. Zero(options) = <<>> /\ v \o <<>> = v
    BY <1>2, ConcatEmptySeq DEF Zero
  <2>3. MarkUnit(options) \o s.units \o Zero(options) = v
    BY <1>1, <2>2
  <2> QED BY <2>1, <2>3 DEF UTF32Data
<1>4. all = Ordered(ToBytes(v, 4), 4, e)
  <2>1. Bytes(all) = Bytes(Ordered(ToBytes(v, 4), 4, e))
    BY <1>3
  <2>2. Bytes(all).bytes = all
    BY Results
  <2>3. Bytes(Ordered(ToBytes(v, 4), 4, e)).bytes = Ordered(ToBytes(v, 4), 4, e)
    BY Results
  <2> QED BY <2>1, <2>2, <2>3
<1>5. Len(all) = Len(v) * 4
  BY <1>2, <1>4, LengthOfToBytes
<1>6. PICK b : b = SubSeq(all, 1, r)
  OBVIOUS
<1>7. PICK n \in Nat : n = Len(v)
  BY <1>2
<1>8. Len(b) = r /\ r \in 0..(n * 4) /\ (whole => r = n * 4)
  BY <1>5, <1>6, <1>7, FirstBytes
<1>9. CASE b = <<>>
  <2>1. r = 0
    BY <1>8, <1>9
  <2>2. whole => n = 0
    BY <1>8, <2>1
  <2>3. whole => Len(v) = 0
    BY <1>7, <2>2
  <2> QED BY <1>1, <1>6, <1>9, <2>3, ReadingOfNone
<1>10. CASE b # <<>>
  <2>1. PICK h \in 0..n : h = r \div 4 /\ (whole => h = n)
    <3>1. r \div 4 \in 0..n /\ (whole => r \div 4 = n)
      BY <1>8
    <3> QED BY <3>1
  <2>2. ToUnits(Ordered(SubSeq(Ordered(ToBytes(v, 4), 4, e), 1, r), 4, e), 4)
          = SubSeq(v, 1, r \div 4)
    BY <1>2, <1>7, <1>8, FourBytesAreRead
  <2>3. ToUnits(Ordered(b, 4, e), 4) = SubSeq(v, 1, h)
    BY <1>4, <1>6, <2>1, <2>2
  <2>4. PICK d : d = FromUTF32(ToUnits(Ordered(b, 4, e), 4))
    OBVIOUS
  <2>5. d.text = SubSeq(v, 1, h) /\ d.due = 0
    BY <2>3, <2>4 DEF FromUTF32
  <2>6. Brings(d, v, whole)
    BY <1>2, <1>7, <2>1, <2>5, BringsFirst
  <2>7. Imported(b, e) = Decoded(d)
    BY <1>10, <2>4 DEF Imported, Wide16, Wide32
  <2>8. Reads(Imported(b, e), v, s.units, whole)
    BY <1>1, <2>6, <2>7, ReadingOfSome
  <2> QED BY <1>6, <2>8
<1> QED BY <1>9, <1>10

LEMMA ExportedIsBytes ==
    ASSUME NEW s, NEW e, NEW options
    PROVE  Exported(s, e, options) = Refused \/ \E b : Exported(s, e, options) = Bytes(b)
<1>1. CASE e = "ASCII"
  BY <1>1 DEF Exported, ASCIIData
<1>2. CASE e = "ISO1"
  BY <1>2 DEF Exported, ISO1Data
<1>3. CASE e \notin {"ASCII", "ISO1"}
  BY <1>3 DEF Exported, UTF16Data, UTF32Data
<1> QED BY <1>1, <1>2, <1>3

(* What is exported comes back in any encoding, but for byte order marks   *)
(* at its start, and what was cut off comes back as a start of the text or *)
(* is rejected.                                                            *)
THEOREM TextsComeBack == Spec => []RoundTrips
<1>1. IInv => RoundTrips
  <2> SUFFICES ASSUME IInv, data # NoData, other # None,
                      ~Marked(data.encoding, data.options)
               PROVE  IF data.whole
                      THEN /\ other # Rejected
                           /\ Unmarked(other.units) = Unmarked(data.source.units)
                           /\ Marks(other.units) =< Marks(data.source.units)
                      ELSE \/ other = Rejected
                           \/ IsPrefix(Unmarked(other.units), Unmarked(data.source.units))
    BY DEF RoundTrips
  <2>1. IsExported(data) /\ IsImported(other, data)
    BY DEF IInv, Sourced
  <2>2. PICK s, e, options, whole : /\ s = data.source /\ e = data.encoding
                                    /\ options = data.options /\ whole = data.whole
    OBVIOUS
  <2>3. /\ Stored(s) /\ e \in Encodings /\ "TerminateWithZero" \notin options
        /\ data.state = "bytes" /\ other = Imported(data.bytes, e)
        /\ Exported(s, e, options).state = "bytes"
    BY <2>1, <2>2 DEF IsExported, IsImported
  <2>4. PICK all \in Seq(Byte) :
           /\ all = Exported(s, e, options).bytes
           /\ IF whole THEN data.bytes = all
              ELSE \E room \in 0..Len(all) : data.bytes = SubSeq(all, 1, room)
    BY <2>1, <2>2, <2>3 DEF IsExported
  <2>5. Exported(s, e, options) = Bytes(all)
    <3>1. PICK result : result = Exported(s, e, options)
      OBVIOUS
    <3>2. result = Refused \/ \E b : result = Bytes(b)
      BY <2>3, <3>1, ExportedIsBytes
    <3>3. result # Refused
      BY <2>3, <3>1, Results
    <3> QED BY <2>4, <3>1, <3>2, <3>3, Results
  <2>6. PICK r \in 0..Len(all) : data.bytes = SubSeq(all, 1, r) /\ (whole => r = Len(all))
    <3>1. CASE whole
      <4>1. Len(all) \in 0..Len(all) /\ SubSeq(all, 1, Len(all)) = all
        <5>1. Len(all) \in Nat
          BY LenProperties
        <5>2. /\ SubSeq(all, 1, Len(all)) \in Seq(Byte)
              /\ Len(SubSeq(all, 1, Len(all))) = Len(all)
              /\ \A i \in 1..Len(all) : SubSeq(all, 1, Len(all))[i] = all[i]
          BY <5>1, FirstBytes
        <5> QED BY <5>1, <5>2, SeqEqual
      <4> QED BY <2>4, <3>1, <4>1
    <3>2. CASE ~whole
      BY <2>4, <3>2
    <3> QED BY <3>1, <3>2
  <2>7. Back(s, e, options, whole)
    <3>1. CASE e = "ISO1"
      BY <2>3, <3>1, ISO1Back
    <3>2. CASE e \in {"ASCII", "UTF8"}
      <4>1. "BOM" \notin options \/ e = "ASCII"
        BY <2>2, <3>2 DEF Marked
      <4> QED BY <2>3, <3>2, <4>1, UTF8Back
    <3>3. CASE e \in Wide16
      BY <2>3, <3>3, UTF16Back
    <3>4. CASE e \in Wide32
      BY <2>3, <3>4, UTF32Back
    <3> QED BY <2>3, <3>1, <3>2, <3>3, <3>4 DEF Encodings
  <2>8. PICK v : Reads(Imported(SubSeq(all, 1, r), e), v, s.units, whole)
    BY <2>5, <2>6, <2>7 DEF Back
  <2>9. Reads(other, v, s.units, whole)
    BY <2>3, <2>6, <2>8
  <2>10. Returns(other, s.units, whole)
    BY <2>3, <2>9, StoredParts, ReadingReturns
  <2> QED BY <2>2, <2>10 DEF Returns, LosesMarks
<1> QED BY AlwaysSourced, <1>1, PTL

=============================================================================
