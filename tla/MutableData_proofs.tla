------------------------- MODULE MutableData_proofs -------------------------
(***************************************************************************)
(* Proofs about MutableData for any bytes, arguments, addresses and bound: *)
(* no byte appears that nobody wrote, a lent pointer stays valid until the *)
(* next mutation, and the moves of memory implement one row of bytes.      *)
(*                                                                         *)
(* TypeOK is inductive as it stands.  The other invariants follow from it  *)
(* step by step, and the refinement from what the moves do to a sequence   *)
(* (ReplacingSplices), compared byte by byte.                             *)
(***************************************************************************)
EXTENDS MutableData, SequenceTheorems, WellFoundedInduction, TLAPS

Visible == Byte \cup {Junk}

-----------------------------------------------------------------------------
(* What the operations on memory return.                                   *)

LEMMA FilledIsSequence ==
    ASSUME NEW S, NEW v \in S, NEW n \in Nat
    PROVE  Filled(n, v) \in Seq(S) /\ Len(Filled(n, v)) = n
BY DEF Filled

LEMMA PartIsSequence ==
    ASSUME NEW S, NEW c \in Seq(S), NEW at \in Nat, NEW n \in Nat, at + n <= Len(c)
    PROVE  /\ SubSeq(c, at + 1, at + n) \in Seq(S)
           /\ Len(SubSeq(c, at + 1, at + n)) = n
           /\ \A i \in 1..n : SubSeq(c, at + 1, at + n)[i] = c[at + i]
<1>1. Len(c) \in Nat /\ \A i \in 1..Len(c) : c[i] \in S
  BY LenProperties, ElementOfSeq
<1>2. \A i \in at + 1 .. at + n : c[i] \in S
  BY <1>1
<1>3. at + 1 \in Int /\ at + n \in Int
  OBVIOUS
<1> QED BY <1>1, <1>2, <1>3, SubSeqProperties, SMTT(20)

LEMMA OverwriteIsSequence ==
    ASSUME NEW S, NEW c \in Seq(S), NEW s \in Seq(S), NEW at \in Nat
    PROVE  /\ Overwrite(c, at, s) \in Seq(S)
           /\ Len(Overwrite(c, at, s)) = Len(c)
           /\ \A i \in 1..Len(c) : Overwrite(c, at, s)[i] =
                 IF at < i /\ i <= at + Len(s) THEN s[i - at] ELSE c[i]
<1> DEFINE byte(i) == IF at < i /\ i <= at + Len(s) THEN s[i - at] ELSE c[i]
           n == Len(c)
<1>1. n \in Nat /\ Len(s) \in Nat
  BY LenProperties
<1>2. \A i \in 1..n : byte(i) \in S
  BY <1>1, ElementOfSeq
<1>3. Overwrite(c, at, s) = [i \in 1..n |-> byte(i)]
  BY DEF Overwrite
<1> HIDE DEF byte, n
<1>4. /\ [i \in 1..n |-> byte(i)] \in Seq(S)
      /\ Len([i \in 1..n |-> byte(i)]) = n
      /\ \A i \in 1..n : [j \in 1..n |-> byte(j)][i] = byte(i)
  BY <1>1, <1>2
<1> QED BY <1>3, <1>4 DEF byte, n

LEMMA ResizedIsSequence ==
    ASSUME NEW S, NEW c \in Seq(S), NEW v \in S, NEW n \in Nat
    PROVE  /\ Resized(c, n, v) \in Seq(S)
           /\ Len(Resized(c, n, v)) = n
           /\ \A i \in 1..n : i <= Len(c) => Resized(c, n, v)[i] = c[i]
<1>1. Len(c) \in Nat
  BY LenProperties
<1>2. CASE n <= Len(c)
  BY <1>1, <1>2, PartIsSequence, SubSeqProperties, ElementOfSeq DEF Resized
<1>3. CASE n > Len(c)
  <2> DEFINE more == Filled(n - Len(c), v)
  <2>1. n - Len(c) \in Nat
    BY <1>1, <1>3
  <2>2. more \in Seq(S) /\ Len(more) = n - Len(c)
    BY <2>1, FilledIsSequence
  <2>3. Resized(c, n, v) = c \o more
    BY <1>1, <1>3 DEF Resized
  <2> HIDE DEF more
  <2>4. /\ c \o more \in Seq(S)
        /\ Len(c \o more) = Len(c) + Len(more)
        /\ \A i \in 1 .. Len(c) + Len(more) : (c \o more)[i] =
              IF i <= Len(c) THEN c[i] ELSE more[i - Len(c)]
    BY <2>2, ConcatProperties
  <2> QED BY <1>1, <1>3, <2>2, <2>3, <2>4
<1> QED BY <1>1, <1>2, <1>3

(* A set of numbers that is not empty has a least one.                     *)
LEMMA LeastNumber ==
    ASSUME NEW T, T \subseteq Nat, T # {}
    PROVE  \E m \in T : \A n \in T : m <= n
<1> DEFINE R == OpToRel(<, Nat)
<1>1. IsWellFoundedOn(R, Nat)
  BY NatLessThanWellFounded
<1>2. \A a, b \in Nat : <<a, b>> \in R <=> a < b
  BY DEF OpToRel
<1> HIDE DEF R
<1>3. PICK m \in T : \A n \in T : ~ (<<n, m>> \in R)
  BY <1>1, WFMin
<1>4. ASSUME NEW n \in T PROVE m <= n
  <2>1. m \in Nat /\ n \in Nat
    OBVIOUS
  <2>2. ~ (n < m)
    BY <1>2, <1>3, <2>1
  <2> QED BY <2>1, <2>2
<1> QED BY <1>4

(* The bytes before the first zero are bytes.                              *)
LEMMA CStringIsBytes ==
    ASSUME NEW S, NEW t \in Seq(S)
    PROVE  CString(t) \in Seq(S) /\ Len(CString(t)) <= Len(t)
<1> DEFINE ends(n) == /\ \A i \in 1..n : t[i] # 0
                      /\ n < Len(t) => t[n + 1] = 0
           zeros == {i \in 1..Len(t) : t[i] = 0}
<1>1. Len(t) \in Nat
  BY LenProperties
<1>2. \E n \in 0..Len(t) : ends(n)
  <2>1. CASE zeros = {}
    BY <1>1, <2>1
  <2>2. CASE zeros # {}
    <3>a. zeros \subseteq Nat
      BY <1>1
    <3>b. \E m \in zeros : \A n \in zeros : m <= n
      <4> HIDE DEF zeros
      <4> QED BY <2>2, <3>a, LeastNumber
    <3>1. PICK m \in zeros : \A n \in zeros : m <= n
      BY <3>b
    <3>2. m - 1 \in 0..Len(t) /\ ends(m - 1)
      BY <1>1, <3>1
    <3> QED BY <3>2
  <2> QED BY <2>1, <2>2
<1> HIDE DEF ends
<1>3. PICK n \in 0..Len(t) : n = CHOOSE k \in 0..Len(t) : ends(k)
  BY <1>2
<1>4. CString(t) = SubSeq(t, 1, n)
  BY <1>3 DEF CString, ends
<1>5. SubSeq(t, 1, n) = SubSeq(t, 0 + 1, 0 + n)
  OBVIOUS
<1> QED BY <1>1, <1>4, <1>5, PartIsSequence

-----------------------------------------------------------------------------
(* The moves of replaceBytesInRange:withBytes:length: put the new bytes    *)
(* between the bytes before and the bytes after the range.  In the lemmas  *)
(* the range is the part of c between the offsets from and to.             *)

Spliced(c, from, to, s) == SubSeq(c, 1, from) \o s \o SubSeq(c, to + 1, Len(c))

LEMMA SpliceIsSequence ==
    ASSUME NEW S, NEW c \in Seq(S), NEW s \in Seq(S),
           NEW from \in Nat, NEW to \in Nat, from <= to, to <= Len(c)
    PROVE  /\ Spliced(c, from, to, s) \in Seq(S)
           /\ Len(Spliced(c, from, to, s)) = from + Len(s) + (Len(c) - to)
           /\ \A i \in 1 .. from + Len(s) + (Len(c) - to) :
                 Spliced(c, from, to, s)[i] =
                    IF i <= from THEN c[i]
                    ELSE IF i <= from + Len(s) THEN s[i - from]
                    ELSE c[i + to - from - Len(s)]
<1> DEFINE left  == SubSeq(c, 0 + 1, 0 + from)
           right == SubSeq(c, to + 1, to + (Len(c) - to))
           start == left \o s
<1>1. Len(c) \in Nat /\ Len(s) \in Nat /\ Len(c) - to \in Nat
  BY LenProperties
<1>2. /\ left \in Seq(S) /\ Len(left) = from
      /\ \A i \in 1..from : left[i] = c[0 + i]
  BY <1>1, PartIsSequence
<1>3. /\ right \in Seq(S) /\ Len(right) = Len(c) - to
      /\ \A i \in 1..(Len(c) - to) : right[i] = c[to + i]
  BY <1>1, PartIsSequence
<1>4. Spliced(c, from, to, s) = start \o right
  <2>1. 0 + 1 = 1 /\ 0 + from = from /\ to + (Len(c) - to) = Len(c)
    BY <1>1
  <2> QED BY <2>1, Zenon DEF Spliced
<1>5. start = left \o s
  OBVIOUS
<1> HIDE DEF left, right, start
<1>6. /\ start \in Seq(S) /\ Len(start) = from + Len(s)
      /\ \A i \in 1..(from + Len(s)) :
            start[i] = IF i <= from THEN left[i] ELSE s[i - from]
  BY <1>2, <1>5, ConcatProperties
<1>7. /\ start \o right \in Seq(S)
      /\ Len(start \o right) = from + Len(s) + (Len(c) - to)
      /\ \A i \in 1..(from + Len(s) + (Len(c) - to)) : (start \o right)[i] =
            IF i <= from + Len(s) THEN start[i] ELSE right[i - (from + Len(s))]
  <2>0. start \in Seq(S) /\ right \in Seq(S)
    BY <1>3, <1>6
  <2>1. /\ start \o right \in Seq(S)
        /\ Len(start \o right) = Len(start) + Len(right)
        /\ \A i \in 1 .. Len(start) + Len(right) : (start \o right)[i] =
              IF i <= Len(start) THEN start[i] ELSE right[i - Len(start)]
    BY <2>0, ConcatProperties
  <2> QED BY <1>3, <1>6, <2>1, Zenon
<1>8. ASSUME NEW i \in 1 .. from + Len(s) + (Len(c) - to)
      PROVE  (start \o right)[i] = IF i <= from THEN c[i]
                                   ELSE IF i <= from + Len(s) THEN s[i - from]
                                   ELSE c[i + to - from - Len(s)]
  <2>1. CASE i <= from
    BY <1>1, <1>2, <1>6, <1>7, <2>1
  <2>2. CASE from < i /\ i <= from + Len(s)
    BY <1>1, <1>6, <1>7, <2>2
  <2>3. CASE from + Len(s) < i
    <3>1. /\ i - (from + Len(s)) \in 1..(Len(c) - to)
          /\ to + (i - (from + Len(s))) = i + to - from - Len(s)
      BY <1>1, <2>3
    <3> QED BY <1>1, <1>3, <1>7, <2>3, <3>1
  <2>4. i \in Int /\ from + Len(s) \in Int /\ from \in Int
    BY <1>1
  <2>5. i <= from \/ (from < i /\ i <= from + Len(s)) \/ from + Len(s) < i
    BY <2>4
  <2> QED BY <2>1, <2>2, <2>3, <2>5
<1> QED BY <1>4, <1>7, <1>8

(* The bytes from the offset to on move up or down to the offset at.       *)
MovedUp(c, at, to, v)   == Move(Resized(c, Len(c) + (at - to), v), at, to, Len(c) - to)
MovedDown(c, at, to, v) == Resized(Move(c, at, to, Len(c) - to), Len(c) - (to - at), v)

IsMovedUp(d, c, at, to) ==
    /\ Len(d) = Len(c) + (at - to)
    /\ \A i \in 1 .. Len(c) + (at - to) :
          /\ i <= to => d[i] = c[i]
          /\ i > at => d[i] = c[i - (at - to)]

IsMovedDown(d, c, at, to) ==
    /\ Len(d) = Len(c) - (to - at)
    /\ \A i \in 1 .. Len(c) - (to - at) :
          d[i] = IF i <= at THEN c[i] ELSE c[i + (to - at)]

LEMMA OpeningIsSequence ==
    ASSUME NEW S, NEW v \in S, NEW c \in Seq(S), NEW at \in Nat, NEW to \in Nat,
           to <= at, to <= Len(c)
    PROVE  /\ MovedUp(c, at, to, v) \in Seq(S)
           /\ IsMovedUp(MovedUp(c, at, to, v), c, at, to)
<1> DEFINE n == Len(c)
           m == n + (at - to)
           big == Resized(c, m, v)
           rest == SubSeq(big, to + 1, to + (n - to))
           opened == Move(big, at, to, n - to)
<1>1. n \in Nat /\ n - to \in Nat /\ m \in Nat /\ n <= m
  BY LenProperties
<1>0. m = at + (n - to)
  BY <1>1
<1>2. /\ big \in Seq(S) /\ Len(big) = m
      /\ \A i \in 1..m : i <= n => big[i] = c[i]
  <2> HIDE DEF m
  <2> QED BY <1>1, ResizedIsSequence
<1>3. opened = Overwrite(big, at, rest)
  BY DEF Move
<1>4. rest = SubSeq(big, to + 1, to + (n - to))
  OBVIOUS
<1> HIDE DEF big, rest, opened
<1>5. to + (n - to) <= Len(big)
  BY <1>1, <1>2
<1>6. /\ rest \in Seq(S) /\ Len(rest) = n - to
      /\ \A i \in 1..(n - to) : rest[i] = big[to + i]
  BY <1>1, <1>2, <1>4, <1>5, PartIsSequence
<1>7. /\ opened \in Seq(S) /\ Len(opened) = m
      /\ \A i \in 1..m : opened[i] =
            IF at < i /\ i <= at + (n - to) THEN rest[i - at] ELSE big[i]
  <2>0. big \in Seq(S) /\ rest \in Seq(S)
    BY <1>2, <1>6
  <2>1. opened \in Seq(S) /\ Len(opened) = Len(big)
    BY <1>3, <2>0, OverwriteIsSequence
  <2>2. \A i \in 1..Len(big) : opened[i] =
           IF at < i /\ i <= at + Len(rest) THEN rest[i - at] ELSE big[i]
    BY <1>3, <2>0, OverwriteIsSequence
  <2>3. Len(big) = m /\ Len(rest) = n - to
    BY <1>2, <1>6
  <2> HIDE DEF m, n
  <2> QED BY <2>1, <2>2, <2>3, Zenon
<1>8. ASSUME NEW i \in 1..m
      PROVE  /\ i <= to => opened[i] = c[i]
             /\ i > at => opened[i] = c[i - (at - to)]
  <2>1. CASE i <= to
    <3>1. i <= n /\ ~ (at < i)
      BY <1>1, <2>1
    <3>2. opened[i] = big[i] /\ big[i] = c[i]
      BY <1>2, <1>7, <3>1
    <3> QED BY <2>1, <3>1, <3>2
  <2>2. CASE i > at
    <3> DEFINE j == i - at
    <3>1. /\ j \in 1..(n - to) /\ to + j = i - (at - to) /\ i <= at + (n - to)
          /\ i - (at - to) \in 1..m /\ i - (at - to) <= n /\ ~ (i <= to)
      BY <1>0, <1>1, <2>2
    <3>2. opened[i] = rest[j]
      BY <1>7, <2>2, <3>1
    <3> HIDE DEF j
    <3>3. rest[j] = big[to + j]
      BY <1>6, <3>1
    <3>4. big[i - (at - to)] = c[i - (at - to)]
      BY <1>2, <3>1
    <3> QED BY <3>1, <3>2, <3>3, <3>4
  <2>3. i \in Int /\ (i <= to => ~ (i > at))
    BY <1>1
  <2> QED BY <2>1, <2>2, <2>3
<1> QED BY <1>7, <1>8 DEF opened, big, m, MovedUp, IsMovedUp

LEMMA ClosingIsSequence ==
    ASSUME NEW S, NEW v \in S, NEW c \in Seq(S), NEW at \in Nat, NEW to \in Nat,
           at <= to, to <= Len(c)
    PROVE  /\ MovedDown(c, at, to, v) \in Seq(S)
           /\ IsMovedDown(MovedDown(c, at, to, v), c, at, to)
<1> DEFINE n == Len(c)
           m == n - (to - at)
           rest == SubSeq(c, to + 1, to + (n - to))
           moved == Move(c, at, to, n - to)
           closed == Resized(moved, m, v)
<1>1. n \in Nat /\ n - to \in Nat /\ m \in Nat /\ m <= n /\ m = at + (n - to)
  BY LenProperties
<1>2. /\ rest \in Seq(S) /\ Len(rest) = n - to
      /\ \A i \in 1..(n - to) : rest[i] = c[to + i]
  BY <1>1, PartIsSequence
<1>3. moved = Overwrite(c, at, rest)
  BY DEF Move
<1>4. closed = Resized(moved, m, v)
  OBVIOUS
<1> HIDE DEF rest, moved, closed
<1>5. /\ moved \in Seq(S) /\ Len(moved) = n
      /\ \A i \in 1..n : moved[i] =
            IF at < i /\ i <= at + (n - to) THEN rest[i - at] ELSE c[i]
  BY <1>2, <1>3, OverwriteIsSequence
<1> HIDE DEF m
<1>6. /\ closed \in Seq(S) /\ Len(closed) = m
      /\ \A i \in 1..m : i <= Len(moved) => closed[i] = moved[i]
  <2>1. m \in Nat /\ moved \in Seq(S)
    BY <1>1, <1>5
  <2>2. /\ Resized(moved, m, v) \in Seq(S) /\ Len(Resized(moved, m, v)) = m
        /\ \A i \in 1..m : i <= Len(moved) => Resized(moved, m, v)[i] = moved[i]
    BY <2>1, ResizedIsSequence
  <2> QED BY <1>4, <2>2
<1>7. ASSUME NEW i \in 1..m
      PROVE  closed[i] = IF i <= at THEN c[i] ELSE c[i + (to - at)]
  <2>1. i \in 1..n /\ closed[i] = moved[i]
    BY <1>1, <1>5, <1>6
  <2>2. CASE i <= at
    BY <1>1, <1>5, <2>1, <2>2
  <2>3. CASE i > at
    <3> DEFINE j == i - at
    <3>1. /\ j \in 1..(n - to) /\ to + j = i + (to - at) /\ i <= at + (n - to)
          /\ ~ (i <= at)
      BY <1>1, <2>3
    <3>2. moved[i] = rest[j]
      BY <1>5, <2>1, <2>3, <3>1
    <3> HIDE DEF j
    <3>3. rest[j] = c[to + j]
      BY <1>2, <3>1
    <3> QED BY <2>1, <3>1, <3>2, <3>3
  <2> QED BY <1>1, <2>2, <2>3
<1> QED BY <1>6, <1>7 DEF closed, moved, m, MovedDown, IsMovedDown

(* Both ways of replacing splice the new bytes in.                         *)
LEMMA GrowingSplices ==
    ASSUME NEW S, NEW v \in S, NEW c \in Seq(S), NEW s \in Seq(S),
           NEW from \in Nat, NEW to \in Nat, from <= to, to <= from + Len(s),
           to <= Len(c)
    PROVE  Overwrite(MovedUp(c, from + Len(s), to, v), from, s) = Spliced(c, from, to, s)
<1> DEFINE at == from + Len(s)
           opened == MovedUp(c, at, to, v)
           written == Overwrite(opened, from, s)
           spliced == Spliced(c, from, to, s)
           m == Len(c) + (at - to)
<1>1. /\ Len(c) \in Nat /\ Len(s) \in Nat /\ at \in Nat /\ m \in Nat
      /\ to <= at /\ from <= at
      /\ m = from + Len(s) + (Len(c) - to)
  BY LenProperties
<1>2. /\ opened \in Seq(S) /\ Len(opened) = m
      /\ \A i \in 1..m : /\ i <= to => opened[i] = c[i]
                         /\ i > at => opened[i] = c[i - (at - to)]
  <2>1. at \in Nat /\ to <= at
    BY <1>1
  <2> HIDE DEF at
  <2>2. opened \in Seq(S) /\ IsMovedUp(opened, c, at, to)
    BY <2>1, OpeningIsSequence
  <2> HIDE DEF opened
  <2> QED BY <2>2 DEF IsMovedUp
<1>3. written = Overwrite(opened, from, s)
  OBVIOUS
<1> HIDE DEF opened, written, m, spliced
<1>4. /\ written \in Seq(S) /\ Len(written) = m
      /\ \A i \in 1..m : written[i] =
            IF from < i /\ i <= from + Len(s) THEN s[i - from] ELSE opened[i]
  BY <1>2, <1>3, OverwriteIsSequence
<1>5. /\ spliced \in Seq(S) /\ Len(spliced) = m
      /\ \A i \in 1..m : spliced[i] = IF i <= from THEN c[i]
                                     ELSE IF i <= from + Len(s) THEN s[i - from]
                                     ELSE c[i + to - from - Len(s)]
  <2>2. Spliced(c, from, to, s) \in Seq(S)
    BY <1>1, SpliceIsSequence
  <2>3. Len(Spliced(c, from, to, s)) = from + Len(s) + (Len(c) - to)
    BY <1>1, SpliceIsSequence
  <2>4. \A i \in 1 .. from + Len(s) + (Len(c) - to) : Spliced(c, from, to, s)[i] =
              IF i <= from THEN c[i]
              ELSE IF i <= from + Len(s) THEN s[i - from]
              ELSE c[i + to - from - Len(s)]
    BY <1>1, SpliceIsSequence
  <2> QED BY <1>1, <2>2, <2>3, <2>4, Zenon DEF spliced
<1>6. ASSUME NEW i \in 1..m PROVE written[i] = spliced[i]
  <2>1. i \in Int
    BY <1>1
  <2>2. CASE i <= from
    <3>1. i <= to /\ ~ (from < i)
      BY <1>1, <2>1, <2>2
    <3>2. written[i] = opened[i]
      BY <1>4, <3>1
    <3>3. opened[i] = c[i]
      BY <1>2, <3>1
    <3>4. spliced[i] = c[i]
      BY <1>5, <2>2
    <3> QED BY <3>2, <3>3, <3>4
  <2>3. CASE from < i /\ i <= from + Len(s)
    <3>1. ~ (i <= from)
      BY <2>1, <2>3
    <3>2. written[i] = s[i - from]
      BY <1>4, <2>3
    <3>3. spliced[i] = s[i - from]
      BY <1>5, <2>3, <3>1
    <3> QED BY <3>2, <3>3
  <2>4. CASE from + Len(s) < i
    <3>1. /\ i + to - from - Len(s) = i - (at - to) /\ i > at
          /\ ~ (i <= from) /\ ~ (i <= from + Len(s))
      BY <1>1, <2>1, <2>4
    <3>2. written[i] = opened[i]
      BY <1>4, <3>1
    <3>3. opened[i] = c[i - (at - to)]
      BY <1>2, <3>1
    <3>4. spliced[i] = c[i + to - from - Len(s)]
      BY <1>5, <3>1
    <3> QED BY <3>1, <3>2, <3>3, <3>4
  <2>5. i <= from \/ (from < i /\ i <= from + Len(s)) \/ from + Len(s) < i
    BY <1>1, <2>1
  <2> QED BY <2>2, <2>3, <2>4, <2>5
<1>7. written \in Seq(S) /\ spliced \in Seq(S) /\ Len(written) = Len(spliced)
  BY <1>4, <1>5
<1>8. \A i \in 1..Len(written) : written[i] = spliced[i]
  BY <1>4, <1>6
<1>9. written = spliced
  BY <1>7, <1>8, SeqEqual
<1> QED BY <1>9 DEF written, spliced, opened

LEMMA ShrinkingSplices ==
    ASSUME NEW S, NEW v \in S, NEW c \in Seq(S), NEW s \in Seq(S),
           NEW from \in Nat, NEW to \in Nat, from + Len(s) <= to, to <= Len(c)
    PROVE  MovedDown(Overwrite(c, from, s), from + Len(s), to, v) = Spliced(c, from, to, s)
<1> DEFINE written == Overwrite(c, from, s)
           at == from + Len(s)
           m == Len(c) - (to - at)
           closed == MovedDown(written, at, to, v)
           spliced == Spliced(c, from, to, s)
<1>1. /\ Len(c) \in Nat /\ Len(s) \in Nat /\ at \in Nat /\ m \in Nat /\ from <= to
      /\ m = from + Len(s) + (Len(c) - to)
  BY LenProperties
<1>2. /\ written \in Seq(S) /\ Len(written) = Len(c)
      /\ \A i \in 1..Len(c) : written[i] =
            IF from < i /\ i <= from + Len(s) THEN s[i - from] ELSE c[i]
  BY OverwriteIsSequence
<1>3. at <= to /\ to <= Len(written)
  BY <1>2
<1>4. /\ closed = MovedDown(written, at, to, v) /\ at \in Nat /\ written \in Seq(S)
      /\ Len(written) \in Nat
  BY <1>1, <1>2
<1> HIDE DEF written, closed, spliced, at
<1>5. /\ closed \in Seq(S) /\ Len(closed) = Len(written) - (to - at)
      /\ \A i \in 1 .. Len(written) - (to - at) :
            closed[i] = IF i <= at THEN written[i] ELSE written[i + (to - at)]
  <2>1. closed \in Seq(S) /\ IsMovedDown(closed, written, at, to)
    BY <1>3, <1>4, ClosingIsSequence
  <2> QED BY <2>1 DEF IsMovedDown
<1> USE DEF at
<1>6. /\ closed \in Seq(S) /\ Len(closed) = m
      /\ \A i \in 1..m : closed[i] = IF i <= at THEN written[i]
                                      ELSE written[i + (to - at)]
  BY <1>2, <1>5
<1>7. /\ spliced \in Seq(S) /\ Len(spliced) = m
      /\ \A i \in 1..m : spliced[i] = IF i <= from THEN c[i]
                                     ELSE IF i <= from + Len(s) THEN s[i - from]
                                     ELSE c[i + to - from - Len(s)]
  <2>1. from + Len(s) + (Len(c) - to) = m
    BY <1>1
  <2>2. Spliced(c, from, to, s) \in Seq(S)
    BY <1>1, SpliceIsSequence
  <2>3. Len(Spliced(c, from, to, s)) = from + Len(s) + (Len(c) - to)
    BY <1>1, SpliceIsSequence
  <2>4. \A i \in 1 .. from + Len(s) + (Len(c) - to) : Spliced(c, from, to, s)[i] =
              IF i <= from THEN c[i]
              ELSE IF i <= from + Len(s) THEN s[i - from]
              ELSE c[i + to - from - Len(s)]
    BY <1>1, SpliceIsSequence
  <2> HIDE DEF m
  <2> QED BY <2>1, <2>2, <2>3, <2>4, Zenon DEF spliced
<1>8. ASSUME NEW i \in 1..m PROVE closed[i] = spliced[i]
  <2>1. i \in 1..Len(c) /\ at = from + Len(s)
    BY <1>1
  <2>2. CASE i <= at
    <3>1. closed[i] = written[i]
      BY <1>6, <2>2
    <3>2. written[i] = IF from < i /\ i <= from + Len(s) THEN s[i - from] ELSE c[i]
      BY <1>2, <2>1
    <3>3. spliced[i] = IF i <= from THEN c[i] ELSE s[i - from]
      BY <1>7, <2>1, <2>2
    <3> QED BY <1>1, <2>1, <2>2, <3>1, <3>2, <3>3
  <2>3. CASE at < i
    <3> DEFINE j == i + (to - at)
    <3>1. /\ j \in 1..Len(c) /\ ~ (j <= from + Len(s))
          /\ j = i + to - from - Len(s)
          /\ ~ (i <= from) /\ ~ (i <= from + Len(s)) /\ ~ (i <= at)
      BY <1>1, <2>1, <2>3
    <3>2. closed[i] = written[j]
      BY <1>6, <3>1
    <3>3. spliced[i] = c[i + to - from - Len(s)]
      BY <1>7, <3>1
    <3> HIDE DEF j
    <3>4. written[j] = c[j]
      BY <1>2, <3>1
    <3> QED BY <3>1, <3>2, <3>3, <3>4
  <2>4. i <= at \/ at < i
    BY <1>1, <2>1
  <2> QED BY <2>2, <2>3, <2>4
<1>9. closed \in Seq(S) /\ spliced \in Seq(S) /\ Len(closed) = Len(spliced)
  BY <1>6, <1>7
<1>10. \A i \in 1..Len(closed) : closed[i] = spliced[i]
  BY <1>6, <1>8
<1>11. closed = spliced
  BY <1>9, <1>10, SeqEqual
<1> QED BY <1>11 DEF closed, spliced, written

(* What replaceBytesInRange:withBytes:length: leaves in the storage is the *)
(* spliced content.                                                        *)
LEMMA ReplacingSplices ==
    ASSUME NEW S, 0 \in S, content \in Seq(S), NEW s \in Seq(S),
           NEW r \in [location : Nat, length : Nat], IsValid(r)
    PROVE  /\ Closed(r, s) = Spliced(content, r.location, Rest(r), s)
           /\ Closed(r, s) \in Seq(S)
           /\ Opened(r, Len(s)) \in Seq(S)
           /\ Len(Opened(r, Len(s))) >= length
           /\ Len(Closed(r, s)) = NewLength(r, Len(s))
<1> DEFINE from == r.location
           to == Rest(r)
           n == Len(content)
           k == Len(s)
<1>1. /\ from \in Nat /\ to \in Nat /\ n \in Nat /\ k \in Nat /\ r.length \in Nat
      /\ from <= to /\ to <= n /\ to = from + r.length
  BY LenProperties DEF IsValid, length, Rest
<1> HIDE DEF from, to
<1>2. CASE k > r.length
  <2> DEFINE at == from + Len(s)
             opened == MovedUp(content, at, to, 0)
  <2>1. at \in Nat /\ to <= at /\ n \in Nat /\ to <= from + Len(s)
    BY <1>1, <1>2
  <2>2. Rest(r) + k - r.length = at /\ NewLength(r, k) = n + (at - to)
    BY <1>1, <2>1 DEF to, NewLength, length
  <2>3. Opened(r, k) = opened
    BY <1>2, <2>2 DEF Opened, MovedUp, length, to
  <2>4. Closed(r, s) = Overwrite(opened, from, s)
    BY <1>1, <1>2, <2>3 DEF Closed, from
  <2>5. Overwrite(opened, from, s) = Spliced(content, from, to, s)
    BY <1>1, <2>1, GrowingSplices
  <2>6. opened \in Seq(S) /\ Len(opened) = n + (at - to)
    <3> HIDE DEF at
    <3>1. opened \in Seq(S) /\ IsMovedUp(opened, content, at, to)
      BY <1>1, <2>1, OpeningIsSequence
    <3> HIDE DEF opened
    <3> QED BY <3>1 DEF IsMovedUp
  <2> HIDE DEF opened, at
  <2>7. /\ Overwrite(opened, from, s) \in Seq(S)
        /\ Len(Overwrite(opened, from, s)) = n + (at - to)
    BY <1>1, <2>6, OverwriteIsSequence
  <2>8. Len(opened) >= length
    BY <1>1, <2>1, <2>6 DEF length
  <2> QED BY <2>2, <2>3, <2>4, <2>5, <2>6, <2>7, <2>8 DEF from, to
<1>3. CASE ~ (k > r.length)
  <2> DEFINE written == Overwrite(content, from, s)
             at == from + k
             closed == MovedDown(written, at, to, 0)
  <2>1. /\ Opened(r, k) = content /\ at <= to /\ at \in Nat
        /\ n - (to - at) = NewLength(r, k)
    BY <1>1, <1>3 DEF Opened, NewLength, length
  <2>2. written \in Seq(S) /\ Len(written) = n
    BY <1>1, OverwriteIsSequence
  <2>3. closed = Spliced(content, from, to, s)
    BY <1>1, <2>1, ShrinkingSplices
  <2> HIDE DEF written
  <2>4. /\ closed \in Seq(S) /\ Len(closed) = n - (to - at)
        /\ \A i \in 1 .. n - (to - at) :
              closed[i] = IF i <= at THEN written[i] ELSE written[i + (to - at)]
    <3> HIDE DEF at
    <3>1. to <= Len(written)
      BY <1>1, <2>2
    <3>2. closed \in Seq(S) /\ IsMovedDown(closed, written, at, to)
      BY <1>1, <2>1, <2>2, <3>1, ClosingIsSequence
    <3> HIDE DEF closed
    <3> QED BY <2>2, <3>2 DEF IsMovedDown
  <2>5. Closed(r, s) = closed
    <3>1. CASE k < r.length
      BY <2>1, <2>2, <3>1 DEF Closed, MovedDown, from, to, written, length
    <3>2. CASE k = r.length
      <4>1. Closed(r, s) = written /\ to - at = 0 /\ at = to
        BY <1>1, <2>1, <3>2 DEF Closed, from, written
      <4> HIDE DEF closed, at
      <4>2. Len(closed) = n
        BY <1>1, <2>4, <4>1
      <4>3. ASSUME NEW i \in 1..n PROVE closed[i] = written[i]
        <5>1. i \in 1 .. n - (to - at) /\ i + (to - at) = i
          BY <1>1, <4>1
        <5>2. closed[i] = IF i <= at THEN written[i] ELSE written[i + (to - at)]
          BY <2>4, <5>1
        <5> QED BY <5>1, <5>2
      <4>4. Len(closed) = Len(written) /\ \A i \in 1..Len(closed) : closed[i] = written[i]
        BY <2>2, <4>2, <4>3
      <4> QED BY <2>2, <2>4, <4>1, <4>4, SeqEqual
    <3> QED BY <1>1, <1>3, <3>1, <3>2
  <2> QED BY <1>1, <2>1, <2>3, <2>4, <2>5 DEF from, to, length
<1> QED BY <1>2, <1>3

-----------------------------------------------------------------------------
(* The storage has room for what is put into it.                           *)

StoreFits(n) == /\ block' \in Block \cup {NoBlock}
                /\ capacity' \in Nat
                /\ n <= capacity'
                /\ n > 0 => block' # NoBlock

LEMMA StoreGrows ==
    ASSUME TypeOK, NEW n \in Nat, Grow(n) \/ SetStore(n)
    PROVE  StoreFits(n)
<1>1. length \in Nat /\ (length > 0 => content # <<>>)
  BY LenProperties, EmptySeq DEF TypeOK, length
<1>2. CASE Grow(n)
  BY <1>2, NoBlockIsNone, BoundIsNumber DEF Grow, Allocate, StoreFits, TypeOK, store
<1>3. CASE SetStore(n)
  <2>1. CASE n = length
    BY <1>1, <1>3, <2>1 DEF SetStore, StoreFits, TypeOK, store
  <2>2. CASE n # length /\ n = 0
    BY <1>3, <2>2 DEF SetStore, Reset, StoreFits, TypeOK
  <2>3. CASE n # length /\ n # 0 /\ n > length
    <3>1. Grow(n)
      BY <1>3, <2>3 DEF SetStore
    <3> QED BY <1>2, <3>1
  <2>4. CASE n # length /\ n # 0 /\ ~ (n > length)
    BY <1>3, <2>4, NoBlockIsNone DEF SetStore, StoreFits, TypeOK
  <2> QED BY <2>1, <2>2, <2>3, <2>4
<1> QED BY <1>2, <1>3

LEMMA StoreIsSetUp ==
    ASSUME TypeOK, SetUp \/ UNCHANGED store
    PROVE  StoreFits(length)
<1>1. length \in Nat /\ (length > 0 => content # <<>>)
  BY LenProperties, EmptySeq DEF TypeOK, length
<1>2. CASE UNCHANGED store
  BY <1>1, <1>2 DEF StoreFits, TypeOK, store
<1>3. CASE SetUp /\ NeedsStore
  BY <1>1, <1>3, BoundIsNumber, NoBlockIsNone
  DEF SetUp, NeedsStore, Allocate, StoreFits, TypeOK
<1> QED BY <1>2, <1>3 DEF SetUp

LEMMA ReplaceStoreFits ==
    ASSUME TypeOK, NEW n \in Nat, ReplaceStore(n)
    PROVE  StoreFits(n)
BY StoreGrows, StoreIsSetUp DEF ReplaceStore

(* One step keeps bytes of the set S in the content, and room for them.    *)
Holds(S, c) == content' = c /\ c \in Seq(S) /\ StoreFits(Len(c))

LEMMA StepHolds ==
    ASSUME NEW S, Byte \subseteq S, TypeOK, content \in Seq(S),
           Junk \in S \/ ~undefined', Next
    PROVE  Holds(S, content')
<1>1. /\ 0 \in S /\ Seq(Byte) \subseteq Seq(S) /\ Text \subseteq Seq(S)
      /\ Lengths \subseteq Nat /\ \A r \in Ranges : r \in [location : Nat, length : Nat]
      /\ length \in Nat
  BY ZeroIsByte, TextIsBytes, LengthsAreNumbers, RangesAreRanges, SeqMonotonic, LenProperties
  DEF length
<1>2. \A t \in Text : CString(t) \in Seq(S)
  BY <1>1, CStringIsBytes
<1>3. \A n \in Nat : Filled(n, 0) \in Seq(S) /\ Len(Filled(n, 0)) = n
  BY <1>1, FilledIsSequence
<1>4. \A r \in Ranges : IsValid(r) => Part(content, r) \in Seq(S)
                                      /\ Len(Part(content, r)) = r.length
  BY <1>1, PartIsSequence DEF IsValid, Part, length
<1>5. ASSUME UNCHANGED content, SetUp \/ UNCHANGED store PROVE Holds(S, content')
  BY <1>5, StoreIsSetUp DEF Holds, length
<1>6. ASSUME NEW t \in Seq(S), content' = t, Grow(Len(t)) PROVE Holds(S, content')
  BY <1>6, StoreGrows, LenProperties DEF Holds
<1>7. ASSUME NEW t \in Seq(S), AppendBytes(t) PROVE Holds(S, content')
  <2>1. content \o t \in Seq(S) /\ Len(content \o t) = length + Len(t)
    BY ConcatProperties DEF length
  <2> QED BY <1>6, <1>7, <2>1 DEF AppendBytes, Mutate
<1>8. ASSUME NEW n \in Nat, NEW v \in S, NEW t \in Seq(S), Len(t) = n,
             content' = t, SetStore(n)
      PROVE  Holds(S, content')
  BY <1>8, StoreGrows DEF Holds
<1>9. ASSUME NEW r \in Ranges, NEW t \in Seq(S), ReplaceInPlace(r, t)
      PROVE  Holds(S, content')
  <2>1. CASE IsValid(r)
    <3>1. Overwrite(content, r.location, t) \in Seq(S)
          /\ Len(Overwrite(content, r.location, t)) = length
      BY <1>1, OverwriteIsSequence DEF length
    <3> QED BY <1>9, <2>1, <3>1, StoreIsSetUp DEF ReplaceInPlace, Mutate, Holds
  <2>2. CASE ~ IsValid(r)
    BY <1>5, <1>9, <2>2 DEF ReplaceInPlace, Throw, Read
  <2> QED BY <2>1, <2>2
<1>10. ASSUME NEW r \in Ranges, NEW t \in Seq(S), IsValid(r),
              content' = Closed(r, t), ReplaceStore(NewLength(r, Len(t)))
       PROVE  Holds(S, content')
  <2>1. /\ Closed(r, t) \in Seq(S)
        /\ Len(Closed(r, t)) = NewLength(r, Len(t))
    BY <1>1, <1>10, ReplacingSplices
  <2>2. NewLength(r, Len(t)) \in Nat
    BY <2>1, LenProperties
  <2> QED BY <1>10, <2>1, <2>2, ReplaceStoreFits DEF Holds
<1>11. ASSUME NEW n \in Lengths, InitWithCapacity(n) PROVE Holds(S, content')
  <2>1. block' = NoBlock /\ capacity' = n /\ content' = <<>> /\ n \in Nat
    BY <1>1, <1>11 DEF InitWithCapacity, Create, TypeOK
  <2> QED BY <2>1, EmptySeq DEF Holds, StoreFits
<1>12. ASSUME NEW n \in Lengths, InitNonZeroedCapacity(n) PROVE Holds(S, content')
  <2>1. block' \in Block /\ capacity' \in Nat /\ content' = <<>>
    BY <1>1, <1>12, BoundIsNumber DEF InitNonZeroedCapacity, Create, Allocate
  <2> QED BY <2>1, EmptySeq DEF Holds, StoreFits
<1>13. ASSUME NEW n \in Lengths, InitWithLength(n) PROVE Holds(S, content')
  BY <1>1, <1>3, <1>6, <1>13 DEF InitWithLength, Create
<1>14. ASSUME NEW n \in Lengths, InitWithNull(n) PROVE Holds(S, content')
  BY <1>5, <1>14 DEF InitWithNull
<1>15. ASSUME NEW n \in Lengths, SetLength(n) PROVE Holds(S, content')
  <2>1. Resized(content, n, 0) \in Seq(S) /\ Len(Resized(content, n, 0)) = n
    BY <1>1, ResizedIsSequence
  <2> QED BY <1>1, <1>8, <1>15, <2>1 DEF SetLength, Mutate
<1>16. ASSUME NEW n \in Lengths, SetLengthDontZero(n) PROVE Holds(S, content')
  <2>1. Resized(content, n, Junk) \in Seq(S) /\ Len(Resized(content, n, Junk)) = n
    <3>1. CASE Junk \in S
      BY <1>1, <3>1, ResizedIsSequence
    <3>2. CASE Junk \notin S
      <4>1. n <= length
        <5>1. ~ (n > length)
          BY <1>16, <3>2, Zenon DEF SetLengthDontZero
        <5> QED BY <1>1, <5>1
      <4>2. Resized(content, n, Junk) = Resized(content, n, 0)
        BY <1>1, <4>1 DEF Resized, length
      <4> QED BY <1>1, <4>2, ResizedIsSequence
    <3> QED BY <3>1, <3>2
  <2> QED BY <1>1, <1>8, <1>16, <2>1 DEF SetLengthDontZero, Mutate
<1>17. ASSUME NEW n \in Lengths, IncreaseLengthBy(n) PROVE Holds(S, content')
  BY <1>1, <1>3, <1>7, <1>17 DEF IncreaseLengthBy
<1>18. ASSUME NEW t \in Text, InitWithBytes(t) \/ InitWithCString(t)
       PROVE  Holds(S, content')
  BY <1>1, <1>2, <1>6, <1>18 DEF InitWithBytes, InitWithCString, Create
<1>19. ASSUME NEW t \in Text, AppendBytes(t) \/ AppendCString(t)
       PROVE  Holds(S, content')
  BY <1>1, <1>2, <1>7, <1>19 DEF AppendCString
<1>20. ASSUME NEW t \in Seq(S), SetData(t) PROVE Holds(S, content')
  <2>1. Len(t) \in Nat
    BY LenProperties
  <2>2. Resized(content, Len(t), 0) \in Seq(S) /\ Len(Resized(content, Len(t), 0)) = Len(t)
    BY <1>1, <2>1, ResizedIsSequence
  <2>3. /\ Overwrite(Resized(content, Len(t), 0), 0, t) \in Seq(S)
        /\ Len(Overwrite(Resized(content, Len(t), 0), 0, t)) = Len(t)
    BY <2>2, OverwriteIsSequence
  <2> QED BY <1>1, <1>8, <1>20, <2>1, <2>3 DEF SetData, Mutate
<1>21. ASSUME NEW r \in Ranges, AppendOwnBytes(r) PROVE Holds(S, content')
  BY <1>4, <1>7, <1>21 DEF AppendOwnBytes
<1>22. ASSUME NEW r \in Ranges, ResetBytes(r) PROVE Holds(S, content')
  BY <1>1, <1>3, <1>9, <1>22 DEF ResetBytes
<1>23. ASSUME NEW r \in Ranges, GetBytes(r) PROVE Holds(S, content')
  BY <1>5, <1>23 DEF GetBytes, Read
<1>24. ASSUME NEW r \in Ranges, NEW t \in Text, ReplaceInPlace(r, t)
       PROVE  Holds(S, content')
  BY <1>1, <1>9, <1>24
<1>25. ASSUME NEW r \in Ranges, NEW t \in Text, ReplaceBytes(r, t)
       PROVE  Holds(S, content')
  <2>1. CASE IsValid(r)
    BY <1>1, <1>10, <1>25, <2>1 DEF ReplaceBytes, Mutate
  <2>2. CASE ~ IsValid(r)
    BY <1>5, <1>25, <2>2 DEF ReplaceBytes, Throw, Read
  <2> QED BY <2>1, <2>2
<1>26. ASSUME NEW r \in Ranges, NEW q \in Ranges, ReplaceWithOwnBytes(r, q)
       PROVE  Holds(S, content')
  <2>1. CASE ~ IsValid(r)
    BY <1>5, <1>26, <2>1 DEF ReplaceWithOwnBytes, Throw, Read
  <2>2. CASE IsValid(r) /\ q.length > r.length
    <3>1. q \in [location : Nat, length : Nat] /\ r \in [location : Nat, length : Nat]
          /\ IsValid(q) /\ q.length \in Nat
      BY <1>1, <1>26 DEF ReplaceWithOwnBytes
    <3>2. Junk \in S
      BY <1>26, <2>2 DEF ReplaceWithOwnBytes
    <3>3. Opened(r, q.length) \in Seq(S) /\ Len(Opened(r, q.length)) >= length
      BY <1>1, <1>3, <2>2, <3>1, ReplacingSplices
    <3>4. Part(Opened(r, q.length), q) \in Seq(S)
          /\ Len(Part(Opened(r, q.length), q)) = q.length
      <4>1. q.location \in Nat /\ q.location + q.length <= Len(Opened(r, q.length))
        BY <1>1, <3>1, <3>3, LenProperties DEF IsValid
      <4> QED BY <3>1, <3>3, <4>1, PartIsSequence DEF Part
    <3>5. Reread(r, q) \in Seq(S) /\ Len(Reread(r, q)) = q.length
      BY <3>1, <3>2, <3>4, FilledIsSequence DEF Reread
    <3>6. /\ content' = Closed(r, Reread(r, q))
          /\ ReplaceStore(NewLength(r, q.length))
      BY <1>26, <2>2 DEF ReplaceWithOwnBytes, Mutate
    <3> QED BY <1>10, <2>2, <3>5, <3>6
  <2>3. CASE IsValid(r) /\ ~ (q.length > r.length)
    <3>1. /\ content' = Closed(r, Part(content, q)) /\ IsValid(q)
          /\ ReplaceStore(NewLength(r, q.length))
      BY <1>26, <2>3 DEF ReplaceWithOwnBytes, Mutate
    <3> QED BY <1>4, <1>10, <2>3, <3>1
  <2> QED BY <2>1, <2>2, <2>3
<1>27. CASE SetDataToItself
  BY <1>20, <1>27 DEF SetDataToItself
<1>28. CASE Dealloc
  BY <1>28, EmptySeq DEF Dealloc, Holds, StoreFits
<1>29. CASE Bytes
  BY <1>5, <1>29 DEF Bytes, Read
<1>30. CASE MutableBytes
  BY <1>5, <1>30 DEF MutableBytes, Read
<1>31. CASE Copy
  BY <1>5, <1>31 DEF Copy, Read
<1> QED BY <1>11, <1>12, <1>13, <1>14, <1>15, <1>16, <1>17, <1>18, <1>19, <1>1, <1>20,
           <1>21, <1>22, <1>23, <1>24, <1>25, <1>26, <1>27, <1>28, <1>29, <1>30, <1>31
        DEF Next

-----------------------------------------------------------------------------
(* What a step does to the other variables.                                *)

StepShapes == \/ live' = TRUE /\ ~live /\ UNCHANGED <<lent, undefined>>
              \/ ~live /\ UNCHANGED <<live, store, lent, undefined>>
              \/ live' = FALSE /\ block' = NoBlock /\ lent' = {} /\ undefined' = FALSE
                 /\ content' = <<>>
              \/ live /\ UNCHANGED live /\ lent' = {}
                 /\ (undefined' = TRUE \/ undefined' = undefined
                     \/ \E n \in Lengths : undefined' = (undefined \/ n > length))
              \/ live /\ UNCHANGED <<live, store, lent, undefined>>
              \/ live /\ UNCHANGED <<live, store, undefined>> /\ Lend(block)
              \/ live /\ SetUp /\ UNCHANGED <<live, undefined>> /\ Lend(block')

LEMMA StepHasShape ==
    ASSUME Next
    PROVE  StepShapes
<1> USE DEF store
<1>1. ASSUME NEW n \in Lengths, InitWithCapacity(n) \/ InitNonZeroedCapacity(n)
                                \/ InitWithLength(n) \/ InitWithNull(n)
      PROVE  StepShapes
  BY <1>1, Zenon DEF InitWithCapacity, InitNonZeroedCapacity, InitWithLength, InitWithNull,
                     Create, StepShapes
<1>2. ASSUME NEW c, NEW n \in Lengths, Mutate(c),
             UNCHANGED undefined \/ undefined' = TRUE
             \/ undefined' = (undefined \/ n > length)
      PROVE  StepShapes
  BY <1>2, Zenon DEF Mutate, StepShapes
<1>3. ASSUME NEW c, Mutate(c), UNCHANGED undefined \/ undefined' = TRUE
      PROVE  StepShapes
  BY <1>3, Zenon DEF Mutate, StepShapes
<1>4. ASSUME NEW r, Read(r), UNCHANGED store /\ UNCHANGED lent
      PROVE  StepShapes
  BY <1>4, Zenon DEF Read, StepShapes
<1>5. ASSUME NEW t, AppendBytes(t) PROVE StepShapes
  BY <1>3, <1>5, Zenon DEF AppendBytes
<1>6. ASSUME NEW r, NEW t, ReplaceInPlace(r, t) PROVE StepShapes
  BY <1>3, <1>4, <1>6, Zenon DEF ReplaceInPlace, Throw
<1>7. ASSUME NEW n \in Lengths,
             SetLength(n) \/ SetLengthDontZero(n) \/ IncreaseLengthBy(n)
      PROVE  StepShapes
  BY <1>2, <1>3, <1>5, <1>7, Zenon DEF SetLength, SetLengthDontZero, IncreaseLengthBy
<1>8. ASSUME NEW t, InitWithBytes(t) \/ InitWithCString(t) PROVE StepShapes
  BY <1>8, Zenon DEF InitWithBytes, InitWithCString, Create, StepShapes
<1>9. ASSUME NEW t, AppendCString(t) \/ SetData(t) PROVE StepShapes
  BY <1>3, <1>5, <1>9, Zenon DEF AppendCString, SetData
<1>10. ASSUME NEW r, AppendOwnBytes(r) \/ ResetBytes(r) \/ GetBytes(r) PROVE StepShapes
  BY <1>4, <1>5, <1>6, <1>10, Zenon DEF AppendOwnBytes, ResetBytes, GetBytes
<1>11. ASSUME NEW r, NEW t, ReplaceBytes(r, t) PROVE StepShapes
  BY <1>3, <1>4, <1>11, Zenon DEF ReplaceBytes, Throw
<1>12. ASSUME NEW r, NEW q, ReplaceWithOwnBytes(r, q) PROVE StepShapes
  BY <1>3, <1>4, <1>12, Zenon DEF ReplaceWithOwnBytes, Throw
<1>13. CASE SetDataToItself
  BY <1>9, <1>13, Zenon DEF SetDataToItself
<1>14. CASE Dealloc
  BY <1>14, Zenon DEF Dealloc, StepShapes
<1>15. CASE Bytes
  BY <1>4, <1>15, Zenon DEF Bytes, Read, StepShapes
<1>16. CASE MutableBytes
  BY <1>16, Zenon DEF MutableBytes, Read, StepShapes
<1>17. CASE Copy
  BY <1>4, <1>17, Zenon DEF Copy
<1> QED BY <1>1, <1>5, <1>6, <1>7, <1>8, <1>9, <1>10, <1>11, <1>12, <1>13, <1>14, <1>15,
           <1>16, <1>17, Zenon DEF Next

-----------------------------------------------------------------------------
(* The invariants.                                                         *)

LEMMA TypesAreKept ==
    ASSUME TypeOK, [Next]_vars
    PROVE  TypeOK'
<1>1. CASE UNCHANGED vars
  BY <1>1 DEF TypeOK, vars, length
<1>2. CASE Next
  <2>1. /\ content' \in Seq(Visible)
        /\ StoreFits(Len(content'))
    BY <1>2, StepHolds DEF Visible, Holds, TypeOK
  <2>2. Len(content') > 0 <=> content' # <<>>
    BY <2>1, EmptySeq, LenProperties
  <2>3. /\ live' \in BOOLEAN
        /\ undefined' \in BOOLEAN
        /\ lent' \subseteq Block
        /\ ~live' => block' = NoBlock
    <3>1. StepShapes
      BY <1>2, StepHasShape
    <3> QED BY <2>1, <3>1 DEF TypeOK, StepShapes, store, Lend, StoreFits
  <2> QED BY <2>1, <2>2, <2>3 DEF TypeOK, StoreFits, Visible, length
<1> QED BY <1>1, <1>2

(* The variables keep their types, the storage always has room for the     *)
(* content, and a deallocated data keeps no storage.                       *)
THEOREM TypeCorrect == Spec => []TypeOK
<1>1. Init => TypeOK
  <2> SUFFICES ASSUME Init PROVE TypeOK
    OBVIOUS
  <2>1. content \in Seq(Byte \cup {Junk}) /\ content = <<>> /\ length = 0
    BY EmptySeq DEF Init, length
  <2>2. capacity \in Nat /\ length <= capacity
    BY <2>1 DEF Init
  <2> QED BY <2>1, <2>2, Zenon DEF Init, TypeOK
<1>2. TypeOK /\ [Next]_vars => TypeOK'
  BY TypesAreKept
<1> QED BY <1>1, <1>2, PTL DEF Spec

(* The bytes of a data are bytes somebody wrote or zeroes, however the     *)
(* storage grew, shrank and moved: replaceBytesInRange:withBytes:length:   *)
(* and setLength: leave no hole.  Only a caller that waived the zeroes, or *)
(* that replaced bytes by the data's own while it grew, may find one.      *)
THEOREM ContentAlwaysDefined == Spec => []ContentIsDefined
<1>1. Init => ContentIsDefined
  BY EmptySeq DEF Init, ContentIsDefined
<1>2. TypeOK /\ ContentIsDefined /\ [Next]_vars => ContentIsDefined'
  <2> SUFFICES ASSUME TypeOK, ContentIsDefined, [Next]_vars PROVE ContentIsDefined'
    OBVIOUS
  <2>1. CASE UNCHANGED vars
    BY <2>1 DEF ContentIsDefined, vars
  <2>2. CASE Next
    <3>1. CASE content' = <<>>
      BY <3>1, EmptySeq DEF ContentIsDefined
    <3>2. CASE content' # <<>> /\ ~undefined'
      <4>1. ~undefined
        BY <2>2, <3>2, StepHasShape, Zenon DEF StepShapes
      <4> QED BY <2>2, <3>2, <4>1, StepHolds DEF ContentIsDefined, Holds
    <3>3. CASE undefined'
      BY <3>3 DEF ContentIsDefined
    <3> QED BY <3>1, <3>2, <3>3
  <2> QED BY <2>1, <2>2
<1> QED BY <1>1, <1>2, TypeCorrect, PTL DEF Spec

(* A pointer into the storage stays valid until the data is mutated.       *)
THEOREM LentBytesStayValid == Spec => []LentBytesAreValid
<1>1. Init => LentBytesAreValid
  BY DEF Init, LentBytesAreValid
<1>2. TypeOK /\ LentBytesAreValid /\ [Next]_vars => LentBytesAreValid'
  <2> SUFFICES ASSUME TypeOK, LentBytesAreValid, [Next]_vars PROVE LentBytesAreValid'
    OBVIOUS
  <2>1. CASE UNCHANGED vars
    BY <2>1 DEF LentBytesAreValid, vars
  <2>2. CASE Next
    <3>1. lent = {} \/ block # NoBlock
      BY NoBlockIsNone DEF TypeOK, LentBytesAreValid
    <3>2. CASE lent' = {}
      BY <3>2 DEF LentBytesAreValid
    <3>3. CASE ~live
      <4>1. lent = {}
        BY <3>1, <3>3 DEF TypeOK
      <4>2. lent' = {}
        BY <2>2, <3>3, <4>1, StepHasShape, Zenon DEF StepShapes
      <4> QED BY <3>2, <4>2
    <3>4. CASE live /\ UNCHANGED store
      <4>1. UNCHANGED lent \/ Lend(block) \/ Lend(block') \/ lent' = {}
        BY <2>2, <3>4, StepHasShape, Zenon DEF StepShapes
      <4> QED BY <3>4, <4>1 DEF Lend, store, LentBytesAreValid
    <3>5. CASE SetUp /\ Lend(block')
      <4>1. CASE NeedsStore
        <5>1. lent = {}
          BY <3>1, <4>1 DEF NeedsStore
        <5> QED BY <3>5, <5>1 DEF Lend, LentBytesAreValid
      <4>2. CASE ~NeedsStore
        BY <3>5, <4>2 DEF SetUp, store, Lend, LentBytesAreValid
      <4> QED BY <4>1, <4>2
    <3>6. lent' = {} \/ ~live \/ (live /\ UNCHANGED store) \/ (SetUp /\ Lend(block'))
      BY <2>2, StepHasShape, Zenon DEF StepShapes, store
    <3> QED BY <3>2, <3>3, <3>4, <3>5, <3>6
  <2> QED BY <2>1, <2>2
<1> QED BY <1>1, <1>2, TypeCorrect, PTL DEF Spec

-----------------------------------------------------------------------------
(* The refinement.                                                         *)

LEMMA PlainReplace ==
    ASSUME TypeOK, NEW r \in [location : Nat, length : Nat], IsValid(r),
           NEW t \in Seq(Visible)
    PROVE  Closed(r, t) = Plain!Replacing(r, t)
<1>1. 0 \in Visible /\ content \in Seq(Visible)
  BY ZeroIsByte DEF TypeOK, Visible
<1>2. Closed(r, t) = Spliced(content, r.location, Rest(r), t)
  BY <1>1, ReplacingSplices
<1> QED BY <1>2, Zenon DEF Spliced, Rest, Plain!Replacing

LEMMA PlainResize ==
    ASSUME NEW n \in Nat, NEW v, Mutate(Resized(content, n, v))
    PROVE  Plain!Resize(n, v)
<1> USE DEF Done, Plain!Done
<1>1. CASE n <= Len(content)
  BY <1>1 DEF Mutate, Resized, Plain!Resize, Plain!Mutate
<1>2. CASE ~ (n <= Len(content))
  BY <1>2 DEF Mutate, Resized, Filled, Plain!Resize, Plain!Extend, Plain!Filled, Plain!Mutate
<1> QED BY <1>1, <1>2

LEMMA StepIsPlain ==
    ASSUME TypeOK, Next
    PROVE  Plain!Next
<1> USE DEF Done, Exception, Plain!Done, Plain!Exception
<1>1. /\ Text \subseteq Seq(Visible) /\ Lengths \subseteq Nat
      /\ \A r \in Ranges : r \in [location : Nat, length : Nat]
      /\ content \in Seq(Visible) /\ 0 \in Visible /\ length \in Nat
  BY TextIsBytes, LengthsAreNumbers, RangesAreRanges, SeqMonotonic, LenProperties, ZeroIsByte
  DEF TypeOK, Visible, length
<1>2. ASSUME NEW c, Create(c) PROVE Plain!Create(c)
  BY <1>2 DEF Create, Plain!Create
<1>3. ASSUME NEW c, Mutate(c) PROVE Plain!Mutate(c)
  BY <1>3 DEF Mutate, Plain!Mutate
<1>4. ASSUME NEW c, Read(c) PROVE Plain!Answer(c)
  BY <1>4 DEF Read, Plain!Answer
<1>5. ASSUME NEW t, AppendBytes(t) PROVE Plain!Extend(t)
  BY <1>3, <1>5 DEF AppendBytes, Plain!Extend
<1>6. /\ \A t : CString(t) = Plain!CString(t)
      /\ \A n, v : Filled(n, v) = Plain!Filled(n, v)
      /\ \A c, r : Part(c, r) = Plain!Part(c, r)
      /\ \A r : IsValid(r) <=> Plain!IsValid(r, Len(content))
  BY DEF CString, Filled, Part, IsValid, length,
         Plain!CString, Plain!Filled, Plain!Part, Plain!IsValid
<1>7. ASSUME NEW r \in Ranges, NEW t \in Seq(Visible), ReplaceInPlace(r, t)
      PROVE  Plain!Replace(r, t)
  <2>1. CASE IsValid(r)
    <3>1. Closed(r, t) = Overwrite(content, r.location, t)
      <4>1. ~ (Len(t) > r.length) /\ ~ (Len(t) < r.length)
        BY <1>1, <1>7, <2>1 DEF ReplaceInPlace
      <4> QED BY <4>1 DEF Closed, Opened
    <3>2. Mutate(Plain!Replacing(r, t))
      BY <1>1, <1>7, <2>1, <3>1, PlainReplace DEF ReplaceInPlace
    <3> QED BY <1>3, <1>6, <2>1, <3>2 DEF Plain!Replace
  <2>2. CASE ~ IsValid(r)
    BY <1>4, <1>6, <1>7, <2>2 DEF ReplaceInPlace, Throw, Plain!Replace
  <2> QED BY <2>1, <2>2
<1>8. ASSUME NEW r \in Ranges, NEW t \in Seq(Visible),
             IF IsValid(r) THEN Mutate(Closed(r, t)) ELSE Throw
      PROVE  Plain!Replace(r, t)
  BY <1>1, <1>3, <1>4, <1>6, <1>8, PlainReplace DEF Throw, Plain!Replace
<1>9. ASSUME NEW t \in Seq(Visible), SetData(t) PROVE Plain!Mutate(t)
  <2>1. Len(t) \in Nat
    BY LenProperties
  <2> DEFINE big == Resized(content, Len(t), 0)
             set == Overwrite(big, 0, t)
  <2>2. big \in Seq(Visible) /\ Len(big) = Len(t)
    BY <1>1, <2>1, ResizedIsSequence
  <2> HIDE DEF big
  <2>3. /\ set \in Seq(Visible) /\ Len(set) = Len(t)
        /\ \A i \in 1..Len(t) : set[i] =
              IF 0 < i /\ i <= 0 + Len(t) THEN t[i - 0] ELSE big[i]
    BY <2>2, OverwriteIsSequence
  <2>4. set = t
    <3>1. \A i \in 1..Len(set) : set[i] = t[i]
      BY <2>1, <2>3
    <3> QED BY <2>3, <3>1, SeqEqual
  <2>5. Mutate(set)
    BY <1>9 DEF SetData, big
  <2> QED BY <1>3, <2>4, <2>5
<1>10. ASSUME NEW n \in Lengths, InitWithCapacity(n) \/ InitNonZeroedCapacity(n)
       PROVE  Plain!Next
  BY <1>2, <1>10 DEF InitWithCapacity, InitNonZeroedCapacity, Plain!Next
<1>11. ASSUME NEW n \in Lengths, InitWithLength(n) PROVE Plain!Next
  BY <1>2, <1>6, <1>11 DEF InitWithLength, Plain!Next
<1>12. ASSUME NEW n \in Lengths, InitWithNull(n) PROVE Plain!Next
  BY <1>12 DEF InitWithNull, Plain!CreateThrows, Plain!Next
<1>13. ASSUME NEW n \in Lengths, SetLength(n) \/ SetLengthDontZero(n) PROVE Plain!Next
  BY <1>1, <1>13, PlainResize DEF SetLength, SetLengthDontZero, Plain!Next
<1>14. ASSUME NEW n \in Lengths, IncreaseLengthBy(n) PROVE Plain!Next
  BY <1>5, <1>6, <1>14 DEF IncreaseLengthBy, Plain!Next
<1>15. ASSUME NEW t \in Text, InitWithBytes(t) \/ InitWithCString(t) PROVE Plain!Next
  BY <1>2, <1>6, <1>15 DEF InitWithBytes, InitWithCString, Plain!Next
<1>16. ASSUME NEW t \in Text, AppendBytes(t) \/ AppendCString(t) PROVE Plain!Next
  BY <1>5, <1>6, <1>16 DEF AppendCString, Plain!Next
<1>17. ASSUME NEW t \in Text, SetData(t) PROVE Plain!Next
  BY <1>1, <1>9, <1>17 DEF Plain!Next
<1>18. ASSUME NEW r \in Ranges, AppendOwnBytes(r) PROVE Plain!Next
  BY <1>5, <1>6, <1>18 DEF AppendOwnBytes, Plain!Next
<1>19. ASSUME NEW r \in Ranges, ResetBytes(r) PROVE Plain!Next
  <2>1. Filled(r.length, 0) \in Seq(Visible)
    BY <1>1, FilledIsSequence
  <2> QED BY <1>6, <1>7, <1>19, <2>1 DEF ResetBytes, Plain!Next
<1>20. ASSUME NEW r \in Ranges, GetBytes(r) PROVE Plain!Next
  BY <1>4, <1>6, <1>20 DEF GetBytes, Plain!GetPart, Plain!Next
<1>21. ASSUME NEW r \in Ranges, NEW t \in Text, ReplaceInPlace(r, t) PROVE Plain!Next
  BY <1>1, <1>7, <1>21 DEF Plain!Next
<1>22. ASSUME NEW r \in Ranges, NEW t \in Text, ReplaceBytes(r, t) PROVE Plain!Next
  BY <1>1, <1>8, <1>22 DEF ReplaceBytes, Plain!Next
<1>23. ASSUME NEW r \in Ranges, NEW q \in Ranges, ReplaceWithOwnBytes(r, q)
       PROVE  Plain!ReplaceWithPart(r, q)
  <2>1. IsValid(q) /\ Plain!IsValid(q, Len(content))
        /\ q \in [location : Nat, length : Nat] /\ q.length \in Nat
    BY <1>1, <1>6, <1>23 DEF ReplaceWithOwnBytes
  <2>2. Part(content, q) \in Seq(Visible) /\ Part(content, q) = Plain!Part(content, q)
    BY <1>1, <1>6, <2>1, PartIsSequence DEF Part, IsValid, length
  <2>3. CASE ~ IsValid(r)
    BY <1>6, <1>8, <1>23, <2>1, <2>2, <2>3 DEF ReplaceWithOwnBytes, Plain!ReplaceWithPart
  <2>4. CASE IsValid(r) /\ ~ (q.length > r.length)
    <3>1. q.length <= r.length
      BY <1>1, <2>1, <2>4
    <3>2. Plain!Replace(r, Part(content, q))
      BY <1>8, <1>23, <2>2, <2>4 DEF ReplaceWithOwnBytes
    <3> QED BY <2>1, <2>2, <3>1, <3>2 DEF Plain!ReplaceWithPart
  <2>5. CASE IsValid(r) /\ q.length > r.length
    <3> DEFINE t == Reread(r, q)
    <3>1. t \in Seq(Visible) /\ Len(t) = q.length
      <4>1. /\ Opened(r, q.length) \in Seq(Visible)
            /\ Len(Opened(r, q.length)) >= length
        <5>1. Filled(q.length, 0) \in Seq(Visible) /\ Len(Filled(q.length, 0)) = q.length
          BY <1>1, <2>1, FilledIsSequence
        <5> QED BY <1>1, <2>5, <5>1, ReplacingSplices
      <4>2. /\ q.location \in Nat /\ q.length \in Nat
            /\ q.location + q.length <= Len(Opened(r, q.length))
        BY <1>1, <2>1, <4>1, LenProperties DEF IsValid
      <4>3. Part(Opened(r, q.length), q) \in Seq(Visible)
            /\ Len(Part(Opened(r, q.length), q)) = q.length
        BY <4>1, <4>2, PartIsSequence DEF Part
      <4> QED BY <2>1, <4>3, FilledIsSequence DEF Reread, Visible
    <3>2. Mutate(Closed(r, t))
      BY <1>23, <2>5 DEF ReplaceWithOwnBytes
    <3> HIDE DEF t
    <3>3. t \in [1..q.length -> Byte \cup {Junk}]
      <4>1. t = [i \in 1..Len(t) |-> t[i]] /\ \A i \in 1..Len(t) : t[i] \in Visible
        BY <3>1, ElementOfSeq, LenProperties
      <4> QED BY <3>1, <4>1 DEF Visible
    <3>4. Plain!Mutate(Plain!Replacing(r, t))
      BY <1>1, <1>3, <2>5, <3>1, <3>2, PlainReplace
    <3>5. ~ (q.length <= r.length \/ ~Plain!IsValid(r, Len(content)))
      BY <1>1, <1>6, <2>1, <2>5
    <3> QED BY <2>1, <3>3, <3>4, <3>5 DEF Plain!ReplaceWithPart
  <2> QED BY <2>3, <2>4, <2>5
<1>24. CASE SetDataToItself
  BY <1>1, <1>9, <1>24 DEF SetDataToItself, Plain!Next
<1>25. CASE Dealloc
  BY <1>25 DEF Dealloc, Plain!Destroy, Plain!Next
<1>26. CASE Bytes
  BY <1>4, <1>26 DEF Bytes, Plain!GetBytes, Plain!Next
<1>27. CASE MutableBytes
  <2>1. StoreFits(length)
    BY <1>27, StoreIsSetUp DEF MutableBytes
  <2>2. block' = NoBlock => content = <<>>
    BY <1>1, <2>1, EmptySeq DEF StoreFits, length
  <2> QED BY <1>4, <1>27, <2>2 DEF MutableBytes, Plain!GetMemory, Plain!Next
<1>28. CASE Copy
  BY <1>4, <1>28 DEF Copy, Plain!GetBytes, Plain!Next
<1> QED BY <1>10, <1>11, <1>12, <1>13, <1>14, <1>15, <1>16, <1>17, <1>18, <1>19, <1>20,
           <1>21, <1>22, <1>23, <1>24, <1>25, <1>26, <1>27, <1>28
        DEF Next, Plain!Next

(* A mutable data in its moving storage, written in place, grown and       *)
(* shrunk in several moves, implements one plain row of bytes.             *)
THEOREM ImplementsPlainData == Spec => PlainSpec
<1>1. Init => Plain!Init
  BY DEF Init, Plain!Init, Done, Plain!Done
<1>2. TypeOK /\ [Next]_vars => [Plain!Next]_(Plain!vars)
  BY StepIsPlain DEF vars, Plain!vars
<1> QED BY <1>1, <1>2, TypeCorrect, PTL DEF Spec, PlainSpec, Plain!Spec

=============================================================================
