----------------------------- MODULE RopeLemmas -----------------------------
(***************************************************************************)
(* What concatenating the strings of a rope yields.  The concatenation is  *)
(* defined by recursion on their number, so these facts are proved by      *)
(* induction, as: a set of numbers that is not empty has a least one.      *)
(***************************************************************************)
EXTENDS Integers, Sequences, SequencesExt, SequenceTheorems, WellFoundedInduction, TLAPS

(* A set of natural numbers has a least element.                           *)
LEMMA LeastNumber ==
    ASSUME NEW T, T \subseteq Nat, T # {}
    PROVE  \E x \in T : \A y \in T : x <= y
<1> DEFINE R == {ss \in Nat \X Nat : ss[1] < ss[2]}
<1>1. IsWellFoundedOn(R, Nat)
  BY ONLY NatLessThanWellFounded DEF OpToRel
<1>2. \E x \in T : \A y \in T : ~ (<<y, x>> \in R)
  <2> HIDE DEF R
  <2> QED BY <1>1, WFMin
<1>3. PICK x \in T : \A y \in T : ~ (<<y, x>> \in R)
  BY <1>2
<1>4. \A y \in T : x <= y
  <2> TAKE y \in T
  <2>1. x \in Nat /\ y \in Nat
    OBVIOUS
  <2>2. y < x => <<y, x>> \in R
    BY <2>1
  <2> QED BY <1>3, <2>1, <2>2
<1> QED BY <1>4

(* Induction over the numbers up to n, for a set of them.                  *)
LEMMA Induction ==
    ASSUME NEW n \in Nat, NEW S, 0 \in S,
           \A i \in 0..n : i < n /\ i \in S => i + 1 \in S
    PROVE  0..n \subseteq S
<1> SUFFICES ASSUME (0..n) \ S # {} PROVE FALSE
  OBVIOUS
<1>1. PICK x \in (0..n) \ S : \A y \in (0..n) \ S : x <= y
  BY LeastNumber, (0..n) \ S \subseteq Nat
<1>2. x # 0 /\ x \in 1..n
  OBVIOUS
<1>3. x - 1 \in S
  BY <1>1, <1>2
<1>4. (x - 1) + 1 \in S
  BY <1>2, <1>3
<1> QED BY <1>2, <1>4

Prefix(f, seqs, n) == \A i \in 1..n : f[i] = IF i = 1 THEN seqs[i] ELSE f[i - 1] \o seqs[i]

(* The concatenations of the first strings exist.                          *)
LEMMA PrefixesExist ==
    ASSUME NEW n \in Nat, NEW seqs
    PROVE  \E f : f = [i \in 1..n |-> IF i = 1 THEN seqs[i] ELSE f[i - 1] \o seqs[i]]
<1> DEFINE Is(f, m) == f = [i \in 1..m |-> f[i]] /\ Prefix(f, seqs, m)
           S == {m \in 0..n : \E f : Is(f, m)}
<1>1. 0 \in S
  <2> DEFINE e == [i \in 1..0 |-> 0]
  <2>1. Is(e, 0)
    BY DEF Prefix
  <2> HIDE DEF e, Is
  <2> QED BY <2>1
<1>2. \A m \in 0..n : m < n /\ m \in S => m + 1 \in S
  <2> SUFFICES ASSUME NEW m \in 0..n, m < n, m \in S PROVE m + 1 \in S
    OBVIOUS
  <2>1. PICK f : Is(f, m)
    OBVIOUS
  <2>2. \A i \in 1..m : f[i] = IF i = 1 THEN seqs[i] ELSE f[i - 1] \o seqs[i]
    BY <2>1 DEF Prefix
  <2> DEFINE g == [i \in 1..(m + 1) |->
                      IF i <= m THEN f[i]
                      ELSE IF i = 1 THEN seqs[i] ELSE f[i - 1] \o seqs[i]]
  <2>3. g = [i \in 1..(m + 1) |-> g[i]]
    OBVIOUS
  <2>4. Prefix(g, seqs, m + 1)
    <3> SUFFICES ASSUME NEW i \in 1..(m + 1)
                 PROVE  g[i] = IF i = 1 THEN seqs[i] ELSE g[i - 1] \o seqs[i]
      BY DEF Prefix
    <3>1. CASE i <= m
      <4>1. i \in 1..m /\ f[i] = IF i = 1 THEN seqs[i] ELSE f[i - 1] \o seqs[i]
        BY <2>2, <3>1
      <4>2. i # 1 => i - 1 \in 1..(m + 1) /\ i - 1 <= m
        BY <3>1
      <4> QED BY <3>1, <4>1, <4>2
    <3>2. CASE i = m + 1
      <4>2. i # 1 => i - 1 \in 1..(m + 1) /\ i - 1 <= m
        BY <3>2
      <4>3. ~ (i <= m)
        BY <3>2
      <4> QED BY <4>2, <4>3
    <3> QED BY <3>1, <3>2
  <2>5. Is(g, m + 1)
    BY <2>3, <2>4
  <2>6. m + 1 \in 0..n
    OBVIOUS
  <2> HIDE DEF g, Is
  <2> QED BY <2>5, <2>6
<1>3. n \in S
  <2> HIDE DEF S
  <2> QED BY <1>1, <1>2, Induction
<1>4. PICK f : Is(f, n)
  BY <1>3
<1>5. f = [i \in 1..n |-> IF i = 1 THEN seqs[i] ELSE f[i - 1] \o seqs[i]]
  BY <1>4 DEF Prefix
<1> QED BY <1>5

(* The concatenation of texts is a text.                                   *)
LEMMA ConcatenationIsText ==
    ASSUME NEW C, NEW seqs \in Seq(Seq(C))
    PROVE  FlattenSeq(seqs) \in Seq(C)
<1> DEFINE n == Len(seqs)
<1>1. n \in Nat /\ \A i \in 1..n : seqs[i] \in Seq(C)
  BY LenProperties, ElementOfSeq
<1>2. CASE n = 0
  <2>1. seqs = << >>
    BY <1>2, EmptySeq
  <2> QED BY <1>2, <2>1, EmptySeq DEF FlattenSeq
<1>3. CASE n # 0
  <2> DEFINE f == CHOOSE f : f = [i \in 1..n |-> IF i = 1 THEN seqs[i]
                                                 ELSE f[i - 1] \o seqs[i]]
  <2>1. f = [i \in 1..n |-> IF i = 1 THEN seqs[i] ELSE f[i - 1] \o seqs[i]]
    BY <1>1, PrefixesExist
  <2>2. FlattenSeq(seqs) = f[n]
    BY <1>3 DEF FlattenSeq
  <2> HIDE DEF f
  <2> DEFINE S == {i \in 0..n : i > 0 => f[i] \in Seq(C)}
  <2>3. 0 \in S
    BY <1>1
  <2>4. \A i \in 0..n : i < n /\ i \in S => i + 1 \in S
    <3> SUFFICES ASSUME NEW i \in 0..n, i < n, i \in S PROVE f[i + 1] \in Seq(C)
      BY <1>1
    <3>1. i + 1 \in 1..n /\ seqs[i + 1] \in Seq(C)
      BY <1>1
    <3>2. f[i + 1] = IF i + 1 = 1 THEN seqs[i + 1] ELSE f[(i + 1) - 1] \o seqs[i + 1]
      BY <2>1, <3>1
    <3>3. CASE i = 0
      BY <3>1, <3>2, <3>3
    <3>4. CASE i # 0
      <4>1. f[i] \in Seq(C)
        BY <3>4
      <4>2. f[i + 1] = f[i] \o seqs[i + 1]
        <5>1. (i + 1) - 1 = i /\ i + 1 # 1
          BY <3>4
        <5> QED BY <3>2, <5>1
      <4> QED BY <3>1, <4>1, <4>2, ConcatProperties
    <3> QED BY <3>3, <3>4
  <2>5. 0..n \subseteq S
    <3> HIDE DEF S, n
    <3>1. n \in Nat
      BY <1>1
    <3> QED BY ONLY <3>1, <2>3, <2>4, Induction
  <2> QED BY <1>1, <1>3, <2>2, <2>5
<1> QED BY <1>2, <1>3

-----------------------------------------------------------------------------
(* A function that is defined by recursion over the numbers up to n, with  *)
(* F for its step, exists.                                                 *)
IsStep(F, n, V) == F \in [(1..n) \X V -> V]

IsRecursive(f, n, V, b, F) ==
    /\ f \in [0..n -> V] /\ f[0] = b
    /\ \A i \in 1..n : f[i] = F[<<i, f[i - 1]>>]

LEMMA RecursionExists ==
    ASSUME NEW n \in Nat, NEW V, NEW b \in V, NEW F, IsStep(F, n, V)
    PROVE  \E f : IsRecursive(f, n, V, b, F)
<1> USE DEF IsStep
<1> DEFINE Is(f, m) == /\ f \in [0..m -> V] /\ f[0] = b
                       /\ \A i \in 1..m : f[i] = F[<<i, f[i - 1]>>]
           S == {m \in 0..n : \E f : Is(f, m)}
<1>1. 0 \in S
  <2>1. PICK e : e = [i \in 0..0 |-> b]
    OBVIOUS
  <2>2. Is(e, 0)
    BY <2>1
  <2> HIDE DEF Is
  <2> QED BY <2>2
<1>2. \A m \in 0..n : m < n /\ m \in S => m + 1 \in S
  <2> SUFFICES ASSUME NEW m \in 0..n, m < n, m \in S PROVE m + 1 \in S
    OBVIOUS
  <2>1. PICK f : Is(f, m)
    OBVIOUS
  <2>2. PICK x : x = F[<<m + 1, f[m]>>]
    OBVIOUS
  <2>3. x \in V
    <3>1. <<m + 1, f[m]>> \in (1..n) \X V
      BY <2>1
    <3> QED BY <2>2, <3>1
  <2>4. PICK g : g = [i \in 0..(m + 1) |-> IF i <= m THEN f[i] ELSE x]
    OBVIOUS
  <2>5. g \in [0..(m + 1) -> V]
    <3>1. \A i \in 0..(m + 1) : i <= m => i \in 0..m
      OBVIOUS
    <3> QED BY <2>1, <2>3, <2>4, <3>1
  <2>6. g[0] = b
    BY <2>1, <2>4
  <2>7. \A i \in 1..(m + 1) : g[i] = F[<<i, g[i - 1]>>]
    <3> SUFFICES ASSUME NEW i \in 1..(m + 1) PROVE g[i] = F[<<i, g[i - 1]>>]
      OBVIOUS
    <3>1. i - 1 \in 0..(m + 1) /\ i - 1 <= m /\ g[i - 1] = f[i - 1]
      BY <2>4
    <3>2. CASE i <= m
      BY <2>1, <2>4, <3>1, <3>2
    <3>3. CASE i = m + 1
      <4>1. ~ (i <= m) /\ i - 1 = m
        BY <3>3
      <4> QED BY <2>2, <2>4, <3>1, <3>3, <4>1
    <3> QED BY <3>2, <3>3
  <2>8. Is(g, m + 1) /\ m + 1 \in 0..n
    BY <2>5, <2>6, <2>7
  <2> HIDE DEF Is
  <2> QED BY <2>8
<1>3. n \in S
  <2> HIDE DEF S
  <2> QED BY <1>1, <1>2, Induction
<1> QED BY <1>3 DEF IsRecursive

(* The values of a function with these equations have their type.          *)
Follows(f, n, V, b, F) ==
    f[0] = b /\ \A i \in 1..n : f[i - 1] \in V => f[i] = F[<<i, f[i - 1]>>]

LEMMA RecursionIsTyped ==
    ASSUME NEW n \in Nat, NEW V, NEW b \in V, NEW F, IsStep(F, n, V),
           NEW f, Follows(f, n, V, b, F)
    PROVE  \A i \in 0..n : f[i] \in V
<1> USE DEF Follows
<1> DEFINE S == {i \in 0..n : f[i] \in V}
<1>1. 0 \in S
  OBVIOUS
<1>2. \A i \in 0..n : i < n /\ i \in S => i + 1 \in S
  <2> SUFFICES ASSUME NEW i \in 0..n, i < n, i \in S PROVE i + 1 \in S
    OBVIOUS
  <2>1. i + 1 \in 0..n /\ i + 1 \in 1..n /\ (i + 1) - 1 = i
    OBVIOUS
  <2>2. f[i + 1] = F[<<i + 1, f[i]>>]
    BY <2>1
  <2>3. <<i + 1, f[i]>> \in (1..n) \X V
    BY <2>1
  <2> QED BY <2>1, <2>2, <2>3 DEF IsStep
<1>3. n \in Nat
  OBVIOUS
<1>4. 0..n \subseteq S
  <2> HIDE DEF S
  <2> QED BY ONLY <1>1, <1>2, <1>3, Induction
<1> QED BY <1>4

-----------------------------------------------------------------------------
(* The concatenations of the first strings, and of all of them.            *)
Joins(p, seqs, C) ==
    /\ p \in [0..Len(seqs) -> Seq(C)]
    /\ p[0] = << >>
    /\ \A i \in 1..Len(seqs) : p[i] = p[i - 1] \o seqs[i]
    /\ FlattenSeq(seqs) = p[Len(seqs)]

LEMMA JoinsExist ==
    ASSUME NEW C, NEW seqs \in Seq(Seq(C))
    PROVE  \E p : Joins(p, seqs, C)
<1>1. PICK n \in Nat : n = Len(seqs)
  BY LenProperties
<1>2. \A i \in 1..n : seqs[i] \in Seq(C)
  BY <1>1, ElementOfSeq
<1>3. CASE n = 0
  <2>1. seqs = << >> /\ << >> \in Seq(C)
    BY <1>1, <1>3, EmptySeq
  <2>2. PICK p : p = [i \in 0..0 |-> << >>]
    OBVIOUS
  <2>3. FlattenSeq(seqs) = << >>
    BY <1>1, <1>3, <2>1 DEF FlattenSeq
  <2>4. p \in [0..0 -> Seq(C)] /\ p[0] = << >>
    BY <2>1, <2>2
  <2> QED BY <1>1, <1>3, <2>3, <2>4 DEF Joins
<1>4. CASE n # 0
  <2> DEFINE f == CHOOSE f : f = [i \in 1..n |-> IF i = 1 THEN seqs[i]
                                                 ELSE f[i - 1] \o seqs[i]]
  <2>1. f = [i \in 1..n |-> IF i = 1 THEN seqs[i] ELSE f[i - 1] \o seqs[i]]
    BY <1>1, PrefixesExist
  <2>2. FlattenSeq(seqs) = f[n]
    BY <1>1, <1>4 DEF FlattenSeq
  <2> HIDE DEF f
  <2> DEFINE V == Seq(C)
  <2>3. PICK F : F = [x \in (1..n) \X V |-> x[2] \o seqs[x[1]]]
    OBVIOUS
  <2>4. IsStep(F, n, V)
    BY <1>2, <2>3, ConcatProperties DEF IsStep
  <2>5. PICK none \in V : none = << >>
    BY EmptySeq
  <2>11. PICK p : IsRecursive(p, n, V, none, F)
    <3> HIDE DEF V
    <3> QED BY <2>4, RecursionExists
  <2>6. /\ p \in [0..n -> V] /\ p[0] = none
        /\ \A i \in 1..n : p[i] = F[<<i, p[i - 1]>>]
    BY <2>11 DEF IsRecursive
  <2>7. \A i \in 1..n : p[i] = p[i - 1] \o seqs[i]
    <3> SUFFICES ASSUME NEW i \in 1..n PROVE p[i] = p[i - 1] \o seqs[i]
      OBVIOUS
    <3>1. <<i, p[i - 1]>> \in (1..n) \X Seq(C)
      BY <2>6
    <3> QED BY <2>3, <2>6, <3>1
  <2> DEFINE S == {i \in 0..n : i > 0 => f[i] = p[i]}
  <2>8. 0 \in S
    OBVIOUS
  <2>9. \A i \in 0..n : i < n /\ i \in S => i + 1 \in S
    <3> SUFFICES ASSUME NEW i \in 0..n, i < n, i \in S PROVE i + 1 \in S
      OBVIOUS
    <3>1. i + 1 \in 0..n /\ i + 1 \in 1..n /\ (i + 1) - 1 = i
      OBVIOUS
    <3> SUFFICES f[i + 1] = p[i + 1]
      BY <3>1
    <3>2. f[i + 1] = IF i + 1 = 1 THEN seqs[i + 1] ELSE f[(i + 1) - 1] \o seqs[i + 1]
      BY <2>1, <3>1
    <3>3. p[i + 1] = p[i] \o seqs[i + 1]
      BY <2>7, <3>1
    <3>4. CASE i = 0
      <4>1. f[i + 1] = seqs[i + 1] /\ seqs[i + 1] \in Seq(C)
        BY <1>2, <3>1, <3>2, <3>4
      <4> QED BY <2>5, <2>6, <3>3, <3>4, <4>1, ConcatEmptySeq
    <3>5. CASE i # 0
      <4>1. f[i] = p[i] /\ i + 1 # 1
        BY <3>5
      <4> QED BY <3>1, <3>2, <3>3, <4>1
    <3> QED BY <3>4, <3>5
  <2>10. f[n] = p[n]
    <3>1. n \in Nat
      OBVIOUS
    <3>2. 0..n \subseteq S
      <4> HIDE DEF S
      <4> QED BY ONLY <2>8, <2>9, <3>1, Induction
    <3> QED BY <1>4, <3>2
  <2> QED BY <1>1, <2>2, <2>5, <2>6, <2>7, <2>10 DEF Joins
<1> QED BY <1>3, <1>4

(* Appending a string to a rope appends its text.                          *)
LEMMA JoinOfAppend ==
    ASSUME NEW C, NEW seqs \in Seq(Seq(C)), NEW t \in Seq(C)
    PROVE  FlattenSeq(Append(seqs, t)) = FlattenSeq(seqs) \o t
<1>1. PICK n \in Nat : n = Len(seqs)
  BY LenProperties
<1>2. PICK more : more = Append(seqs, t)
  OBVIOUS
<1>3. /\ more \in Seq(Seq(C)) /\ Len(more) = n + 1
      /\ more[n + 1] = t /\ \A i \in 1..n : more[i] = seqs[i]
  BY <1>1, <1>2, AppendProperties
<1>4. PICK p : Joins(p, seqs, C)
  BY JoinsExist
<1>5. PICK q : Joins(q, more, C)
  BY <1>3, JoinsExist
<1>6. /\ p[0] = << >> /\ FlattenSeq(seqs) = p[n]
      /\ \A i \in 1..n : p[i] = p[i - 1] \o seqs[i]
  BY <1>1, <1>4 DEF Joins
<1>7. /\ q[0] = << >> /\ FlattenSeq(more) = q[n + 1]
      /\ \A i \in 1..(n + 1) : q[i] = q[i - 1] \o more[i]
  BY <1>3, <1>5 DEF Joins
<1> DEFINE S == {i \in 0..n : p[i] = q[i]}
<1>8. 0 \in S
  BY <1>6, <1>7
<1>9. \A i \in 0..n : i < n /\ i \in S => i + 1 \in S
  <2> SUFFICES ASSUME NEW i \in 0..n, i < n, i \in S PROVE i + 1 \in S
    OBVIOUS
  <2>1. i + 1 \in 0..n /\ i + 1 \in 1..n /\ i + 1 \in 1..(n + 1) /\ (i + 1) - 1 = i
    OBVIOUS
  <2>2. p[i + 1] = p[i] \o seqs[i + 1]
    BY <1>6, <2>1
  <2>3. q[i + 1] = q[i] \o more[i + 1]
    BY <1>7, <2>1
  <2> QED BY <1>3, <2>1, <2>2, <2>3
<1>10. n \in S
  <2>1. n \in Nat
    OBVIOUS
  <2>2. 0..n \subseteq S
    <3> HIDE DEF S
    <3> QED BY ONLY <1>8, <1>9, <2>1, Induction
  <2> QED BY <2>2
<1>11. q[n + 1] = q[n] \o t
  <2>1. n + 1 \in 1..(n + 1) /\ (n + 1) - 1 = n
    OBVIOUS
  <2> QED BY <1>3, <1>7, <2>1
<1> QED BY <1>2, <1>6, <1>7, <1>10, <1>11

LEMMA JoinOfNone == FlattenSeq(<< >>) = << >>
BY DEF FlattenSeq

LEMMA JoinOfOne == ASSUME NEW C, NEW a \in Seq(C) PROVE FlattenSeq(<<a>>) = a
<1>1. << >> \in Seq(Seq(C)) /\ Append(<< >>, a) = <<a>>
  BY EmptySeq
<1>2. FlattenSeq(Append(<< >>, a)) = << >> \o a
  BY <1>1, JoinOfNone, JoinOfAppend
<1> QED BY <1>1, <1>2, ConcatEmptySeq

LEMMA JoinOfTwo ==
    ASSUME NEW C, NEW a \in Seq(C), NEW b \in Seq(C)
    PROVE  FlattenSeq(<<a, b>>) = a \o b
<1> DEFINE T == Seq(C)
<1>1. <<a>> \in Seq(T)
  OBVIOUS
<1>3. Append(<<a>>, b) = <<a, b>>
  <2>1. /\ <<a, b>> \in Seq(T) /\ b \in T
        /\ Len(<<a>>) = 1 /\ Len(<<a, b>>) = 2
    OBVIOUS
  <2> HIDE DEF T
  <2>2. PICK x : x = Append(<<a>>, b)
    OBVIOUS
  <2>3. x \in Seq(T) /\ Len(x) = 1 + 1 /\ x[1] = <<a>>[1] /\ x[1 + 1] = b
    BY <1>1, <2>1, <2>2, AppendProperties
  <2>4. PICK y \in Seq(T) : y = <<a, b>>
    BY <2>1
  <2>5. Len(x) = Len(y) /\ \A i \in 1..Len(x) : x[i] = y[i]
    BY <2>1, <2>3, <2>4
  <2>6. x = y
    BY <2>3, <2>5, SeqEqual
  <2> QED BY <2>2, <2>4, <2>6
<1>2. FlattenSeq(Append(<<a>>, b)) = FlattenSeq(<<a>>) \o b
  BY <1>1, JoinOfAppend
<1> QED BY <1>2, <1>3, JoinOfOne

LEMMA JoinOfThree ==
    ASSUME NEW C, NEW a \in Seq(C), NEW b \in Seq(C), NEW c \in Seq(C)
    PROVE  FlattenSeq(<<a, b, c>>) = a \o b \o c
<1> DEFINE T == Seq(C)
<1>1. <<a, b>> \in Seq(T)
  OBVIOUS
<1>2. Append(<<a, b>>, c) = <<a, b, c>>
  <2>1. /\ <<a, b, c>> \in Seq(T) /\ c \in T
        /\ Len(<<a, b>>) = 2 /\ Len(<<a, b, c>>) = 3
    OBVIOUS
  <2> HIDE DEF T
  <2>2. PICK x : x = Append(<<a, b>>, c)
    OBVIOUS
  <2>3. /\ x \in Seq(T) /\ Len(x) = 2 + 1
        /\ x[1] = <<a, b>>[1] /\ x[2] = <<a, b>>[2] /\ x[2 + 1] = c
    BY <1>1, <2>1, <2>2, AppendProperties
  <2>4. PICK y \in Seq(T) : y = <<a, b, c>>
    BY <2>1
  <2>5. Len(x) = Len(y) /\ \A i \in 1..Len(x) : x[i] = y[i]
    BY <2>1, <2>3, <2>4
  <2>6. x = y
    BY <2>3, <2>5, SeqEqual
  <2> QED BY <2>2, <2>4, <2>6
<1>3. FlattenSeq(Append(<<a, b>>, c)) = FlattenSeq(<<a, b>>) \o c
  BY <1>1, JoinOfAppend
<1> QED BY <1>2, <1>3, JoinOfTwo

(* Two ropes that begin with the same strings begin with the same text.    *)
LEMMA JoinsOfSameStrings ==
    ASSUME NEW C, NEW s \in Seq(Seq(C)), NEW t \in Seq(Seq(C)),
           NEW p, Joins(p, s, C), NEW q, Joins(q, t, C),
           NEW n \in Nat, n <= Len(s), n <= Len(t), \A i \in 1..n : s[i] = t[i]
    PROVE  p[n] = q[n]
<1>1. Len(s) \in Nat /\ Len(t) \in Nat
  BY LenProperties
<1>7. /\ p[0] = << >> /\ \A i \in 1..Len(s) : p[i] = p[i - 1] \o s[i]
      /\ q[0] = << >> /\ \A i \in 1..Len(t) : q[i] = q[i - 1] \o t[i]
  BY Zenon DEF Joins
<1>8. \A i \in 1..n : i \in 1..Len(s) /\ i \in 1..Len(t)
  BY <1>1
<1>2. /\ p[0] = << >> /\ \A i \in 1..n : p[i] = p[i - 1] \o s[i]
      /\ q[0] = << >> /\ \A i \in 1..n : q[i] = q[i - 1] \o t[i]
  BY <1>7, <1>8, Zenon
<1> DEFINE S == {i \in 0..n : p[i] = q[i]}
<1>3. 0 \in S
  BY <1>2
<1>4. \A i \in 0..n : i < n /\ i \in S => i + 1 \in S
  <2> SUFFICES ASSUME NEW i \in 0..n, i < n, i \in S PROVE i + 1 \in S
    OBVIOUS
  <2>1. i + 1 \in 0..n /\ i + 1 \in 1..n /\ (i + 1) - 1 = i
    OBVIOUS
  <2>2. p[i + 1] = p[i] \o s[i + 1]
    BY <1>2, <2>1
  <2>3. q[i + 1] = q[i] \o t[i + 1]
    BY <1>2, <2>1
  <2>4. s[i + 1] = t[i + 1]
    BY <2>1
  <2>5. p[i + 1] = q[i + 1]
    BY <2>2, <2>3, <2>4
  <2> QED BY <2>1, <2>5
<1>5. n \in Nat
  OBVIOUS
<1>6. 0..n \subseteq S
  <2> HIDE DEF S
  <2> QED BY ONLY <1>3, <1>4, <1>5, Induction
<1> QED BY <1>6

LEMMA JoinOfPrefix ==
    ASSUME NEW C, NEW seqs \in Seq(Seq(C)), NEW p, Joins(p, seqs, C),
           NEW sub \in Seq(Seq(C)), Len(sub) <= Len(seqs),
           \A i \in 1..Len(sub) : sub[i] = seqs[i]
    PROVE  FlattenSeq(sub) = p[Len(sub)]
<1>1. PICK q : Joins(q, sub, C)
  BY JoinsExist
<1>2. FlattenSeq(sub) = q[Len(sub)]
  BY <1>1 DEF Joins
<1>3. Len(sub) \in Nat
  BY LenProperties
<1>4. p[Len(sub)] = q[Len(sub)]
  <2> DEFINE n == Len(sub)
  <2>1. n \in Nat /\ n <= Len(seqs) /\ n <= Len(sub) /\ \A i \in 1..n : seqs[i] = sub[i]
    BY <1>3
  <2> HIDE DEF n
  <2>2. p[n] = q[n]
    BY <1>1, <2>1, JoinsOfSameStrings
  <2> QED BY <2>2 DEF n
<1> QED BY <1>2, <1>4

(* The text of two ropes, one after the other.                             *)
LEMMA JoinOfConcat ==
    ASSUME NEW C, NEW s \in Seq(Seq(C)), NEW t \in Seq(Seq(C))
    PROVE  FlattenSeq(s \o t) = FlattenSeq(s) \o FlattenSeq(t)
<1>1. PICK m \in Nat, n \in Nat : m = Len(s) /\ n = Len(t)
  BY LenProperties
<1>2. PICK u \in Seq(Seq(C)) : u = s \o t
  BY ConcatProperties
<1>3. Len(u) = m + n /\ \A i \in 1..(m + n) : u[i] = IF i <= m THEN s[i] ELSE t[i - m]
  BY <1>1, <1>2, ConcatProperties
<1>4. PICK p : Joins(p, u, C)
  BY JoinsExist
<1>5. PICK q : Joins(q, t, C)
  BY JoinsExist
<1>6. PICK a \in Seq(C) : a = FlattenSeq(s)
  BY ConcatenationIsText
<1>7. p[m] = a
  <2>1. Len(s) <= Len(u) /\ \A i \in 1..Len(s) : s[i] = u[i]
    BY <1>1, <1>3
  <2>2. FlattenSeq(s) = p[Len(s)]
    BY <1>4, <2>1, JoinOfPrefix
  <2> QED BY <1>1, <1>6, <2>2
<1>8. /\ FlattenSeq(u) = p[m + n]
      /\ \A i \in 1..(m + n) : p[i] = p[i - 1] \o u[i]
  BY <1>3, <1>4 DEF Joins
<1>9. /\ q \in [0..n -> Seq(C)] /\ q[0] = << >> /\ FlattenSeq(t) = q[n]
      /\ \A i \in 1..n : q[i] = q[i - 1] \o t[i]
  BY <1>1, <1>5 DEF Joins
<1> DEFINE S == {i \in 0..n : p[m + i] = a \o q[i]}
<1>10. 0 \in S
  <2>1. a \o << >> = a
    BY ONLY a \in Seq(C), ConcatEmptySeq
  <2>2. m + 0 = m /\ 0 \in 0..n
    OBVIOUS
  <2> QED BY <1>7, <1>9, <2>1, <2>2
<1>11. \A i \in 0..n : i < n /\ i \in S => i + 1 \in S
  <2> SUFFICES ASSUME NEW i \in 0..n, i < n, i \in S PROVE i + 1 \in S
    OBVIOUS
  <2>1. /\ i + 1 \in 0..n /\ i + 1 \in 1..n /\ m + (i + 1) \in 1..(m + n)
        /\ (m + (i + 1)) - 1 = m + i /\ (i + 1) - 1 = i
        /\ ~ (m + (i + 1) <= m) /\ (m + (i + 1)) - m = i + 1
    OBVIOUS
  <2>2. PICK b \in Seq(C) : b = q[i]
    BY <1>9
  <2>3. PICK c \in Seq(C) : c = t[i + 1]
    BY <1>1, <2>1, ElementOfSeq
  <2>4. p[m + (i + 1)] = p[m + i] \o u[m + (i + 1)] /\ u[m + (i + 1)] = c
    BY <1>3, <1>8, <2>1, <2>3
  <2>5. q[i + 1] = b \o c
    BY <1>9, <2>1, <2>2, <2>3
  <2>6. p[m + i] = a \o b
    BY <2>2
  <2>7. (a \o b) \o c = a \o (b \o c)
    BY ONLY a \in Seq(C), b \in Seq(C), c \in Seq(C), ConcatAssociative
  <2> QED BY <2>1, <2>4, <2>5, <2>6, <2>7
<1>12. n \in S
  <2>1. n \in Nat
    OBVIOUS
  <2>2. 0..n \subseteq S
    <3> HIDE DEF S
    <3> QED BY ONLY <1>10, <1>11, <2>1, Induction
  <2> HIDE DEF S
  <2> QED BY <2>2
<1> QED BY <1>2, <1>6, <1>8, <1>9, <1>12

-----------------------------------------------------------------------------
(* The m characters of a text from index i on.                             *)
IsPart(x, t, i, m, C) ==
    x \in Seq(C) /\ Len(x) = m /\ \A j \in 1..m : x[j] = t[i + j]

LEMMA PartOfText ==
    ASSUME NEW C, NEW t \in Seq(C), NEW i \in Nat, NEW m \in Nat, i + m <= Len(t)
    PROVE  IsPart(SubSeq(t, i + 1, i + m), t, i, m, C)
<1>1. PICK x \in Int, y \in Int : x = i + 1 /\ y = i + m
  OBVIOUS
<1>2. Len(t) \in Nat /\ \A j \in 1..Len(t) : t[j] \in C
  BY LenProperties, ElementOfSeq
<1>3. \A j \in x..y : t[j] \in C
  <2>1. \A j \in x..y : j \in 1..Len(t)
    BY <1>1, <1>2
  <2> QED BY <1>2, <2>1
<1>4. PICK u : u = SubSeq(t, x, y)
  OBVIOUS
<1>5. /\ u \in Seq(C) /\ Len(u) = IF x <= y THEN y - x + 1 ELSE 0
      /\ \A j \in 1..(y - x + 1) : u[j] = t[x + j - 1]
  BY <1>3, <1>4, SubSeqProperties
<1>6. Len(u) = m /\ y - x + 1 = m
  BY <1>1, <1>5
<1>7. \A j \in 1..m : x + j - 1 = i + j
  BY <1>1
<1>8. IsPart(u, t, i, m, C)
  BY <1>5, <1>6, <1>7 DEF IsPart
<1> QED BY <1>1, <1>4, <1>8

(* A part of two texts, one after the other: in the first, in the second,  *)
(* or from the one into the other.                                         *)
LEMMA PartOfFirst ==
    ASSUME NEW C, NEW a \in Seq(C), NEW b \in Seq(C),
           NEW i \in Nat, NEW m \in Nat, i + m <= Len(a)
    PROVE  SubSeq(a \o b, i + 1, i + m) = SubSeq(a, i + 1, i + m)
<1>1. PICK u \in Seq(C) : u = a \o b
  BY ConcatProperties
<1>2. PICK k \in Nat, n \in Nat : k = Len(a) /\ n = Len(b)
  BY LenProperties
<1>3. Len(u) = k + n /\ \A j \in 1..(k + n) : u[j] = IF j <= k THEN a[j] ELSE b[j - k]
  BY <1>1, <1>2, ConcatProperties
<1>4. i + m <= Len(u)
  BY <1>2, <1>3
<1>5. PICK x : x = SubSeq(u, i + 1, i + m)
  OBVIOUS
<1>6. PICK y : y = SubSeq(a, i + 1, i + m)
  OBVIOUS
<1>7. x \in Seq(C) /\ Len(x) = m /\ \A j \in 1..m : x[j] = u[i + j]
  <2>1. IsPart(SubSeq(u, i + 1, i + m), u, i, m, C)
    BY ONLY u \in Seq(C), i \in Nat, m \in Nat, <1>4, PartOfText
  <2> QED BY <1>5, <2>1 DEF IsPart
<1>8. y \in Seq(C) /\ Len(y) = m /\ \A j \in 1..m : y[j] = a[i + j]
  <2>1. IsPart(SubSeq(a, i + 1, i + m), a, i, m, C)
    BY ONLY a \in Seq(C), i \in Nat, m \in Nat, i + m <= Len(a), PartOfText
  <2> QED BY <1>6, <2>1 DEF IsPart
<1>9. \A j \in 1..m : u[i + j] = a[i + j]
  BY <1>2, <1>3
<1>10. x = y
  <2>1. Len(x) = Len(y) /\ \A j \in 1..Len(x) : x[j] = y[j]
    BY <1>7, <1>8, <1>9
  <2> QED BY <1>7, <1>8, <2>1, SeqEqual
<1> QED BY <1>1, <1>5, <1>6, <1>10

LEMMA PartOfSecond ==
    ASSUME NEW C, NEW a \in Seq(C), NEW b \in Seq(C),
           NEW i \in Nat, NEW m \in Nat, i + m <= Len(b)
    PROVE  SubSeq(a \o b, Len(a) + i + 1, Len(a) + i + m) = SubSeq(b, i + 1, i + m)
<1>1. PICK u \in Seq(C) : u = a \o b
  BY ConcatProperties
<1>2. PICK k \in Nat, n \in Nat : k = Len(a) /\ n = Len(b)
  BY LenProperties
<1>3. Len(u) = k + n /\ \A j \in 1..(k + n) : u[j] = IF j <= k THEN a[j] ELSE b[j - k]
  BY <1>1, <1>2, ConcatProperties
<1>4. PICK l \in Nat : l = k + i
  OBVIOUS
<1>5. l + m <= Len(u)
  BY <1>2, <1>3, <1>4
<1>6. PICK x : x = SubSeq(u, l + 1, l + m)
  OBVIOUS
<1>7. PICK y : y = SubSeq(b, i + 1, i + m)
  OBVIOUS
<1>8. x \in Seq(C) /\ Len(x) = m /\ \A j \in 1..m : x[j] = u[l + j]
  <2>1. IsPart(SubSeq(u, l + 1, l + m), u, l, m, C)
    BY ONLY u \in Seq(C), l \in Nat, m \in Nat, <1>5, PartOfText
  <2> QED BY <1>6, <2>1 DEF IsPart
<1>9. y \in Seq(C) /\ Len(y) = m /\ \A j \in 1..m : y[j] = b[i + j]
  <2>1. IsPart(SubSeq(b, i + 1, i + m), b, i, m, C)
    BY ONLY b \in Seq(C), i \in Nat, m \in Nat, i + m <= Len(b), PartOfText
  <2> QED BY <1>7, <2>1 DEF IsPart
<1>10. \A j \in 1..m : u[l + j] = b[i + j]
  <2> TAKE j \in 1..m
  <2>1. l + j \in 1..(k + n) /\ ~ (l + j <= k) /\ (l + j) - k = i + j
    BY <1>2, <1>4
  <2> QED BY <1>3, <2>1
<1>11. x = y
  <2>1. Len(x) = Len(y) /\ \A j \in 1..Len(x) : x[j] = y[j]
    BY <1>8, <1>9, <1>10
  <2> QED BY <1>8, <1>9, <2>1, SeqEqual
<1> QED BY <1>1, <1>2, <1>4, <1>6, <1>7, <1>11

LEMMA PartOfBoth ==
    ASSUME NEW C, NEW a \in Seq(C), NEW b \in Seq(C),
           NEW i \in 0..Len(a), NEW m \in 0..Len(b)
    PROVE  SubSeq(a \o b, i + 1, Len(a) + m) = SubSeq(a, i + 1, Len(a)) \o SubSeq(b, 1, m)
<1>16. i \in Nat /\ i <= Len(a) /\ m \in Nat /\ m <= Len(b)
  BY LenProperties
<1>17. i \in Nat
  BY <1>16
<1>18. m \in Nat
  BY <1>16
<1>1. PICK u \in Seq(C) : u = a \o b
  BY ConcatProperties
<1>2. PICK k \in Nat, n \in Nat : k = Len(a) /\ n = Len(b)
  BY LenProperties
<1>3. Len(u) = k + n /\ \A j \in 1..(k + n) : u[j] = IF j <= k THEN a[j] ELSE b[j - k]
  BY <1>1, <1>2, ConcatProperties
<1>4. PICK l \in Nat, h \in Nat : h = k - i /\ l = h + m
  <2>1. k - i \in Nat /\ (k - i) + m \in Nat
    BY <1>2, <1>16
  <2> QED BY <2>1
<1>5. PICK x : x = SubSeq(u, i + 1, i + l)
  OBVIOUS
<1>6. PICK y : y = SubSeq(a, i + 1, i + h)
  OBVIOUS
<1>7. PICK z : z = SubSeq(b, 0 + 1, 0 + m)
  OBVIOUS
<1>8. x \in Seq(C) /\ Len(x) = l /\ \A j \in 1..l : x[j] = u[i + j]
  <2>1. i + l <= Len(u)
    BY <1>2, <1>3, <1>4, <1>16
  <2>2. IsPart(SubSeq(u, i + 1, i + l), u, i, l, C)
    BY ONLY u \in Seq(C), <1>17, l \in Nat, <2>1, PartOfText
  <2> QED BY <1>5, <2>2 DEF IsPart
<1>9. y \in Seq(C) /\ Len(y) = h /\ \A j \in 1..h : y[j] = a[i + j]
  <2>1. i + h <= Len(a)
    BY <1>2, <1>4, <1>16
  <2>2. IsPart(SubSeq(a, i + 1, i + h), a, i, h, C)
    BY ONLY a \in Seq(C), <1>17, h \in Nat, <2>1, PartOfText
  <2> QED BY <1>6, <2>2 DEF IsPart
<1>10. z \in Seq(C) /\ Len(z) = m /\ \A j \in 1..m : z[j] = b[0 + j]
  <2>1. 0 + m <= Len(b)
    BY <1>2, <1>16
  <2>2. IsPart(SubSeq(b, 0 + 1, 0 + m), b, 0, m, C)
    BY ONLY b \in Seq(C), 0 \in Nat, <1>18, <2>1, PartOfText
  <2> QED BY <1>7, <2>2 DEF IsPart
<1>11. PICK w \in Seq(C) : w = y \o z
  BY <1>9, <1>10, ConcatProperties
<1>12. Len(w) = l /\ \A j \in 1..l : w[j] = IF j <= h THEN y[j] ELSE z[j - h]
  <2>1. /\ Len(w) = Len(y) + Len(z)
        /\ \A j \in 1..(Len(y) + Len(z)) : w[j] = IF j <= Len(y) THEN y[j] ELSE z[j - Len(y)]
    BY <1>9, <1>10, <1>11, ConcatProperties
  <2> QED BY <1>4, <1>9, <1>10, <2>1
<1>13. \A j \in 1..l : x[j] = w[j]
  <2> TAKE j \in 1..l
  <2>1. i + j \in 1..(k + n)
    BY <1>2, <1>4, <1>16
  <2>2. x[j] = IF i + j <= k THEN a[i + j] ELSE b[(i + j) - k]
    BY <1>3, <1>8, <2>1
  <2>3. CASE j <= h
    <3>1. j \in 1..h /\ i + j <= k
      BY <1>4, <2>3
    <3> QED BY <1>9, <1>12, <2>2, <2>3, <3>1
  <2>4. CASE ~ (j <= h)
    <3>1. j - h \in 1..m /\ ~ (i + j <= k) /\ (i + j) - k = 0 + (j - h)
      BY <1>4, <2>4
    <3> QED BY <1>10, <1>12, <2>2, <2>4, <3>1
  <2> QED BY <2>3, <2>4
<1>14. x = w
  <2>1. Len(x) = Len(w) /\ \A j \in 1..Len(x) : x[j] = w[j]
    BY <1>8, <1>12, <1>13
  <2> QED BY <1>8, <2>1, SeqEqual
<1>15. i + l = k + m /\ i + h = k /\ 0 + m = m /\ 0 + 1 = 1
  BY <1>2, <1>4, <1>16
<1> QED BY <1>1, <1>2, <1>5, <1>6, <1>7, <1>11, <1>14, <1>15

-----------------------------------------------------------------------------
(* Where each piece of a concatenation is, and how long it is.             *)

(* z is x followed by y.                                                   *)
IsConcat(x, y, z) ==
    /\ Len(x) \in Nat /\ Len(y) \in Nat /\ Len(z) \in Nat
    /\ Len(z) = Len(x) + Len(y)
    /\ \A k \in 1..Len(x) : z[k] = x[k]
    /\ \A k \in 1..Len(y) : z[Len(x) + k] = y[k]

LEMMA JoinStep ==
    ASSUME NEW C, NEW seqs \in Seq(Seq(C)), NEW p, Joins(p, seqs, C),
           NEW i \in 1..Len(seqs)
    PROVE  IsConcat(p[i - 1], seqs[i], p[i])
<1>1. Len(seqs) \in Nat /\ i - 1 \in 0..Len(seqs) /\ i \in 0..Len(seqs)
  BY LenProperties
<1>2. PICK x, y, z : x = p[i - 1] /\ y = seqs[i] /\ z = p[i]
  OBVIOUS
<1>3. z = x \o y
  BY <1>2 DEF Joins
<1>4. x \in Seq(C) /\ y \in Seq(C)
  <2>1. y \in Seq(C)
    BY <1>2, ElementOfSeq
  <2>2. p[i - 1] \in Seq(C)
    BY <1>1, Zenon DEF Joins
  <2> QED BY <1>2, <2>1, <2>2
<1>5. Len(x) \in Nat /\ Len(y) \in Nat
  BY <1>4, LenProperties
<1>6. /\ x \o y \in Seq(C) /\ Len(x \o y) = Len(x) + Len(y)
      /\ \A k \in 1..(Len(x) + Len(y)) :
            (x \o y)[k] = IF k <= Len(x) THEN x[k] ELSE y[k - Len(x)]
  BY <1>4, ConcatProperties
<1>7. PICK a \in Nat, b \in Nat : a = Len(x) /\ b = Len(y)
  BY <1>5
<1>8. \A k \in 1..a : z[k] = x[k]
  BY <1>3, <1>6, <1>7
<1>9. ASSUME NEW k \in 1..b PROVE z[a + k] = y[k]
  <2>1. a + k \in 1..(a + b) /\ ~(a + k <= a) /\ (a + k) - a = k
    OBVIOUS
  <2> QED BY <1>3, <1>6, <1>7, <2>1
<1>10. Len(z) = a + b /\ Len(z) \in Nat
  BY <1>3, <1>6, <1>7
<1>11. IsConcat(x, y, z)
  BY <1>7, <1>8, <1>9, <1>10 DEF IsConcat
<1> QED BY <1>2, <1>11

LEMMA JoinsExtend ==
    ASSUME NEW C, NEW seqs \in Seq(Seq(C)), NEW p, Joins(p, seqs, C),
           NEW m \in 0..Len(seqs)
    PROVE  \A j \in m..Len(seqs) : /\ Len(p[m]) <= Len(p[j])
                                   /\ \A k \in 1..Len(p[m]) : p[j][k] = p[m][k]
<1>0. Len(seqs) \in Nat /\ m \in Nat /\ Len(seqs) - m \in Nat
  <2>1. Len(seqs) \in Nat
    BY LenProperties
  <2> QED BY <2>1
<1>1. PICK n \in Nat : n = Len(seqs) - m
  BY <1>0
<1>2. p[m] \in Seq(C) /\ Len(p[m]) \in Nat
  <2>1. p[m] \in Seq(C)
    BY Zenon DEF Joins
  <2> QED BY <2>1, LenProperties
<1> DEFINE S == {i \in 0..n : /\ Len(p[m]) <= Len(p[m + i])
                              /\ \A k \in 1..Len(p[m]) : p[m + i][k] = p[m][k]}
<1>3. 0 \in S
  BY <1>1, <1>2
<1>4. \A i \in 0..n : i < n /\ i \in S => i + 1 \in S
  <2> SUFFICES ASSUME NEW i \in 0..n, i < n, i \in S PROVE i + 1 \in S
    OBVIOUS
  <2>1. PICK j \in Nat : j = m + i
    BY <1>0
  <2>2. j + 1 \in 1..Len(seqs) /\ (j + 1) - 1 = j /\ m + (i + 1) = j + 1 /\ i + 1 \in 0..n
    BY <1>0, <1>1, <2>1
  <2>3. PICK x, y : x = p[j] /\ y = p[j + 1]
    OBVIOUS
  <2>4. /\ Len(x) \in Nat /\ Len(y) \in Nat /\ Len(x) <= Len(y)
        /\ \A k \in 1..Len(x) : y[k] = x[k]
    <3>1. IsConcat(p[(j + 1) - 1], seqs[j + 1], p[j + 1])
      BY <2>2, JoinStep
    <3>2. IsConcat(x, seqs[j + 1], y)
      BY <2>2, <2>3, <3>1
    <3> QED BY <3>2 DEF IsConcat
  <2>5. Len(p[m]) <= Len(x) /\ \A k \in 1..Len(p[m]) : x[k] = p[m][k]
    BY <2>1, <2>3
  <2>6. Len(p[m]) <= Len(y) /\ \A k \in 1..Len(p[m]) : y[k] = p[m][k]
    BY <1>2, <2>4, <2>5
  <2> QED BY <2>2, <2>3, <2>6
<1>5. 0..n \subseteq S
  <2> HIDE DEF S
  <2> QED BY ONLY n \in Nat, <1>3, <1>4, Induction
<1> SUFFICES ASSUME NEW j \in m..Len(seqs)
             PROVE  Len(p[m]) <= Len(p[j]) /\ \A k \in 1..Len(p[m]) : p[j][k] = p[m][k]
  OBVIOUS
<1>6. PICK i \in 0..n : m + i = j
  <2>1. j - m \in 0..n /\ m + (j - m) = j
    BY <1>0, <1>1
  <2> QED BY <2>1
<1> QED BY <1>5, <1>6

(* y is in u after as many elements as x has.                              *)
IsAfter(x, y, u) ==
    \A k \in 1..Len(y) : Len(x) + k \in 1..Len(u) /\ u[Len(x) + k] = y[k]

(* Piece i comes after the first i - 1.                                    *)
LEMMA PieceOfJoin ==
    ASSUME NEW C, NEW seqs \in Seq(Seq(C)), NEW p, Joins(p, seqs, C),
           NEW i \in 1..Len(seqs)
    PROVE  IsAfter(p[i - 1], seqs[i], FlattenSeq(seqs))
<1> SUFFICES ASSUME NEW k \in 1..Len(seqs[i])
             PROVE  /\ Len(p[i - 1]) + k \in 1..Len(FlattenSeq(seqs))
                    /\ FlattenSeq(seqs)[Len(p[i - 1]) + k] = seqs[i][k]
  BY DEF IsAfter
<1>1. /\ Len(p[i - 1]) \in Nat /\ Len(p[i]) \in Nat /\ Len(seqs[i]) \in Nat
      /\ Len(p[i]) = Len(p[i - 1]) + Len(seqs[i])
      /\ p[i][Len(p[i - 1]) + k] = seqs[i][k]
  <2>1. IsConcat(p[i - 1], seqs[i], p[i])
    BY JoinStep
  <2> QED BY <2>1 DEF IsConcat
<1>2. FlattenSeq(seqs) = p[Len(seqs)]
  BY DEF Joins
<1>3. Len(seqs) \in Nat /\ i \in 0..Len(seqs) /\ Len(seqs) \in i..Len(seqs)
  BY LenProperties
<1>4. /\ Len(p[i]) <= Len(p[Len(seqs)])
      /\ \A j \in 1..Len(p[i]) : p[Len(seqs)][j] = p[i][j]
  BY <1>3, JoinsExtend
<1>5. Len(p[Len(seqs)]) \in Nat
  <2>1. Len(seqs) \in 0..Len(seqs) /\ p \in [0..Len(seqs) -> Seq(C)]
    BY <1>3 DEF Joins
  <2>2. p[Len(seqs)] \in Seq(C)
    BY <2>1, Zenon
  <2> QED BY <2>2, LenProperties
<1>6. PICK a, b, c, d, x, z :
          /\ a = Len(p[i - 1]) /\ b = Len(p[i]) /\ c = Len(seqs[i])
          /\ d = Len(p[Len(seqs)]) /\ x = p[i] /\ z = p[Len(seqs)]
          /\ a \in Nat /\ b \in Nat /\ c \in Nat /\ d \in Nat
  BY <1>1, <1>5
<1>7. b = a + c /\ b <= d /\ k \in 1..c
  BY <1>1, <1>4, <1>6
<1>8. a + k \in 1..b /\ a + k \in 1..d
  <2>1. a \in Nat /\ b \in Nat /\ c \in Nat /\ d \in Nat
    BY <1>6
  <2> QED BY <1>7, <2>1
<1>9. z[a + k] = x[a + k] /\ x[a + k] = seqs[i][k]
  BY <1>1, <1>4, <1>6, <1>8
<1> QED BY <1>2, <1>6, <1>8, <1>9

(* Pieces that are not empty are as long together as there are pieces if   *)
(* and only if each has one element.                                       *)
LEMMA JoinLength ==
    ASSUME NEW C, NEW seqs \in Seq(Seq(C)),
           \A i \in 1..Len(seqs) : Len(seqs[i]) >= 1
    PROVE  /\ Len(FlattenSeq(seqs)) \in Nat /\ Len(FlattenSeq(seqs)) >= Len(seqs)
           /\ Len(FlattenSeq(seqs)) = Len(seqs)
                 <=> \A i \in 1..Len(seqs) : Len(seqs[i]) = 1
<1>1. PICK p : Joins(p, seqs, C)
  BY JoinsExist
<1>2. PICK n \in Nat : n = Len(seqs)
  BY LenProperties
<1>3. ASSUME NEW i \in 1..n
      PROVE  /\ Len(p[i - 1]) \in Nat /\ Len(p[i]) \in Nat /\ Len(seqs[i]) \in Nat
             /\ Len(p[i]) = Len(p[i - 1]) + Len(seqs[i]) /\ Len(seqs[i]) >= 1
  <2>1. i \in 1..Len(seqs) /\ Len(seqs[i]) >= 1
    BY <1>2
  <2>2. IsConcat(p[i - 1], seqs[i], p[i])
    BY <1>1, <2>1, JoinStep
  <2> QED BY <2>1, <2>2 DEF IsConcat
<1> DEFINE Single(m) == \A i \in 1..m : Len(seqs[i]) = 1
           Good(m) == /\ Len(p[m]) \in Nat /\ Len(p[m]) >= m
                      /\ Len(p[m]) = m <=> Single(m)
           S == {m \in 0..n : Good(m)}
<1>4. 0 \in S
  <2>1. p[0] = <<>> /\ Len(<<>>) = 0
    BY <1>1 DEF Joins
  <2> QED BY <2>1
<1>5. \A m \in 0..n : m < n /\ m \in S => m + 1 \in S
  <2> SUFFICES ASSUME NEW m \in 0..n, m < n, Good(m) PROVE Good(m + 1)
    <3> HIDE DEF Good
    <3> QED OBVIOUS
  <2>1. m + 1 \in 1..n /\ (m + 1) - 1 = m
    OBVIOUS
  <2>2. /\ Len(p[m + 1]) \in Nat /\ Len(seqs[m + 1]) \in Nat
        /\ Len(p[m + 1]) = Len(p[m]) + Len(seqs[m + 1]) /\ Len(seqs[m + 1]) >= 1
    BY <1>3, <2>1
  <2>3. Len(p[m]) \in Nat /\ Len(p[m]) >= m /\ (Len(p[m]) = m <=> Single(m))
    OBVIOUS
  <2>4. Single(m + 1) <=> (Single(m) /\ Len(seqs[m + 1]) = 1)
    <3>1. \A i \in 1..(m + 1) : i \in 1..m \/ i = m + 1
      OBVIOUS
    <3>2. \A i \in 1..m : i \in 1..(m + 1)
      OBVIOUS
    <3> QED BY <3>1, <3>2, <2>1
  <2> HIDE DEF Single
  <2>5. PICK a \in Nat, b \in Nat, c \in Nat :
            a = Len(p[m]) /\ b = Len(p[m + 1]) /\ c = Len(seqs[m + 1])
    BY <2>2, <2>3
  <2>6. b = a + c /\ c >= 1 /\ a >= m /\ (a = m <=> Single(m))
    BY <2>2, <2>3, <2>5
  <2>7. b >= m + 1 /\ (b = m + 1 <=> (a = m /\ c = 1))
    BY <2>6
  <2>8. /\ Len(p[m + 1]) >= m + 1
        /\ Len(p[m + 1]) = m + 1 <=> Single(m + 1)
    BY <2>4, <2>5, <2>6, <2>7
  <2> QED BY <2>2, <2>8
<1>6. 0..n \subseteq S
  <2> HIDE DEF S
  <2> QED BY ONLY n \in Nat, <1>4, <1>5, Induction
<1>7. Len(p[n]) \in Nat /\ Len(p[n]) >= n /\ (Len(p[n]) = n <=> Single(n))
  BY <1>6
<1>8. FlattenSeq(seqs) = p[n]
  BY <1>1, <1>2 DEF Joins
<1> QED BY <1>2, <1>7, <1>8

=============================================================================
