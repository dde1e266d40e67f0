------------------------ MODULE MutableString_proofs ------------------------
(***************************************************************************)
(* Proofs about MutableString for any characters, arguments and bounds:    *)
(* the array of strings is never written past its capacity, the cached     *)
(* UTF-8 is neither stale nor leaked, _length is the number of characters, *)
(* and the rope implements one plain text.                                 *)
(*                                                                         *)
(* The inductive invariant has three parts, which are proved one after the *)
(* other.  For the capacity it is that the strings form a sequence and     *)
(* _size is a number (HasRoom); for the cache freshness and ownership hold *)
(* together and need the type of the pointer (Cached): that every change   *)
(* of the array flushes the cache is all that counts.  For the text it is  *)
(* that the array consists of texts and _length is their length (Texts);   *)
(* what the loops over the array yield (the copies and their length, the   *)
(* walk for a range, the bytes) is what the methods need of it.            *)
(***************************************************************************)
EXTENDS MutableString, RopeLemmas

IsSequence(s) == \E S : s \in Seq(S)

HasRoom == /\ IsSequence(storage)
           /\ size \in Nat
           /\ count <= size

Cached == /\ shadow \in Buffer \cup {NoBuffer}
          /\ ShadowIsFresh
          /\ ShadowIsOwned
          /\ state = "none" => shadow = NoBuffer

-----------------------------------------------------------------------------
(* Copying keeps the number of strings.                                    *)
LEMMA CopiesAreAsMany ==
    ASSUME NEW strings, IsSequence(strings)
    PROVE  /\ IsSequence(Copies(strings))
           /\ Len(Copies(strings)) = Len(strings)
<1> DEFINE n == Len(strings)
           copy(i) == IF strings[i] = Self THEN FlattenSeq(SubSeq(strings, 1, i - 1))
                                           ELSE strings[i]
           S == {copy(i) : i \in 1..n}
<1>1. n \in Nat
  BY LenProperties DEF IsSequence
<1>2. \A i \in 1..n : copy(i) \in S
  OBVIOUS
<1> HIDE DEF copy, S, n
<1>3. /\ [i \in 1..n |-> copy(i)] \in Seq(S)
      /\ Len([i \in 1..n |-> copy(i)]) = n
  BY <1>1, <1>2
<1> QED BY <1>3 DEF Copies, IsSequence, copy, n

(* A rebuilt array has room for the strings it is rebuilt from.            *)
LEMMA RebuildHasRoom ==
    ASSUME NEW strings, IsSequence(strings), NEW room \in Nat,
           CopyStrings(strings), size' = Resized(Len(strings), room)
    PROVE  HasRoom'
<1>1. Len(strings) \in Nat
  BY LenProperties DEF IsSequence
<1>2. IsSequence(storage') /\ Len(storage') = Len(strings)
  BY CopiesAreAsMany DEF CopyStrings
<1>3. Resized(Len(strings), room) \in Nat /\ Len(strings) <= Resized(Len(strings), room)
  BY <1>1 DEF Resized, SizeFor, Larger
<1> QED BY <1>2, <1>3 DEF HasRoom, count

LEMMA TuplesAreSequences ==
    /\ IsSequence(<< >>)
    /\ \A a : IsSequence(<<a>>)
    /\ \A a, b : IsSequence(<<a, b>>)
    /\ \A s, t : IsSequence(s) /\ IsSequence(t) => IsSequence(s \o t)
<1>1. IsSequence(<< >>)
  BY DEF IsSequence
<1>2. ASSUME NEW a PROVE IsSequence(<<a>>)
  <2>1. <<a>> \in Seq({a})
    OBVIOUS
  <2> QED BY <2>1 DEF IsSequence
<1>3. ASSUME NEW a, NEW b PROVE IsSequence(<<a, b>>)
  <2>1. <<a, b>> \in Seq({a, b})
    OBVIOUS
  <2> QED BY <2>1 DEF IsSequence
<1>4. ASSUME NEW s, NEW t, IsSequence(s), IsSequence(t) PROVE IsSequence(s \o t)
  <2>1. PICK S : s \in Seq(S)
    BY <1>4 DEF IsSequence
  <2>2. PICK T : t \in Seq(T)
    BY <1>4 DEF IsSequence
  <2>3. s \in Seq(S \cup T) /\ t \in Seq(S \cup T)
    BY <2>1, <2>2, SeqMonotonic
  <2>4. s \o t \in Seq(S \cup T)
    BY <2>3, ConcatProperties
  <2> QED BY <2>4 DEF IsSequence
<1> QED BY <1>1, <1>2, <1>3, <1>4

LEMMA PartsAreASequence == ASSUME NEW r, NEW s PROVE IsSequence(Parts(r, s))
  BY TuplesAreSequences DEF Parts

(* Shrinking, and compacting as the case of one string.                    *)
LEMMA ShrinkHasRoom ==
    ASSUME HasRoom, NEW strings, IsSequence(strings), ShrinkWith(strings)
    PROVE  HasRoom'
  BY RebuildHasRoom DEF ShrinkWith, HasRoom

LEMMA CompactHasRoom == ASSUME HasRoom, Compact PROVE HasRoom'
<1>1. CASE count <= 1
  BY <1>1 DEF Compact, HasRoom, rope, count
<1>2. CASE ~(count <= 1)
  BY <1>2, TuplesAreSequences, ShrinkHasRoom DEF Compact
<1> QED BY <1>1, <1>2

LEMMA AppendedHasRoom ==
    ASSUME HasRoom, NEW t, storage' = Append(storage, t), size' = Grown
    PROVE  HasRoom'
<1>1. PICK S : storage \in Seq(S)
  BY DEF HasRoom, IsSequence
<1>2. storage \in Seq(S \cup {t})
  BY <1>1, SeqMonotonic
<1>3. storage' \in Seq(S \cup {t}) /\ Len(storage') = Len(storage) + 1
  BY <1>2, AppendProperties
<1>4. count \in Nat
  BY <1>1, LenProperties DEF count
<1>5. Grown \in Nat /\ count + 1 <= Grown
  BY <1>4 DEF HasRoom, Grown, Larger
<1> QED BY <1>3, <1>5 DEF HasRoom, IsSequence, count

-----------------------------------------------------------------------------
LEMMA HasRoomStep == HasRoom /\ [Next]_vars => HasRoom'
<1> SUFFICES ASSUME HasRoom, [Next]_vars PROVE HasRoom'
    OBVIOUS
<1>1. ASSUME UNCHANGED rope PROVE HasRoom'
  BY <1>1 DEF HasRoom, rope, count
<1>2. CASE UNCHANGED vars
  BY <1>1, <1>2 DEF vars, rope
<1>3. ASSUME NEW strings, NEW n \in Nat, IsSequence(strings), Len(strings) <= n,
             InitWith(strings, n)
      PROVE  HasRoom'
  BY <1>3, CopiesAreAsMany DEF InitWith, CopyStrings, HasRoom, count
<1>4. CASE InitEmpty
  BY <1>3, <1>4, TuplesAreSequences DEF InitEmpty
<1>5. ASSUME NEW n \in Capacities, InitWithCapacity(n) PROVE HasRoom'
  <2>1. SizeFor(n \div 2) \in Nat
    BY CapacitiesAreNumbers DEF SizeFor, Larger
  <2> QED BY <1>3, <1>5, <2>1, TuplesAreSequences DEF InitWithCapacity
<1>6. ASSUME NEW s \in Text, NEW t \in Text,
             InitWithStrings(<<s>>) \/ InitWithStrings(<<s, t>>)
      PROVE  HasRoom'
  <2>1. SizeFor(1) \in Nat /\ 1 <= SizeFor(1) /\ SizeFor(2) \in Nat /\ 2 <= SizeFor(2)
    BY DEF SizeFor, Larger
  <2>2. Len(<<s>>) = 1 /\ Len(<<s, t>>) = 2
    OBVIOUS
  <2> QED BY <1>3, <1>6, <2>1, <2>2, TuplesAreSequences DEF InitWithStrings
<1>7. CASE Dealloc
  BY <1>7, TuplesAreSequences DEF Dealloc, HasRoom, count
<1>8. ASSUME NEW s, AppendString(s) PROVE HasRoom'
  BY <1>1, <1>8, AppendedHasRoom DEF AppendString
<1>9. ASSUME NEW s, SetString(s) PROVE HasRoom'
  <2>1. CASE s = Nil
    BY <1>9, <2>1, TuplesAreSequences, ShrinkHasRoom DEF SetString
  <2>2. CASE s # Nil
    BY <1>9, <2>2, TuplesAreSequences, ShrinkHasRoom DEF SetString
  <2> QED BY <2>1, <2>2
<1>10. ASSUME NEW r, NEW s, ReplaceCharacters(r, s) PROVE HasRoom'
  <2> DEFINE room == IF TakesSubstring(r) /\ count > 1 THEN Resized(1, size) ELSE size
  <2>1. room \in Nat
    BY DEF HasRoom, Resized, SizeFor, Larger
  <2>2. CopyStrings(Parts(r, s)) /\ size' = Resized(Len(Parts(r, s)), room)
    BY <1>10 DEF ReplaceCharacters
  <2> HIDE DEF room
  <2> QED BY <2>1, <2>2, PartsAreASequence, RebuildHasRoom
<1>11. ASSUME NEW r, DeleteCharacters(r) PROVE HasRoom'
  BY <1>10, <1>11 DEF DeleteCharacters
<1>12. ASSUME NEW r, ReplaceThrows(r) \/ SubstringWithRange(r) PROVE HasRoom'
  BY <1>12, CompactHasRoom DEF ReplaceThrows, SubstringWithRange
<1>13. ASSUME NEW r, GetCharacters(r) PROVE HasRoom'
  BY <1>1, <1>13, CompactHasRoom DEF GetCharacters, rope
<1>14. ASSUME NEW i, CharacterAtIndex(i) PROVE HasRoom'
  BY <1>1, <1>14, CompactHasRoom DEF CharacterAtIndex, rope
<1>15. CASE CompactedString
  BY <1>15, CompactHasRoom DEF CompactedString
<1>16. ASSUME NEW r, ReplaceInNothing(r) PROVE HasRoom'
  BY <1>1, <1>16 DEF ReplaceInNothing, RecurseForEver
<1>17. CASE SubstringOfNothing \/ Recurse \/ Copy \/ MulleUTF8StringLength \/ UTF8String
  BY <1>1, <1>17 DEF SubstringOfNothing, RecurseForEver, Recurse, Copy,
                     MulleUTF8StringLength, UTF8String, vars, rope
<1> QED
  BY <1>2, <1>4, <1>5, <1>6, <1>7, <1>8, <1>9, <1>10, <1>11, <1>12, <1>13,
     <1>14, <1>15, <1>16, <1>17 DEF Next

(* No string is stored past the end of the array.                          *)
THEOREM ArrayAlwaysHasRoom == Spec => []ArrayHasRoom
<1>1. Init => HasRoom
  BY TuplesAreSequences DEF Init, HasRoom, count
<1>2. HasRoom => ArrayHasRoom
  BY DEF HasRoom, ArrayHasRoom
<1> QED BY <1>1, <1>2, HasRoomStep, PTL DEF Spec

-----------------------------------------------------------------------------
(* Whatever is done to the array, flushing leaves no cache behind.         *)
LEMMA FlushedIsCached == ASSUME Cached, FlushShadow PROVE Cached'
<1>1. shadow' = NoBuffer /\ DOMAIN heap' = DOMAIN heap \ {shadow}
  BY DEF FlushShadow
<1>2. DOMAIN heap' = {}
  BY <1>1 DEF Cached, ShadowIsOwned
<1> QED BY <1>1, <1>2 DEF Cached, ShadowIsFresh, ShadowIsOwned

LEMMA UnchangedIsCached ==
    ASSUME Cached, UNCHANGED <<storage, utf8>>, state' = "none" => state = "none"
    PROVE  Cached'
  BY DEF Cached, ShadowIsFresh, ShadowIsOwned, Content, utf8

LEMMA CompactIsCached ==
    ASSUME Cached, Compact, UNCHANGED state PROVE Cached'
  BY FlushedIsCached, UnchangedIsCached DEF Compact, ShrinkWith, rope

LEMMA CachedStep == Cached /\ [Next]_vars => Cached'
<1> SUFFICES ASSUME Cached, [Next]_vars PROVE Cached'
    OBVIOUS
<1>1. ASSUME UNCHANGED <<rope, utf8>>, state' = "none" => state = "none"
      PROVE  Cached'
  BY <1>1, UnchangedIsCached DEF rope
<1>2. CASE UNCHANGED vars
  BY <1>1, <1>2 DEF vars, rope, utf8
<1>3. ASSUME NEW strings, NEW n, InitWith(strings, n) PROVE Cached'
  BY <1>3 DEF InitWith, Cached, ShadowIsFresh, ShadowIsOwned, utf8
<1>4. ASSUME Dealloc PROVE Cached'
  BY <1>4, FlushedIsCached DEF Dealloc
<1>5. ASSUME NEW s, AppendString(s) \/ SetString(s) PROVE Cached'
  BY <1>1, <1>5, FlushedIsCached DEF AppendString, SetString, ShrinkWith, Mutated
<1>6. ASSUME NEW r, NEW s, ReplaceCharacters(r, s) \/ DeleteCharacters(r) PROVE Cached'
  BY <1>6, FlushedIsCached DEF ReplaceCharacters, DeleteCharacters
<1>7. ASSUME NEW r, ReplaceThrows(r) \/ SubstringWithRange(r) \/ GetCharacters(r)
      PROVE  Cached'
  BY <1>1, <1>7, CompactIsCached
     DEF ReplaceThrows, SubstringWithRange, GetCharacters, Read
<1>8. ASSUME NEW i, CharacterAtIndex(i) PROVE Cached'
  BY <1>1, <1>8, CompactIsCached DEF CharacterAtIndex, Read
<1>9. CASE CompactedString
  BY <1>9, CompactIsCached DEF CompactedString, Read
<1>10. ASSUME NEW r, ReplaceInNothing(r) PROVE Cached'
  BY <1>1, <1>10 DEF ReplaceInNothing, RecurseForEver
<1>11. CASE SubstringOfNothing \/ Recurse \/ Copy \/ MulleUTF8StringLength
  BY <1>1, <1>2, <1>11 DEF SubstringOfNothing, RecurseForEver, Recurse, Copy,
                           MulleUTF8StringLength, Read
<1>12. CASE UTF8String
  <2>1. CASE shadow # NoBuffer
    BY <1>1, <1>12, <2>1 DEF UTF8String
  <2>2. CASE shadow = NoBuffer
    <3>1. PICK b \in Buffer \ DOMAIN heap :
             /\ shadow' = b
             /\ heap' = [a \in DOMAIN heap \cup {b} |->
                             IF a = b THEN Content ELSE heap[a]]
             /\ shadowLen' = Bytes(Content)
      BY <1>12, <2>2 DEF UTF8String
    <3>2. DOMAIN heap' = {b} /\ heap'[b] = Content
      BY <2>2, <3>1 DEF Cached, ShadowIsOwned
    <3>3. Content' = Content
      BY <1>12 DEF UTF8String, Content, rope
    <3>4. state' = "live" /\ b # NoBuffer
      BY <1>12, NoBufferIsNone DEF UTF8String
    <3>5. ShadowIsFresh'
      BY <3>1, <3>2, <3>3 DEF ShadowIsFresh
    <3>6. ShadowIsOwned'
      BY <3>1, <3>2, <3>4 DEF ShadowIsOwned
    <3> QED BY <3>1, <3>4, <3>5, <3>6 DEF Cached
  <2> QED BY <2>1, <2>2
<1> QED
  BY <1>2, <1>3, <1>4, <1>5, <1>6, <1>7, <1>8, <1>9, <1>10, <1>11, <1>12
     DEF Next, InitEmpty, InitWithCapacity, InitWithStrings

(* The cached UTF-8 is that of the text as it is now.                      *)
THEOREM ShadowAlwaysFresh == Spec => []ShadowIsFresh
<1>1. Init => Cached
  BY DEF Init, Cached, ShadowIsFresh, ShadowIsOwned
<1>2. Cached => ShadowIsFresh
  BY DEF Cached
<1> QED BY <1>1, <1>2, CachedStep, PTL DEF Spec

(* And it is the only conversion that is allocated.                        *)
THEOREM ShadowAlwaysOwned == Spec => []ShadowIsOwned
<1>1. Init => Cached
  BY DEF Init, Cached, ShadowIsFresh, ShadowIsOwned
<1>2. Cached => ShadowIsOwned
  BY DEF Cached
<1> QED BY <1>1, <1>2, CachedStep, PTL DEF Spec

-----------------------------------------------------------------------------
(* The sum of lengths, the walk over the strings and the sum of bytes are  *)
(* loops; these are their turns.                                           *)

Given == Seq(Char) \cup {Self}

LEMMA LengthOfGiven ==
    ASSUME NEW s \in Given, NEW c \in Nat
    PROVE  LengthOf(s, c) \in Nat
<1>1. CASE s = Self
  BY <1>1 DEF LengthOf
<1>2. CASE s # Self
  <2>1. Len(s) \in Nat
    BY <1>2, LenProperties DEF Given
  <2> QED BY <1>2, <2>1 DEF LengthOf
<1> QED BY <1>1, <1>2

IsLengthSum(f, n, strings) ==
    /\ f \in [0..Len(strings) -> Nat] /\ f[0] = n
    /\ \A i \in 1..Len(strings) : f[i] = f[i - 1] + LengthOf(strings[i], f[i - 1])
    /\ LengthFrom(n, strings) = f[Len(strings)]

LEMMA LengthSumExists ==
    ASSUME NEW n \in Nat, NEW strings \in Seq(Given)
    PROVE  \E f : IsLengthSum(f, n, strings)
<1>1. PICK m \in Nat : m = Len(strings)
  BY LenProperties
<1>2. \A i \in 1..m : \A c \in Nat : LengthOf(strings[i], c) \in Nat
  BY <1>1, ElementOfSeq, LengthOfGiven
<1>3. PICK F : F = [x \in (1..m) \X Nat |-> x[2] + LengthOf(strings[x[1]], x[2])]
  OBVIOUS
<1>4. IsStep(F, m, Nat)
  <2>1. \A x \in (1..m) \X Nat : x[2] + LengthOf(strings[x[1]], x[2]) \in Nat
    <3> SUFFICES ASSUME NEW x \in (1..m) \X Nat
                 PROVE  x[2] + LengthOf(strings[x[1]], x[2]) \in Nat
      OBVIOUS
    <3>1. x[1] \in 1..m /\ x[2] \in Nat
      OBVIOUS
    <3>2. LengthOf(strings[x[1]], x[2]) \in Nat
      BY <1>2, <3>1
    <3> QED BY <3>1, <3>2
  <2> QED BY <1>3, <2>1 DEF IsStep
<1>5. PICK g : IsRecursive(g, m, Nat, n, F)
  BY <1>4, RecursionExists
<1>6. \A i \in 1..m, c \in Nat : F[<<i, c>>] = c + LengthOf(strings[i], c)
  BY <1>3
<1>7. g \in [0..m -> Nat] /\ g[0] = n
      /\ \A i \in 1..m : g[i] = g[i - 1] + LengthOf(strings[i], g[i - 1])
  <2>1. \A i \in 1..m : g[i - 1] \in Nat
    BY <1>5 DEF IsRecursive
  <2> QED BY <1>5, <1>6, <2>1 DEF IsRecursive
<1>8. g = [i \in 0..m |-> IF i = 0 THEN n
                          ELSE g[i - 1] + LengthOf(strings[i], g[i - 1])]
  BY <1>7
<1> DEFINE f == CHOOSE f : f = [i \in 0..m |-> IF i = 0 THEN n
                                ELSE f[i - 1] + LengthOf(strings[i], f[i - 1])]
<1>9. f = [i \in 0..m |-> IF i = 0 THEN n
                          ELSE f[i - 1] + LengthOf(strings[i], f[i - 1])]
  BY <1>8
<1>10. LengthFrom(n, strings) = f[m]
  BY <1>1 DEF LengthFrom
<1> HIDE DEF f
<1>11. f[0] = n /\ \A i \in 1..m : f[i] = f[i - 1] + LengthOf(strings[i], f[i - 1])
  BY <1>9
<1>12. Follows(f, m, Nat, n, F)
  BY <1>6, <1>11 DEF Follows
<1>13. \A i \in 0..m : f[i] \in Nat
  BY <1>4, <1>12, RecursionIsTyped
<1>14. f \in [0..m -> Nat]
  BY <1>9, <1>13
<1> QED BY <1>1, <1>10, <1>11, <1>14 DEF IsLengthSum

LEMMA WidthIsNumber == \A x \in Char : Width[x] \in Nat
<1>1. \A x \in Char : Width[x] \in 1..4
  BY WidthIsBytes
<1> QED BY <1>1

IsByteSum(f, t) ==
    /\ f \in [0..Len(t) -> Nat] /\ f[0] = 0
    /\ \A i \in 1..Len(t) : f[i] = f[i - 1] + Width[t[i]]
    /\ Bytes(t) = f[Len(t)]

LEMMA ByteSumExists ==
    ASSUME NEW t \in Seq(Char)
    PROVE  \E f : IsByteSum(f, t)
<1>1. PICK m \in Nat : m = Len(t)
  BY LenProperties
<1>2. \A i \in 1..m : Width[t[i]] \in Nat
  <2>1. \A i \in 1..m : t[i] \in Char
    BY <1>1, ElementOfSeq
  <2> QED BY ONLY <2>1, WidthIsNumber, Zenon
<1>3. PICK F : F = [x \in (1..m) \X Nat |-> x[2] + Width[t[x[1]]]]
  OBVIOUS
<1>4. IsStep(F, m, Nat)
  <2>1. \A x \in (1..m) \X Nat : x[2] + Width[t[x[1]]] \in Nat
    <3> SUFFICES ASSUME NEW x \in (1..m) \X Nat
                 PROVE  x[2] + Width[t[x[1]]] \in Nat
      OBVIOUS
    <3>1. x[1] \in 1..m /\ x[2] \in Nat
      OBVIOUS
    <3>2. Width[t[x[1]]] \in Nat
      BY <1>2, <3>1
    <3> QED BY <3>1, <3>2
  <2> QED BY <1>3, <2>1 DEF IsStep
<1>5. PICK g : IsRecursive(g, m, Nat, 0, F)
  BY <1>4, RecursionExists
<1>6. \A i \in 1..m, c \in Nat : F[<<i, c>>] = c + Width[t[i]]
  BY <1>3
<1>7. g \in [0..m -> Nat] /\ g[0] = 0
      /\ \A i \in 1..m : g[i] = g[i - 1] + Width[t[i]]
  <2>1. \A i \in 1..m : g[i - 1] \in Nat
    BY <1>5 DEF IsRecursive
  <2> QED BY <1>5, <1>6, <2>1 DEF IsRecursive
<1>8. g = [i \in 0..m |-> IF i = 0 THEN 0 ELSE g[i - 1] + Width[t[i]]]
  BY <1>7
<1> DEFINE f == CHOOSE f : f = [i \in 0..m |-> IF i = 0 THEN 0 ELSE f[i - 1] + Width[t[i]]]
<1>9. f = [i \in 0..m |-> IF i = 0 THEN 0 ELSE f[i - 1] + Width[t[i]]]
  BY <1>8
<1>10. Bytes(t) = f[m]
  BY <1>1 DEF Bytes
<1> HIDE DEF f
<1>11. f[0] = 0 /\ \A i \in 1..m : f[i] = f[i - 1] + Width[t[i]]
  BY <1>9
<1>12. Follows(f, m, Nat, 0, F)
  BY <1>6, <1>11 DEF Follows
<1>13. \A i \in 0..m : f[i] \in Nat
  BY <1>4, <1>12, RecursionIsTyped
<1>14. f \in [0..m -> Nat]
  BY <1>9, <1>13
<1> QED BY <1>1, <1>10, <1>11, <1>14 DEF IsByteSum

LEMMA BytesIsNumber == ASSUME NEW t \in Seq(Char) PROVE Bytes(t) \in Nat
<1>1. PICK f : IsByteSum(f, t)
  BY ByteSumExists
<1>2. Len(t) \in Nat
  BY LenProperties
<1> QED BY <1>1, <1>2 DEF IsByteSum

LEMMA BytesOfConcatenation ==
    ASSUME NEW s \in Seq(Char), NEW t \in Seq(Char)
    PROVE  Bytes(s \o t) = Bytes(s) + Bytes(t)
<1>1. PICK m \in Nat, n \in Nat : m = Len(s) /\ n = Len(t)
  BY LenProperties
<1>2. PICK u \in Seq(Char) : u = s \o t
  BY ConcatProperties
<1>3. Len(u) = m + n /\ \A i \in 1..(m + n) : u[i] = IF i <= m THEN s[i] ELSE t[i - m]
  BY <1>1, <1>2, ConcatProperties
<1>4. PICK f : IsByteSum(f, s)
  BY ByteSumExists
<1>5. PICK g : IsByteSum(g, t)
  BY ByteSumExists
<1>6. PICK h : IsByteSum(h, u)
  BY ByteSumExists
<1>7. /\ f \in [0..m -> Nat] /\ f[0] = 0 /\ Bytes(s) = f[m]
      /\ \A i \in 1..m : f[i] = f[i - 1] + Width[s[i]]
  BY <1>1, <1>4 DEF IsByteSum
<1>8. /\ g \in [0..n -> Nat] /\ g[0] = 0 /\ Bytes(t) = g[n]
      /\ \A i \in 1..n : g[i] = g[i - 1] + Width[t[i]]
  BY <1>1, <1>5 DEF IsByteSum
<1>9. /\ h[0] = 0 /\ Bytes(u) = h[m + n]
      /\ \A i \in 1..(m + n) : h[i] = h[i - 1] + Width[u[i]]
  BY <1>3, <1>6 DEF IsByteSum
<1>10. \A i \in 1..n : Width[t[i]] \in Nat
  <2>1. \A i \in 1..n : t[i] \in Char
    BY <1>1, ElementOfSeq
  <2> QED BY ONLY <2>1, WidthIsNumber, Zenon
<1>11. h[m] = f[m]
  <2> DEFINE S == {i \in 0..m : h[i] = f[i]}
  <2>1. 0 \in S
    BY <1>7, <1>9
  <2>2. \A i \in 0..m : i < m /\ i \in S => i + 1 \in S
    <3> SUFFICES ASSUME NEW i \in 0..m, i < m, i \in S PROVE i + 1 \in S
      OBVIOUS
    <3>1. i + 1 \in 0..m /\ i + 1 \in 1..m /\ i + 1 \in 1..(m + n) /\ (i + 1) - 1 = i
          /\ i + 1 <= m
      OBVIOUS
    <3>2. h[i + 1] = h[i] + Width[u[i + 1]] /\ u[i + 1] = s[i + 1]
      BY <1>3, <1>9, <3>1
    <3>3. f[i + 1] = f[i] + Width[s[i + 1]]
      BY <1>7, <3>1
    <3> QED BY <3>1, <3>2, <3>3
  <2>3. m \in Nat
    OBVIOUS
  <2>4. 0..m \subseteq S
    <3> HIDE DEF S
    <3> QED BY ONLY <2>1, <2>2, <2>3, Induction
  <2> QED BY <2>4
<1>12. h[m + n] = f[m] + g[n]
  <2> DEFINE S == {i \in 0..n : h[m + i] = f[m] + g[i]}
  <2>1. 0 \in S
    BY <1>7, <1>8, <1>11
  <2>2. \A i \in 0..n : i < n /\ i \in S => i + 1 \in S
    <3> SUFFICES ASSUME NEW i \in 0..n, i < n, i \in S PROVE i + 1 \in S
      OBVIOUS
    <3>1. /\ i + 1 \in 0..n /\ i + 1 \in 1..n /\ m + (i + 1) \in 1..(m + n)
          /\ (m + (i + 1)) - 1 = m + i /\ (i + 1) - 1 = i
          /\ ~ (m + (i + 1) <= m) /\ (m + (i + 1)) - m = i + 1
      OBVIOUS
    <3>2. h[m + (i + 1)] = h[m + i] + Width[u[m + (i + 1)]] /\ u[m + (i + 1)] = t[i + 1]
      BY <1>3, <1>9, <3>1
    <3>3. g[i + 1] = g[i] + Width[t[i + 1]]
      BY <1>8, <3>1
    <3>4. f[m] \in Nat /\ g[i] \in Nat /\ Width[t[i + 1]] \in Nat
      BY <1>7, <1>8, <1>10, <3>1
    <3> QED BY <3>1, <3>2, <3>3, <3>4
  <2>3. n \in Nat
    OBVIOUS
  <2>4. 0..n \subseteq S
    <3> HIDE DEF S
    <3> QED BY ONLY <2>1, <2>2, <2>3, Induction
  <2> QED BY <2>4
<1> QED BY <1>2, <1>7, <1>8, <1>9, <1>12

(* Summing up the bytes of the strings yields the bytes of their text.     *)
LEMMA BytesOfTheText ==
    ASSUME NEW strings \in Seq(Seq(Char))
    PROVE  BytesOfAll(strings) = Bytes(FlattenSeq(strings))
<1>1. PICK n \in Nat : n = Len(strings)
  BY LenProperties
<1>2. PICK p : Joins(p, strings, Char)
  BY JoinsExist
<1>3. /\ p \in [0..n -> Seq(Char)] /\ p[0] = << >> /\ FlattenSeq(strings) = p[n]
      /\ \A i \in 1..n : p[i] = p[i - 1] \o strings[i]
  BY <1>1, <1>2 DEF Joins
<1>4. \A i \in 1..n : Bytes(p[i]) = Bytes(p[i - 1]) + Bytes(strings[i])
  <2> SUFFICES ASSUME NEW i \in 1..n
               PROVE  Bytes(p[i]) = Bytes(p[i - 1]) + Bytes(strings[i])
    OBVIOUS
  <2>1. PICK a \in Seq(Char) : a = p[i - 1]
    BY <1>3
  <2>2. PICK b \in Seq(Char) : b = strings[i]
    BY <1>1, ElementOfSeq
  <2>3. Bytes(a \o b) = Bytes(a) + Bytes(b)
    BY BytesOfConcatenation
  <2> QED BY <1>3, <2>1, <2>2, <2>3
<1>5. Bytes(p[0]) = 0
  <2>1. PICK none \in Seq(Char) : none = << >>
    BY EmptySeq
  <2>2. PICK f : IsByteSum(f, none)
    BY ByteSumExists
  <2>3. Len(none) = 0
    BY <2>1
  <2> QED BY <1>3, <2>1, <2>2, <2>3 DEF IsByteSum
<1>6. PICK g : g = [i \in 0..n |-> Bytes(p[i])]
  OBVIOUS
<1>7. g = [i \in 0..n |-> IF i = 0 THEN 0 ELSE g[i - 1] + Bytes(strings[i])]
  BY <1>4, <1>5, <1>6
<1> DEFINE f == CHOOSE f : f = [i \in 0..n |-> IF i = 0 THEN 0
                                               ELSE f[i - 1] + Bytes(strings[i])]
<1>8. f = [i \in 0..n |-> IF i = 0 THEN 0 ELSE f[i - 1] + Bytes(strings[i])]
  BY <1>7
<1>9. BytesOfAll(strings) = f[n]
  BY <1>1 DEF BytesOfAll
<1> HIDE DEF f
<1> DEFINE S == {i \in 0..n : f[i] = Bytes(p[i])}
<1>10. 0 \in S
  BY <1>5, <1>8
<1>11. \A i \in 0..n : i < n /\ i \in S => i + 1 \in S
  <2> SUFFICES ASSUME NEW i \in 0..n, i < n, i \in S PROVE i + 1 \in S
    OBVIOUS
  <2>1. i + 1 \in 0..n /\ i + 1 \in 1..n /\ (i + 1) - 1 = i
    OBVIOUS
  <2>2. f[i + 1] = f[i] + Bytes(strings[i + 1])
    BY <1>8, <2>1
  <2>3. Bytes(p[i + 1]) = Bytes(p[i]) + Bytes(strings[i + 1])
    BY <1>4, <2>1
  <2> QED BY <2>1, <2>2, <2>3
<1>12. n \in S
  <2>1. n \in Nat
    OBVIOUS
  <2>2. 0..n \subseteq S
    <3> HIDE DEF S
    <3> QED BY ONLY <1>10, <1>11, <2>1, Induction
  <2> QED BY <2>2
<1> QED BY <1>3, <1>9, <1>12

-----------------------------------------------------------------------------
(* Copying strings: at most one of them is the receiver.                   *)

ReceiverOnce(strings) ==
    \A i, j \in 1..Len(strings) : i < j /\ strings[j] = Self => strings[i] # Self

LEMMA CopiesAreTexts ==
    ASSUME NEW strings \in Seq(Given), ReceiverOnce(strings)
    PROVE  Copies(strings) \in Seq(Seq(Char))
<1>1. PICK n \in Nat : n = Len(strings)
  BY LenProperties
<1>2. \A i \in 1..n : strings[i] # Self => strings[i] \in Seq(Char)
  <2>1. \A i \in 1..n : strings[i] \in Given
    BY <1>1, ElementOfSeq
  <2> QED BY <2>1 DEF Given
<1>3. ASSUME NEW i \in 1..n, strings[i] = Self
      PROVE  FlattenSeq(SubSeq(strings, 1, i - 1)) \in Seq(Char)
  <2>1. \A j \in 1..(i - 1) : strings[j] \in Seq(Char)
    BY <1>1, <1>2, <1>3 DEF ReceiverOnce
  <2>2. PICK sub : sub = SubSeq(strings, 1, i - 1)
    OBVIOUS
  <2>3. sub \in Seq(Seq(Char))
    BY <2>1, <2>2, SubSeqProperties
  <2>4. FlattenSeq(sub) \in Seq(Char)
    BY <2>3, ConcatenationIsText
  <2> QED BY <2>2, <2>4
<1> DEFINE copy(i) == IF strings[i] = Self THEN FlattenSeq(SubSeq(strings, 1, i - 1))
                                           ELSE strings[i]
<1>4. \A i \in 1..n : copy(i) \in Seq(Char)
  BY <1>2, <1>3
<1>5. Copies(strings) = [i \in 1..n |-> copy(i)]
  BY <1>1 DEF Copies
<1> HIDE DEF copy
<1> QED BY <1>4, <1>5

LEMMA CopyOfTexts ==
    ASSUME NEW strings \in Seq(Seq(Char))
    PROVE  Copies(strings) = strings
<1>1. PICK n \in Nat : n = Len(strings)
  BY LenProperties
<1>2. \A i \in 1..n : strings[i] # Self
  <2>1. \A i \in 1..n : strings[i] \in Seq(Char)
    BY <1>1, ElementOfSeq
  <2> QED BY <2>1, SelfIsNoText
<1>3. Copies(strings) = [i \in 1..n |-> strings[i]]
  BY <1>1, <1>2 DEF Copies
<1>4. strings = [i \in 1..n |-> strings[i]]
  BY <1>1
<1> QED BY <1>3, <1>4

(* What the copies add up to is the length of their text.                  *)
LEMMA LengthOfCopies ==
    ASSUME NEW strings \in Seq(Given), ReceiverOnce(strings)
    PROVE  LengthFrom(0, strings) = Len(FlattenSeq(Copies(strings)))
<1>1. PICK n \in Nat : n = Len(strings)
  BY LenProperties
<1>2. PICK c \in Seq(Seq(Char)) : c = Copies(strings)
  BY CopiesAreTexts
<1>3. /\ Len(c) = n
      /\ \A i \in 1..n : c[i] = IF strings[i] = Self
                                THEN FlattenSeq(SubSeq(strings, 1, i - 1))
                                ELSE strings[i]
  BY <1>1, <1>2 DEF Copies
<1>4. PICK p : Joins(p, c, Char)
  BY JoinsExist
<1>5. /\ p \in [0..n -> Seq(Char)] /\ p[0] = << >> /\ FlattenSeq(c) = p[n]
      /\ \A i \in 1..n : p[i] = p[i - 1] \o c[i]
  BY <1>3, <1>4 DEF Joins
<1>6. PICK f : IsLengthSum(f, 0, strings)
  BY LengthSumExists
<1>7. /\ f[0] = 0 /\ LengthFrom(0, strings) = f[n]
      /\ \A i \in 1..n : f[i] = f[i - 1] + LengthOf(strings[i], f[i - 1])
  BY <1>1, <1>6 DEF IsLengthSum
<1>8. \A i \in 1..n : strings[i] = Self => c[i] = p[i - 1]
  <2> SUFFICES ASSUME NEW i \in 1..n, strings[i] = Self PROVE c[i] = p[i - 1]
    OBVIOUS
  <2>1. PICK k \in Nat : k = i - 1
    OBVIOUS
  <2>2. \A j \in 1..k : strings[j] # Self /\ c[j] = strings[j]
    <3>1. \A j \in 1..k : j \in 1..n /\ j < i
      BY <2>1
    <3>2. \A j \in 1..k : strings[j] # Self
      BY <1>1, <3>1 DEF ReceiverOnce
    <3> QED BY <1>3, <3>1, <3>2
  <2>3. \A j \in 1..k : strings[j] \in Seq(Char)
    <3>1. \A j \in 1..k : strings[j] \in Given
      BY <1>1, <2>1, ElementOfSeq
    <3> QED BY <2>2, <3>1 DEF Given
  <2>4. PICK sub : sub = SubSeq(strings, 1, k)
    OBVIOUS
  <2>5. sub \in Seq(Seq(Char)) /\ Len(sub) = k /\ \A j \in 1..k : sub[j] = strings[j]
    <3>1. 1 \in Int /\ k \in Int
      OBVIOUS
    <3>2. /\ SubSeq(strings, 1, k) \in Seq(Seq(Char))
          /\ Len(SubSeq(strings, 1, k)) = IF 1 <= k THEN k - 1 + 1 ELSE 0
          /\ \A j \in 1..(k - 1 + 1) : SubSeq(strings, 1, k)[j] = strings[1 + j - 1]
      BY ONLY <2>3, <3>1, SubSeqProperties
    <3>3. k - 1 + 1 = k /\ (~ (1 <= k) => k = 0)
      OBVIOUS
    <3>4. Len(SubSeq(strings, 1, k)) = k
      BY <3>2, <3>3
    <3>5. \A j \in 1..k : 1 + j - 1 = j
      OBVIOUS
    <3>6. \A j \in 1..k : SubSeq(strings, 1, k)[j] = strings[j]
      BY <3>2, <3>3, <3>5
    <3> QED BY <2>4, <3>2, <3>4, <3>6
  <2>6. k <= Len(c) /\ \A j \in 1..k : sub[j] = c[j]
    <3>1. k <= n
      BY <2>1
    <3>2. k <= Len(c)
      BY <1>3, <3>1
    <3>3. \A j \in 1..k : sub[j] = c[j]
      BY <2>2, <2>5
    <3> QED BY <3>2, <3>3
  <2>7. FlattenSeq(sub) = p[k]
    <3>1. Len(sub) <= Len(c) /\ \A j \in 1..Len(sub) : sub[j] = c[j]
      BY <2>5, <2>6
    <3>2. FlattenSeq(sub) = p[Len(sub)]
      BY <1>4, <2>5, <3>1, JoinOfPrefix
    <3> QED BY <2>5, <3>2
  <2> QED BY <1>3, <2>1, <2>4, <2>7
<1> DEFINE S == {i \in 0..n : f[i] = Len(p[i])}
<1>9. 0 \in S
  BY <1>5, <1>7
<1>10. \A i \in 0..n : i < n /\ i \in S => i + 1 \in S
  <2> SUFFICES ASSUME NEW i \in 0..n, i < n, i \in S PROVE i + 1 \in S
    OBVIOUS
  <2>1. i + 1 \in 0..n /\ i + 1 \in 1..n /\ (i + 1) - 1 = i
    OBVIOUS
  <2>2. PICK a \in Seq(Char) : a = p[i]
    BY <1>5
  <2>3. PICK b \in Seq(Char) : b = c[i + 1]
    BY <1>3, <2>1, ElementOfSeq
  <2>4. p[i + 1] = a \o b /\ Len(a \o b) = Len(a) + Len(b)
    BY <1>5, <2>1, <2>2, <2>3, ConcatProperties
  <2>5. LengthOf(strings[i + 1], Len(a)) = Len(b)
    <3>1. CASE strings[i + 1] = Self
      BY <1>8, <2>1, <2>2, <2>3, <3>1 DEF LengthOf
    <3>2. CASE strings[i + 1] # Self
      BY <1>3, <2>1, <2>3, <3>2 DEF LengthOf
    <3> QED BY <3>1, <3>2
  <2>6. f[i + 1] = Len(a) + Len(b)
    BY <1>7, <2>1, <2>2, <2>5
  <2> QED BY <2>1, <2>4, <2>6
<1>11. n \in S
  <2>1. n \in Nat
    OBVIOUS
  <2>2. 0..n \subseteq S
    <3> HIDE DEF S
    <3> QED BY ONLY <1>9, <1>10, <2>1, Induction
  <2> QED BY <2>2
<1> QED BY <1>2, <1>5, <1>7, <1>11

-----------------------------------------------------------------------------
(* The walk of getCharactersInRange: after strings whose text is a it has  *)
(* got the part of a that is in the range.                                 *)

AnyRange == [location : Nat, length : Nat]

Taken(k, loc, len) == IF k <= loc THEN 0 ELSE IF loc + len <= k THEN len ELSE k - loc

Skipped(k, loc) == IF k <= loc THEN loc - k ELSE 0

Walked(a, r) ==
    [location |-> Skipped(Len(a), r.location),
     length   |-> r.length - Taken(Len(a), r.location, r.length),
     got      |-> SubSeq(a, r.location + 1,
                            r.location + Taken(Len(a), r.location, r.length))]

LEMMA GrabWalks ==
    ASSUME NEW a \in Seq(Char), NEW s \in Seq(Char), NEW r \in AnyRange, r.length # 0
    PROVE  Grab(Walked(a, r), s) = Walked(a \o s, r)
<1>1. PICK loc \in Nat, len \in Nat : loc = r.location /\ len = r.length
  BY DEF AnyRange
<1>2. PICK k \in Nat, n \in Nat : k = Len(a) /\ n = Len(s)
  BY LenProperties
<1>3. PICK u \in Seq(Char) : u = a \o s
  BY ConcatProperties
<1>4. Len(u) = k + n
  BY <1>2, <1>3, ConcatProperties
<1>5. Walked(u, r) = Walked(a \o s, r)
  BY <1>3
<1>6. len # 0
  BY <1>1
<1> DEFINE Of(t, skipped, taken) == [location |-> skipped, length |-> len - taken,
                                     got |-> SubSeq(t, loc + 1, loc + taken)]
<1>11. Walked(a, r) = Of(a, Skipped(k, loc), Taken(k, loc, len))
  BY <1>1, <1>2 DEF Walked
<1>12. Walked(u, r) = Of(u, Skipped(k + n, loc), Taken(k + n, loc, len))
  BY <1>1, <1>4 DEF Walked
<1>13. PICK w : w = Walked(a, r)
  OBVIOUS
<1>14. ASSUME NEW x, NEW y, NEW z, w = [location |-> x, length |-> y, got |-> z]
       PROVE  /\ w.location = x /\ w.length = y /\ w.got = z
              /\ [w EXCEPT !.location = @ - n] = [location |-> x - n, length |-> y, got |-> z]
  BY <1>14
<1>15. Grab(w, s) = IF w.length = 0 THEN w
                    ELSE IF w.location >= n THEN [w EXCEPT !.location = @ - n]
                    ELSE LET some == IF w.location + w.length > n THEN n - w.location
                                                                  ELSE w.length
                         IN  [location |-> 0, length |-> w.length - some,
                              got |-> w.got \o SubSeq(s, w.location + 1,
                                                         w.location + some)]
  BY <1>2 DEF Grab
<1> HIDE DEF Of
<1>7. CASE loc + len <= k
  <2>1. Skipped(k, loc) = 0 /\ Taken(k, loc, len) = len
    BY <1>6, <1>7 DEF Skipped, Taken
  <2>2. Skipped(k + n, loc) = 0 /\ Taken(k + n, loc, len) = len
    BY <1>6, <1>7 DEF Skipped, Taken
  <2>3. loc + len <= Len(a)
    BY <1>2, <1>7
  <2>4. SubSeq(a \o s, loc + 1, loc + len) = SubSeq(a, loc + 1, loc + len)
    BY <2>3, PartOfFirst
  <2>5. Of(u, 0, len) = Of(a, 0, len)
    BY <1>3, <2>4 DEF Of
  <2>6. w = Of(a, 0, len)
    BY <1>11, <1>13, <2>1
  <2>7. w.length = 0
    BY <2>6 DEF Of
  <2>8. Grab(w, s) = w
    BY <1>15, <2>7
  <2> QED BY <1>5, <1>12, <1>13, <2>2, <2>5, <2>6, <2>8
<1>8. CASE k + n <= loc
  <2>1. Skipped(k, loc) = loc - k /\ Taken(k, loc, len) = 0
    BY <1>8 DEF Skipped, Taken
  <2>2. Skipped(k + n, loc) = loc - (k + n) /\ Taken(k + n, loc, len) = 0
    BY <1>8 DEF Skipped, Taken
  <2>3. SubSeq(a, loc + 1, loc + 0) = << >> /\ SubSeq(u, loc + 1, loc + 0) = << >>
    BY SubSeqEmpty
  <2>4. /\ Of(a, loc - k, 0) = [location |-> loc - k, length |-> len, got |-> << >>]
        /\ Of(u, loc - (k + n), 0)
             = [location |-> loc - (k + n), length |-> len, got |-> << >>]
    BY <2>3 DEF Of
  <2>5. w = [location |-> loc - k, length |-> len, got |-> << >>]
    BY <1>11, <1>13, <2>1, <2>4
  <2>6. Grab(w, s) = [w EXCEPT !.location = @ - n]
    <3>1. w.length # 0 /\ w.location >= n
      BY <1>6, <1>8, <2>5
    <3> QED BY <1>15, <3>1
  <2>7. [w EXCEPT !.location = @ - n]
          = [location |-> (loc - k) - n, length |-> len, got |-> << >>]
    BY <1>14, <2>5
  <2>8. (loc - k) - n = loc - (k + n)
    OBVIOUS
  <2> QED BY <1>5, <1>12, <1>13, <2>2, <2>4, <2>6, <2>7, <2>8
<1>9. CASE k <= loc /\ loc < k + n
  <2>1. PICK i \in Nat : i = loc - k
    <3>1. loc - k \in Nat
      BY <1>9
    <3> QED BY <3>1
  <2>2. PICK some \in Nat : some = IF i + len > n THEN n - i ELSE len
    <3>1. n - i \in Nat
      BY <1>9, <2>1
    <3> QED BY <3>1
  <2>3. Skipped(k, loc) = i /\ Taken(k, loc, len) = 0
    BY <1>9, <2>1 DEF Skipped, Taken
  <2>4. Skipped(k + n, loc) = 0 /\ Taken(k + n, loc, len) = some
    BY <1>9, <2>1, <2>2 DEF Skipped, Taken
  <2>5. i + some <= n /\ Len(a) + i = loc
    BY <1>2, <1>9, <2>1, <2>2
  <2>6. SubSeq(a \o s, loc + 1, loc + some) = SubSeq(s, i + 1, i + some)
    <3>1. i + some <= Len(s)
      BY <1>2, <2>5
    <3>2. SubSeq(a \o s, Len(a) + i + 1, Len(a) + i + some) = SubSeq(s, i + 1, i + some)
      BY <3>1, PartOfSecond
    <3> QED BY <2>5, <3>2
  <2>7. PICK part \in Seq(Char) : part = SubSeq(s, i + 1, i + some)
    <3>1. i + some <= Len(s)
      BY <1>2, <2>5
    <3>2. IsPart(SubSeq(s, i + 1, i + some), s, i, some, Char)
      BY ONLY s \in Seq(Char), i \in Nat, some \in Nat, <3>1, PartOfText
    <3> QED BY <3>2 DEF IsPart
  <2>8. w = [location |-> i, length |-> len, got |-> << >>]
    <3>1. SubSeq(a, loc + 1, loc + 0) = << >>
      BY SubSeqEmpty
    <3> QED BY <1>11, <1>13, <2>3, <3>1 DEF Of
  <2>9. Grab(w, s) = [location |-> 0, length |-> len - some, got |-> << >> \o part]
    <3>1. /\ w.length = len /\ w.location = i /\ w.got = << >>
          /\ ~ (i >= n)
      BY <1>9, <2>1, <2>8
    <3> QED BY <1>6, <1>15, <2>2, <2>7, <3>1
  <2>10. << >> \o part = part
    BY ConcatEmptySeq
  <2> QED BY <1>3, <1>5, <1>12, <1>13, <2>4, <2>6, <2>7, <2>9, <2>10 DEF Of
<1>10. CASE loc < k /\ k < loc + len
  <2>1. PICK m \in Nat, rest \in Nat : m = k - loc /\ rest = len - m
    <3>1. k - loc \in Nat /\ len - (k - loc) \in Nat
      BY <1>10
    <3> QED BY <3>1
  <2>2. rest # 0 /\ loc + m = k
    BY <1>10, <2>1
  <2>3. Skipped(k, loc) = 0 /\ Taken(k, loc, len) = m
    BY <1>10, <2>1 DEF Skipped, Taken
  <2>4. w = [location |-> 0, length |-> rest, got |-> SubSeq(a, loc + 1, loc + m)]
    BY <1>11, <1>13, <2>1, <2>3 DEF Of
  <2>5. CASE n = 0
    <3>1. Grab(w, s) = w
      <4>1. [w EXCEPT !.location = @ - n] = w
        <5>1. [w EXCEPT !.location = @ - n]
                = [location |-> 0 - n, length |-> rest, got |-> SubSeq(a, loc + 1, loc + m)]
          BY <1>14, <2>4
        <5>2. 0 - n = 0
          BY <2>5
        <5> QED BY <2>4, <5>1, <5>2
      <4>2. w.length # 0 /\ w.location >= n
        BY <2>2, <2>4, <2>5
      <4> QED BY <1>15, <4>1, <4>2
    <3>2. Skipped(k + n, loc) = 0 /\ Taken(k + n, loc, len) = m
      BY <2>3, <2>5
    <3>3. loc + m <= Len(a)
      BY <1>2, <2>2
    <3>4. SubSeq(a \o s, loc + 1, loc + m) = SubSeq(a, loc + 1, loc + m)
      BY <3>3, PartOfFirst
    <3> QED BY <1>3, <1>5, <1>11, <1>12, <1>13, <2>3, <3>1, <3>2, <3>4 DEF Of
  <2>6. CASE n # 0
    <3>1. PICK some \in Nat : some = IF rest > n THEN n ELSE rest
      OBVIOUS
    <3>2. PICK part : part = SubSeq(s, 1, some)
      OBVIOUS
    <3>3. PICK first : first = SubSeq(a, loc + 1, loc + m)
      OBVIOUS
    <3>4. Grab(w, s) = [location |-> 0, length |-> rest - some, got |-> first \o part]
      <4>1. ~ (0 >= n) /\ 0 + 1 = 1 /\ 0 + some = some /\ 0 + rest = rest /\ n - 0 = n
        BY <2>6
      <4>2. w.length = rest /\ w.location = 0 /\ w.got = first
        BY <2>4, <3>3
      <4> QED BY <1>15, <2>2, <3>1, <3>2, <4>1, <4>2
    <3>5. Skipped(k + n, loc) = 0 /\ Taken(k + n, loc, len) = m + some
      <4>1. CASE rest > n
        BY <1>10, <2>1, <3>1, <4>1 DEF Skipped, Taken
      <4>2. CASE ~ (rest > n)
        BY <1>10, <2>1, <3>1, <4>2 DEF Skipped, Taken
      <4> QED BY <4>1, <4>2
    <3>6. len - (m + some) = rest - some /\ loc + (m + some) = k + some
      BY <2>1
    <3>7. SubSeq(a \o s, loc + 1, Len(a) + some)
             = SubSeq(a, loc + 1, Len(a)) \o SubSeq(s, 1, some)
      <4>1. loc \in 0..Len(a) /\ some \in 0..Len(s)
        BY <1>2, <1>10, <3>1
      <4> QED BY <4>1, PartOfBoth
    <3>8. SubSeq(u, loc + 1, k + some) = first \o part
      BY <1>2, <1>3, <2>2, <3>2, <3>3, <3>7
    <3> QED BY <1>5, <1>12, <1>13, <3>4, <3>5, <3>6, <3>8 DEF Of
  <2> QED BY <2>5, <2>6
<1> QED BY <1>7, <1>8, <1>9, <1>10

IsWalk(w, strings, r) ==
    /\ w[0] = Start(r)
    /\ \A i \in 1..Len(strings) : w[i] = Grab(w[i - 1], strings[i])

LEMMA WalkIsDefined ==
    ASSUME NEW strings, Len(strings) \in Nat, NEW r, NEW w, IsWalk(w, strings, r)
    PROVE  CharactersInRange(strings, r) = w[Len(strings)].got
<1>1. PICK n \in Nat : n = Len(strings)
  OBVIOUS
<1>2. w[0] = Start(r) /\ \A i \in 1..n : w[i] = Grab(w[i - 1], strings[i])
  BY <1>1 DEF IsWalk
<1>3. PICK g : g = [i \in 0..n |-> w[i]]
  OBVIOUS
<1>4. g = [i \in 0..n |-> IF i = 0 THEN Start(r) ELSE Grab(g[i - 1], strings[i])]
  <2>1. \A i \in 0..n : i # 0 => i \in 1..n /\ i - 1 \in 0..n
    OBVIOUS
  <2>2. \A i \in 0..n : w[i] = IF i = 0 THEN Start(r) ELSE Grab(g[i - 1], strings[i])
    BY <1>2, <1>3, <2>1
  <2> QED BY <1>3, <2>2
<1> DEFINE f == CHOOSE f : f = [i \in 0..n |-> IF i = 0 THEN Start(r)
                                               ELSE Grab(f[i - 1], strings[i])]
<1>5. f = [i \in 0..n |-> IF i = 0 THEN Start(r) ELSE Grab(f[i - 1], strings[i])]
  BY <1>4
<1>6. CharactersInRange(strings, r) = f[n].got
  BY <1>1 DEF CharactersInRange
<1> HIDE DEF f
<1> DEFINE S == {i \in 0..n : f[i] = w[i]}
<1>7. 0 \in S
  BY <1>2, <1>5
<1>8. \A i \in 0..n : i < n /\ i \in S => i + 1 \in S
  <2> SUFFICES ASSUME NEW i \in 0..n, i < n, i \in S PROVE i + 1 \in S
    OBVIOUS
  <2>1. i + 1 \in 0..n /\ i + 1 \in 1..n /\ (i + 1) - 1 = i /\ i + 1 # 0
    OBVIOUS
  <2>2. f[i + 1] = Grab(f[i], strings[i + 1])
    BY <1>5, <2>1
  <2>3. w[i + 1] = Grab(w[i], strings[i + 1])
    BY <1>2, <2>1
  <2> QED BY <2>1, <2>2, <2>3
<1>9. n \in S
  <2>1. n \in Nat
    OBVIOUS
  <2>2. 0..n \subseteq S
    <3> HIDE DEF S
    <3> QED BY ONLY <1>7, <1>8, <2>1, Induction
  <2> HIDE DEF S
  <2> QED BY <2>2
<1> QED BY <1>1, <1>6, <1>9

(* getCharactersInRange yields that part of the text.                      *)
LEMMA WalkGetsPart ==
    ASSUME NEW strings \in Seq(Seq(Char)), NEW r \in AnyRange,
           r.location + r.length <= Len(FlattenSeq(strings))
    PROVE  CharactersInRange(strings, r)
             = SubSeq(FlattenSeq(strings), r.location + 1, r.location + r.length)
<1>1. PICK n \in Nat : n = Len(strings)
  BY LenProperties
<1>2. PICK loc \in Nat, len \in Nat : loc = r.location /\ len = r.length
  BY DEF AnyRange
<1>3. PICK t \in Seq(Char) : t = FlattenSeq(strings)
  BY ConcatenationIsText
<1>4. Start(r) = [location |-> loc, length |-> len, got |-> << >>]
  BY <1>2 DEF Start
<1>5. CASE len = 0
  <2>1. PICK w : w = [i \in 0..n |-> Start(r)]
    OBVIOUS
  <2>2. \A s : Grab(Start(r), s) = Start(r)
    BY <1>4, <1>5 DEF Grab
  <2>3. IsWalk(w, strings, r)
    <3>1. \A i \in 1..n : i \in 0..n /\ i - 1 \in 0..n
      OBVIOUS
    <3> QED BY <1>1, <2>1, <2>2, <3>1 DEF IsWalk
  <2>4. CharactersInRange(strings, r) = w[n].got
    BY <1>1, <2>3, WalkIsDefined
  <2>5. w[n].got = << >>
    BY <1>4, <2>1
  <2>6. SubSeq(t, loc + 1, loc + len) = << >>
    BY <1>5, SubSeqEmpty
  <2> QED BY <1>2, <1>3, <2>4, <2>5, <2>6
<1>6. CASE len # 0
  <2>1. PICK p : Joins(p, strings, Char)
    BY JoinsExist
  <2>2. /\ p \in [0..n -> Seq(Char)] /\ p[0] = << >> /\ t = p[n]
        /\ \A i \in 1..n : p[i] = p[i - 1] \o strings[i]
    BY <1>1, <1>3, <2>1 DEF Joins
  <2>3. PICK w : w = [i \in 0..n |-> Walked(p[i], r)]
    OBVIOUS
  <2>4. w[0] = Start(r)
    <3>1. Skipped(0, loc) = loc /\ Taken(0, loc, len) = 0
      BY DEF Skipped, Taken
    <3>2. SubSeq(<< >>, loc + 1, loc + 0) = << >> /\ Len(<< >>) = 0
      BY SubSeqEmpty
    <3>3. Walked(<< >>, r) = [location |-> loc, length |-> len - 0, got |-> << >>]
      BY <1>2, <3>1, <3>2 DEF Walked
    <3> QED BY <1>4, <2>2, <2>3, <3>3
  <2>5. \A i \in 1..n : w[i] = Grab(w[i - 1], strings[i])
    <3> SUFFICES ASSUME NEW i \in 1..n PROVE w[i] = Grab(w[i - 1], strings[i])
      OBVIOUS
    <3>1. i \in 0..n /\ i - 1 \in 0..n
      OBVIOUS
    <3>2. PICK a \in Seq(Char) : a = p[i - 1]
      BY <2>2
    <3>3. PICK s \in Seq(Char) : s = strings[i]
      BY <1>1, ElementOfSeq
    <3>4. Grab(Walked(a, r), s) = Walked(a \o s, r)
      BY <1>2, <1>6, GrabWalks
    <3> QED BY <2>2, <2>3, <3>1, <3>2, <3>3, <3>4
  <2>6. CharactersInRange(strings, r) = w[n].got
    <3>1. IsWalk(w, strings, r)
      BY <1>1, <2>4, <2>5 DEF IsWalk
    <3> QED BY <1>1, <3>1, WalkIsDefined
  <2>7. Taken(Len(t), loc, len) = len
    <3>1. Len(t) \in Nat /\ loc + len <= Len(t)
      BY <1>2, <1>3, LenProperties
    <3> QED BY <1>6, <3>1 DEF Taken
  <2>8. w[n] = Walked(t, r)
    BY <2>2, <2>3
  <2>9. w[n].got = SubSeq(t, loc + 1, loc + len)
    <3>1. w[n].got = SubSeq(t, r.location + 1,
                               r.location + Taken(Len(t), r.location, r.length))
      <4>1. Walked(t, r).got = SubSeq(t, r.location + 1,
                               r.location + Taken(Len(t), r.location, r.length))
        BY Zenon DEF Walked
      <4> QED BY <2>8, <4>1, Zenon
    <3>2. Taken(Len(t), r.location, r.length) = len
      BY <1>2, <2>7
    <3> QED BY <1>2, <3>1, <3>2
  <2> QED BY <1>2, <1>3, <2>6, <2>9
<1> QED BY <1>5, <1>6

-----------------------------------------------------------------------------
(* What holds of the rope between two methods: it consists of texts, and   *)
(* _length is their length.                                                *)
Texts == storage \in Seq(Seq(Char)) /\ LengthIsTotal

LEMMA ContentIsText ==
    ASSUME Texts
    PROVE  /\ Content \in Seq(Char) /\ length = Len(Content)
           /\ length \in Nat /\ count \in Nat
<1>1. Content \in Seq(Char)
  BY ConcatenationIsText DEF Texts, Content
<1>2. Len(Content) \in Nat
  BY <1>1, LenProperties
<1>3. count \in Nat
  BY LenProperties DEF Texts, count
<1> QED BY <1>1, <1>2, <1>3 DEF Texts, LengthIsTotal

LEMMA CopiedIsText ==
    ASSUME NEW strings \in Seq(Given), ReceiverOnce(strings), CopyStrings(strings)
    PROVE  Texts' /\ Content' = FlattenSeq(Copies(strings))
<1>1. Content' = FlattenSeq(Copies(strings))
  BY DEF CopyStrings, Content
<1>2. storage' \in Seq(Seq(Char))
  BY CopiesAreTexts DEF CopyStrings
<1>3. length' = Len(FlattenSeq(Copies(strings)))
  BY LengthOfCopies DEF CopyStrings
<1> QED BY <1>1, <1>2, <1>3 DEF Texts, LengthIsTotal

LEMMA TextsAreGiven ==
    ASSUME NEW strings \in Seq(Seq(Char))
    PROVE  strings \in Seq(Given) /\ ReceiverOnce(strings)
<1>1. strings \in Seq(Given)
  BY SeqMonotonic DEF Given
<1>2. \A i \in 1..Len(strings) : strings[i] # Self
  <2>1. \A i \in 1..Len(strings) : strings[i] \in Seq(Char)
    BY ElementOfSeq
  <2> QED BY <2>1, SelfIsNoText
<1> QED BY <1>1, <1>2 DEF ReceiverOnce

LEMMA CopiedTexts ==
    ASSUME NEW strings \in Seq(Seq(Char)), CopyStrings(strings)
    PROVE  Texts' /\ Content' = FlattenSeq(strings)
  BY TextsAreGiven, CopiedIsText, CopyOfTexts

LEMMA ImmutableCopyIsContent == ASSUME Texts PROVE ImmutableCopy = Content
<1>1. PICK t \in Seq(Char) : t = Content
  BY ContentIsText
<1>2. length = Len(t) /\ length \in Nat
  BY <1>1, ContentIsText
<1>3. CASE length = 0
  <2>1. t = << >>
    BY <1>2, <1>3, EmptySeq
  <2> QED BY <1>1, <1>3, <2>1 DEF ImmutableCopy
<1>4. CASE length # 0 /\ count = 1
  <2>1. PICK a \in Seq(Char) : a = storage[1]
    <3>1. storage \in Seq(Seq(Char)) /\ 1 \in 1..Len(storage)
      BY <1>4 DEF Texts, count
    <3>2. storage[1] \in Seq(Char)
      BY <3>1, ElementOfSeq
    <3> QED BY <3>2
  <2>2. storage = <<a>>
    BY <1>4, <2>1 DEF Texts, count
  <2>3. FlattenSeq(<<a>>) = a
    BY JoinOfOne
  <2> QED BY <1>4, <2>1, <2>2, <2>3 DEF ImmutableCopy, Content
<1>5. CASE length # 0 /\ count # 1
  <2>1. All \in AnyRange /\ All.location = 0 /\ All.length = length
    BY <1>2 DEF All, AnyRange
  <2>2. 0 + length <= Len(FlattenSeq(storage))
    BY <1>1, <1>2 DEF Content
  <2>3. All.location + All.length <= Len(FlattenSeq(storage))
    BY <2>1, <2>2
  <2>4. CharactersInRange(storage, All)
          = SubSeq(FlattenSeq(storage), All.location + 1, All.location + All.length)
    BY <2>1, <2>3, WalkGetsPart DEF Texts
  <2>5. All.location + 1 = 1 /\ All.location + All.length = Len(t)
    BY <1>2, <2>1
  <2>6. SubSeq(t, 1, Len(t)) = t
    BY SubSeqFull
  <2> QED BY <1>1, <1>5, <2>4, <2>5, <2>6 DEF ImmutableCopy, Content
<1> QED BY <1>3, <1>4, <1>5

LEMMA UnchangedTexts == ASSUME Texts, UNCHANGED rope PROVE Texts' /\ Content' = Content
  BY DEF Texts, LengthIsTotal, Content, rope

(* Compacting changes the rope, not its text.                              *)
LEMMA CompactKeepsText ==
    ASSUME Texts, Compact
    PROVE  Texts' /\ Content' = Content
<1>1. CASE count <= 1
  BY <1>1, UnchangedTexts DEF Compact
<1>2. CASE ~ (count <= 1)
  <2>1. PICK t \in Seq(Char) : t = Content
    BY ContentIsText
  <2>2. CopyStrings(<<t>>)
    BY <1>2, <2>1, ImmutableCopyIsContent DEF Compact, ShrinkWith
  <2>3. <<t>> \in Seq(Seq(Char))
    OBVIOUS
  <2>4. Texts' /\ Content' = FlattenSeq(<<t>>)
    BY <2>2, <2>3, CopiedTexts
  <2>5. FlattenSeq(<<t>>) = t
    BY JoinOfOne
  <2> QED BY <2>1, <2>4, <2>5
<1> QED BY <1>1, <1>2

-----------------------------------------------------------------------------
(* Every method keeps the rope what it is and does to its text what the    *)
(* plain text promises.                                                    *)

LEMMA InitStep ==
    ASSUME NEW strings \in Seq(Seq(Char)), NEW n, InitWith(strings, n)
    PROVE  Texts' /\ Plain!Next
<1>1. Texts' /\ Content' = FlattenSeq(strings)
  BY CopiedTexts DEF InitWith
<1>2. Content' \in Seq(Char)
  BY <1>1, ConcatenationIsText
<1>3. Plain!Create
  BY <1>2 DEF InitWith, Plain!Create, Plain!Done, Done
<1> QED BY <1>1, <1>3 DEF Plain!Next

LEMMA DeallocStep == ASSUME Dealloc PROVE Texts' /\ Plain!Next
<1>1. storage' = << >> /\ length' = 0
  BY DEF Dealloc
<1>2. Content' = << >>
  BY <1>1, JoinOfNone DEF Content
<1>3. << >> \in Seq(Seq(Char)) /\ Len(<< >>) = 0
  BY EmptySeq
<1>4. Texts'
  BY <1>1, <1>2, <1>3 DEF Texts, LengthIsTotal
<1>5. Plain!Destroy
  BY <1>2 DEF Dealloc, Plain!Destroy, Plain!Done, Done
<1> QED BY <1>4, <1>5 DEF Plain!Next

(* Readers: the text stays, and the answer is one of the plain text.       *)
LEMMA AnswerStep ==
    ASSUME Content' = Content, NEW x, Read(x)
    PROVE  Plain!Answer(x)
  BY DEF Read, Plain!Answer

LEMMA PartIsAnswered ==
    ASSUME Texts, NEW r \in Ranges, Content' = Content,
           Read(IF IsValid(r) THEN <<"text", SubSeq(Content, r.location + 1,
                                                    r.location + r.length)>>
                              ELSE Exception)
    PROVE  Plain!Next
<1>1. IsValid(r) <=> Plain!IsValid(r, Len(Content))
  BY ContentIsText DEF IsValid, Plain!IsValid
<1>2. Plain!GetPart(r)
  BY <1>1, AnswerStep DEF Plain!GetPart, Plain!Part, Plain!Exception, Exception
<1> QED BY <1>2 DEF Plain!Next

LEMMA SubstringStep ==
    ASSUME Texts, NEW r \in Ranges, SubstringWithRange(r)
    PROVE  Texts' /\ Plain!Next
<1>1. Texts' /\ Content' = Content
  BY CompactKeepsText DEF SubstringWithRange
<1>2. Substring(r) = SubSeq(Content, r.location + 1, r.location + r.length)
  BY ImmutableCopyIsContent DEF Substring
<1> QED BY <1>1, <1>2, PartIsAnswered DEF SubstringWithRange

LEMMA GetCharactersStep ==
    ASSUME Texts, NEW r \in Ranges, GetCharacters(r)
    PROVE  Texts' /\ Plain!Next
<1>1. Texts' /\ Content' = Content
  BY CompactKeepsText, UnchangedTexts DEF GetCharacters
<1>2. CASE ~ IsValid(r)
  BY <1>1, <1>2, PartIsAnswered DEF GetCharacters
<1>3. CASE IsValid(r)
  <2>1. r \in AnyRange
    BY RangesAreRanges DEF AnyRange
  <2>2. r.location + r.length <= Len(FlattenSeq(storage'))
    BY <1>1, <1>3, ContentIsText DEF IsValid, Content
  <2>3. CharactersInRange(storage', r)
          = SubSeq(FlattenSeq(storage'), r.location + 1, r.location + r.length)
    BY <1>1, <2>1, <2>2, WalkGetsPart DEF Texts
  <2>4. CharactersInRange(storage', r)
          = SubSeq(Content, r.location + 1, r.location + r.length)
    BY <1>1, <2>3 DEF Content
  <2> QED BY <1>1, <1>3, <2>4, PartIsAnswered DEF GetCharacters
<1> QED BY <1>2, <1>3

LEMMA CharacterStep ==
    ASSUME Texts, NEW r \in Ranges, CharacterAtIndex(r.location)
    PROVE  Texts' /\ Plain!Next
<1>1. Texts' /\ Content' = Content
  BY CompactKeepsText, UnchangedTexts DEF CharacterAtIndex
<1>2. r.location \in Nat /\ Len(Content) \in Nat /\ length = Len(Content)
  BY ContentIsText, RangesAreRanges
<1>3. Read(IF r.location < Len(Content) THEN <<"char", Content[r.location + 1]>>
                                        ELSE Exception)
  <2>1. CASE r.location >= length
    BY <1>2, <2>1 DEF CharacterAtIndex
  <2>2. CASE ~ (r.location >= length)
    BY <1>2, <2>2, ImmutableCopyIsContent DEF CharacterAtIndex
  <2> QED BY <2>1, <2>2
<1>4. Plain!GetCharacter(r.location)
  BY <1>1, <1>3, AnswerStep DEF Plain!GetCharacter, Plain!Exception, Exception
<1> QED BY <1>1, <1>4 DEF Plain!Next

LEMMA CopyStep ==
    ASSUME Texts, Copy \/ CompactedString
    PROVE  Texts' /\ Plain!Next
<1>1. Texts' /\ Content' = Content
  BY CompactKeepsText, UnchangedTexts DEF Copy, CompactedString
<1>2. Read(<<"text", Content>>)
  BY ImmutableCopyIsContent DEF Copy, CompactedString
<1>3. Plain!GetCopy
  BY <1>1, <1>2, AnswerStep DEF Plain!GetCopy
<1> QED BY <1>1, <1>3 DEF Plain!Next

(* The cached conversion answers for the text because it is fresh.         *)
LEMMA Utf8LengthStep ==
    ASSUME Texts, Cached, MulleUTF8StringLength
    PROVE  Texts' /\ Plain!Next
<1>1. Texts' /\ Content' = Content
  BY UnchangedTexts DEF MulleUTF8StringLength
<1>2. Plain!Utf8Length(Content) = Bytes(Content)
  BY DEF Plain!Utf8Length, Bytes
<1>3. BytesOfAll(storage) = Bytes(Content)
  BY BytesOfTheText DEF Texts, Content
<1>4. Read(<<"number", Bytes(Content)>>)
  BY <1>3 DEF MulleUTF8StringLength, Cached, ShadowIsFresh
<1>5. Plain!GetUtf8Length
  BY <1>1, <1>2, <1>4, AnswerStep DEF Plain!GetUtf8Length
<1> QED BY <1>1, <1>5 DEF Plain!Next

LEMMA Utf8Step ==
    ASSUME Texts, Cached, UTF8String
    PROVE  Texts' /\ Plain!Next
<1>1. Texts' /\ Content' = Content
  BY UnchangedTexts DEF UTF8String
<1>2. reply' = <<"utf8", Content>>
  <2>1. CASE shadow # NoBuffer
    BY <2>1 DEF UTF8String, Cached, ShadowIsFresh, utf8
  <2>2. CASE shadow = NoBuffer
    <3>1. PICK b \in Buffer \ DOMAIN heap :
             /\ shadow' = b
             /\ heap' = [a \in DOMAIN heap \cup {b} |->
                             IF a = b THEN Content ELSE heap[a]]
      BY <2>2 DEF UTF8String
    <3>2. heap'[shadow'] = Content
      BY <3>1
    <3> QED BY <3>2 DEF UTF8String
  <2> QED BY <2>1, <2>2
<1>3. Plain!GetUtf8
  BY <1>1, <1>2 DEF UTF8String, Plain!GetUtf8, Plain!Answer
<1> QED BY <1>1, <1>3 DEF Plain!Next

-----------------------------------------------------------------------------
(* The mutators.                                                           *)

LEMMA ArgumentIsText ==
    ASSUME NEW s \in Argument, s # Nil, s # Self
    PROVE  s \in Text /\ s \in Seq(Char)
  BY TextIsText DEF Argument

LEMMA AppendStep ==
    ASSUME Texts, NEW s \in Argument, AppendString(s)
    PROVE  Texts' /\ Plain!Next
<1>1. PICK t \in Seq(Char) : t = Content
  BY ContentIsText
<1>2. CASE s = Nil \/ LengthOf(s, length) = 0
  <2>1. Texts' /\ Content' = Content
    BY <1>2, UnchangedTexts DEF AppendString
  <2>2. t \o << >> = t
    BY ConcatEmptySeq
  <2>3. Plain!Extend(<< >>)
    BY <1>1, <2>1, <2>2
       DEF AppendString, Mutated, Plain!Extend, Plain!Mutate, Plain!Done, Done
  <2>4. << >> \in Plain!Argument
    BY DEF Plain!Argument
  <2> QED BY <2>1, <2>3, <2>4 DEF Plain!Next
<1>3. CASE ~ (s = Nil \/ LengthOf(s, length) = 0)
  <2>1. PICK a \in Seq(Char) : a = IF s = Self THEN ImmutableCopy ELSE s
    BY <1>1, <1>3, ArgumentIsText, ImmutableCopyIsContent
  <2>2. a \in Plain!Argument \cup {Content}
    <3>1. CASE s = Self
      BY <2>1, <3>1, ImmutableCopyIsContent
    <3>2. CASE s # Self
      BY <1>3, <2>1, <3>2, ArgumentIsText DEF Plain!Argument
    <3> QED BY <3>1, <3>2
  <2>3. storage' = Append(storage, a) /\ length' = length + Len(a)
    BY <1>3, <2>1 DEF AppendString
  <2>4. Content' = Content \o a
    <3>1. FlattenSeq(Append(storage, a)) = FlattenSeq(storage) \o a
      BY JoinOfAppend DEF Texts
    <3> QED BY <2>3, <3>1 DEF Content
  <2>5. Texts'
    <3>1. storage' \in Seq(Seq(Char))
      BY <2>3, AppendProperties DEF Texts
    <3>2. Len(t \o a) = Len(t) + Len(a)
      BY ConcatProperties
    <3>3. length' = Len(Content')
      BY <1>1, <2>3, <2>4, <3>2, ContentIsText
    <3> QED BY <3>1, <3>3 DEF Texts, LengthIsTotal
  <2>6. Plain!Extend(a)
    BY <2>4 DEF AppendString, Mutated, Plain!Extend, Plain!Mutate, Plain!Done, Done
  <2> QED BY <2>2, <2>5, <2>6 DEF Plain!Next
<1> QED BY <1>2, <1>3

(* The receiver among the strings it is rebuilt from counts as a copy of   *)
(* the ones before it.                                                     *)
LEMMA CopyOfReceiver ==
    ASSUME NEW x \in Seq(Seq(Char)), NEW z \in Seq(Seq(Char)),
           CopyStrings((x \o <<Self>>) \o z)
    PROVE  Texts' /\ Content' = (FlattenSeq(x) \o FlattenSeq(x)) \o FlattenSeq(z)
<1>1. PICK m \in Nat, n \in Nat : m = Len(x) /\ n = Len(z)
  BY LenProperties
<1>2. PICK a \in Seq(Char) : a = FlattenSeq(x)
  BY ConcatenationIsText
<1>3. x \in Seq(Given) /\ z \in Seq(Given) /\ <<Self>> \in Seq(Given)
  <2>1. <<Self>> \in Seq(Given)
    BY DEF Given
  <2> QED BY <2>1, TextsAreGiven
<1>4. PICK u \in Seq(Given) : u = (x \o <<Self>>) \o z
  BY <1>3, ConcatProperties
<1>5. /\ Len(u) = m + 1 + n
      /\ \A i \in 1..m : u[i] = x[i]
      /\ u[m + 1] = Self
      /\ \A i \in 1..n : u[m + 1 + i] = z[i]
  <2>1. PICK y \in Seq(Given) : y = x \o <<Self>>
    BY <1>3, ConcatProperties
  <2>2. /\ Len(y) = m + 1
        /\ \A i \in 1..(m + 1) : y[i] = IF i <= m THEN x[i] ELSE <<Self>>[i - m]
    BY <1>1, <1>3, <2>1, ConcatProperties
  <2>3. u = y \o z
    BY <1>4, <2>1
  <2>4. /\ Len(u) = (m + 1) + n
        /\ \A i \in 1..((m + 1) + n) : u[i] = IF i <= m + 1 THEN y[i] ELSE z[i - (m + 1)]
    <3>1. /\ Len(y \o z) = Len(y) + Len(z)
          /\ \A i \in 1..(Len(y) + Len(z)) :
                (y \o z)[i] = IF i <= Len(y) THEN y[i] ELSE z[i - Len(y)]
      BY <1>3, ConcatProperties
    <3>2. Len(y) = m + 1 /\ Len(z) = n
      BY <1>1, <2>2
    <3> QED BY <2>3, <3>1, <3>2
  <2>5. \A i \in 1..m : i \in 1..(m + 1) /\ i \in 1..((m + 1) + n) /\ i <= m + 1
    OBVIOUS
  <2>6. /\ m + 1 \in 1..(m + 1) /\ m + 1 \in 1..((m + 1) + n)
        /\ ~ (m + 1 <= m) /\ (m + 1) - m = 1
    OBVIOUS
  <2>7. \A i \in 1..n : /\ m + 1 + i \in 1..((m + 1) + n) /\ ~ (m + 1 + i <= m + 1)
                        /\ (m + 1 + i) - (m + 1) = i
    OBVIOUS
  <2>8. y[m + 1] = Self
    BY <2>2, <2>6
  <2> QED BY <2>2, <2>4, <2>5, <2>6, <2>7, <2>8
<1>6. \A i \in 1..(m + 1 + n) : u[i] = Self <=> i = m + 1
  <2>1. \A i \in 1..m : x[i] # Self
    BY <1>1, ElementOfSeq, SelfIsNoText
  <2>2. \A i \in 1..n : z[i] # Self
    BY <1>1, ElementOfSeq, SelfIsNoText
  <2>3. \A i \in 1..(m + 1 + n) :
           i \in 1..m \/ i = m + 1 \/ (i - (m + 1) \in 1..n /\ m + 1 + (i - (m + 1)) = i)
    OBVIOUS
  <2>4. ASSUME NEW i \in 1..(m + 1 + n), i # m + 1 PROVE u[i] # Self
    <3>1. CASE i \in 1..m
      BY <1>5, <2>1, <3>1
    <3>2. CASE i - (m + 1) \in 1..n
      <4>1. PICK j \in 1..n : j = i - (m + 1)
        BY <3>2
      <4>2. i = m + 1 + j
        BY <4>1
      <4>3. u[m + 1 + j] # Self
        BY <1>5, <2>2
      <4> QED BY <4>2, <4>3
    <3> QED BY <2>3, <2>4, <3>1, <3>2
  <2> QED BY <1>5, <2>4
<1>7. ReceiverOnce(u)
  BY <1>5, <1>6 DEF ReceiverOnce
<1>8. Texts' /\ Content' = FlattenSeq(Copies(u))
  BY <1>4, <1>7, CopiedIsText
<1>9. PICK c \in Seq(Seq(Char)) : c = Copies(u)
  BY <1>7, CopiesAreTexts
<1>10. SubSeq(u, 1, m) = x
  <2>1. PICK v : v = SubSeq(u, 0 + 1, 0 + m)
    OBVIOUS
  <2>2. v \in Seq(Given) /\ Len(v) = m /\ \A i \in 1..m : v[i] = u[0 + i]
    <3>1. 0 + m <= Len(u)
      BY <1>5
    <3>2. IsPart(SubSeq(u, 0 + 1, 0 + m), u, 0, m, Given)
      BY ONLY u \in Seq(Given), 0 \in Nat, m \in Nat, <3>1, PartOfText
    <3> QED BY <2>1, <3>2 DEF IsPart
  <2>3. Len(v) = Len(x) /\ \A i \in 1..Len(v) : v[i] = x[i]
    BY <1>1, <1>5, <2>2
  <2>4. v = x
    BY <1>3, <2>2, <2>3, SeqEqual
  <2> QED BY <2>1, <2>4
<1>11. /\ Len(c) = m + 1 + n
       /\ \A i \in 1..m : c[i] = x[i]
       /\ c[m + 1] = a
       /\ \A i \in 1..n : c[m + 1 + i] = z[i]
  <2>1. Len(c) = m + 1 + n
    BY <1>5, <1>9 DEF Copies
  <2>2. \A i \in 1..(m + 1 + n) :
           c[i] = IF u[i] = Self THEN FlattenSeq(SubSeq(u, 1, i - 1)) ELSE u[i]
    BY <1>5, <1>9 DEF Copies
  <2>3. \A i \in 1..(m + 1 + n) : i # m + 1 => c[i] = u[i]
    BY <1>6, <2>2
  <2>4. m + 1 \in 1..(m + 1 + n) /\ (m + 1) - 1 = m
    OBVIOUS
  <2>5. c[m + 1] = a
    BY <1>2, <1>6, <1>10, <2>2, <2>4
  <2> QED BY <1>5, <2>1, <2>3, <2>5
<1>12. PICK first \in Seq(Seq(Char)) : first = Append(x, a)
  BY AppendProperties
<1>13. /\ Len(first) = m + 1 /\ first[m + 1] = a
       /\ \A i \in 1..m : first[i] = x[i]
  BY <1>1, <1>12, AppendProperties
<1>14. PICK w \in Seq(Seq(Char)) : w = first \o z
  BY ConcatProperties
<1>15. /\ Len(w) = (m + 1) + n
       /\ \A i \in 1..((m + 1) + n) : w[i] = IF i <= m + 1 THEN first[i] ELSE z[i - (m + 1)]
  <2>1. /\ Len(first \o z) = Len(first) + Len(z)
        /\ \A i \in 1..(Len(first) + Len(z)) :
              (first \o z)[i] = IF i <= Len(first) THEN first[i] ELSE z[i - Len(first)]
    BY ONLY first \in Seq(Seq(Char)), z \in Seq(Seq(Char)), ConcatProperties
  <2>2. Len(first) = m + 1 /\ Len(z) = n
    BY <1>1, <1>13
  <2> QED BY <1>14, <2>1, <2>2
<1>16. c = w
  <2>1. Len(c) = Len(w)
    BY <1>11, <1>15
  <2>2. ASSUME NEW i \in 1..Len(c) PROVE c[i] = w[i]
    <3>1. i \in 1..((m + 1) + n)
      BY <1>11
    <3>2. CASE i <= m
      BY <1>11, <1>13, <1>15, <3>1, <3>2
    <3>3. CASE i = m + 1
      BY <1>11, <1>13, <1>15, <3>1, <3>3
    <3>4. CASE i > m + 1
      <4>1. PICK j \in 1..n : j = i - (m + 1)
        BY <3>1, <3>4
      <4>2. i = m + 1 + j /\ ~ (i <= m + 1)
        BY <3>1, <3>4, <4>1
      <4> QED BY <1>11, <1>15, <3>1, <4>1, <4>2
    <3> QED BY <3>1, <3>2, <3>3, <3>4
  <2> QED BY <2>1, <2>2, SeqEqual
<1>17. FlattenSeq(w) = FlattenSeq(first) \o FlattenSeq(z)
  BY <1>14, JoinOfConcat
<1>18. FlattenSeq(first) = a \o a
  BY <1>2, <1>12, JoinOfAppend
<1> QED BY <1>2, <1>8, <1>9, <1>16, <1>17, <1>18

LEMMA SetStep ==
    ASSUME NEW s \in Argument, SetString(s)
    PROVE  Texts' /\ Plain!Next
<1>1. /\ CopyStrings(IF s = Nil THEN << >> ELSE <<s>>)
      /\ state = "live" /\ state' = "live" /\ reply' = Done
  BY DEF SetString, ShrinkWith, Mutated
<1>2. << >> \in Seq(Seq(Char)) /\ << >> \in Seq(Char)
  BY EmptySeq
<1>3. ASSUME Content' = << >> PROVE Plain!Next
  <2>1. Plain!SetItself
    BY <1>1, <1>3 DEF Plain!SetItself, Plain!Mutate, Plain!Done, Done
  <2> QED BY <2>1 DEF Plain!Next
<1>4. CASE s = Nil
  <2>1. Texts' /\ Content' = FlattenSeq(<< >>)
    BY <1>1, <1>2, <1>4, CopiedTexts
  <2> QED BY <1>3, <2>1, JoinOfNone
<1>5. CASE s = Self
  <2>1. (<< >> \o <<Self>>) \o << >> = <<s>>
    <3>1. <<Self>> \in Seq({Self})
      OBVIOUS
    <3>2. << >> \o <<Self>> = <<Self>> /\ <<Self>> \o << >> = <<Self>>
      BY <3>1, ConcatEmptySeq
    <3> QED BY <1>5, <3>2
  <2>2. CopyStrings((<< >> \o <<Self>>) \o << >>)
    BY <1>1, <1>5, <2>1, SelfIsNoText
  <2>3. Texts' /\ Content' = (FlattenSeq(<< >>) \o FlattenSeq(<< >>)) \o FlattenSeq(<< >>)
    BY <1>2, <2>2, CopyOfReceiver
  <2>4. << >> \o << >> = << >>
    BY <1>2, ConcatEmptySeq
  <2> QED BY <1>3, <2>3, <2>4, JoinOfNone
<1>6. CASE s # Nil /\ s # Self
  <2>1. s \in Text /\ s \in Seq(Char)
    BY <1>6, ArgumentIsText
  <2>2. <<s>> \in Seq(Seq(Char))
    BY <2>1
  <2>3. Texts' /\ Content' = FlattenSeq(<<s>>)
    BY <1>1, <1>6, <2>2, CopiedTexts
  <2>4. Content' = s
    BY <2>1, <2>3, JoinOfOne
  <2>5. Plain!Set(s)
    BY <1>1, <2>4 DEF Plain!Set, Plain!Mutate, Plain!Done, Done
  <2> QED BY <2>1, <2>3, <2>5 DEF Plain!Next, Plain!Argument
<1> QED BY <1>4, <1>5, <1>6

(* The text that a replacement leaves: what precedes the range, the        *)
(* replacement, what follows the range.                                    *)
FrontParts(r) == IF FromStart(r) THEN << >> ELSE <<Substring(Leading(r))>>
RearParts(r)  == IF ToEnd(r) THEN << >> ELSE <<Substring(Trailing(r))>>

LEMMA FrontIsBefore ==
    ASSUME Texts, NEW r \in Ranges, LeadingIsValid(r)
    PROVE  /\ FrontParts(r) \in Seq(Seq(Char))
           /\ FlattenSeq(FrontParts(r)) = Plain!Before(r)
           /\ r.location <= length
<1>1. PICK t \in Seq(Char) : t = Content
  BY ContentIsText
<1>2. PICK loc \in Nat : loc = r.location
  BY RangesAreRanges
<1>3. length = Len(t) /\ length \in Nat
  BY <1>1, ContentIsText
<1>4. loc <= length
  BY <1>2, <1>3 DEF LeadingIsValid, FromStart
<1>5. PICK a \in Seq(Char) : a = SubSeq(t, 0 + 1, 0 + loc)
  <2>1. 0 + loc <= Len(t)
    BY <1>3, <1>4
  <2>2. IsPart(SubSeq(t, 0 + 1, 0 + loc), t, 0, loc, Char)
    BY ONLY t \in Seq(Char), 0 \in Nat, loc \in Nat, <2>1, PartOfText
  <2> QED BY <2>2 DEF IsPart
<1>6. 0 + loc = loc /\ 0 + 1 = 1
  OBVIOUS
<1>7. Plain!Before(r) = a
  BY <1>1, <1>2, <1>5, <1>6 DEF Plain!Before
<1>8. CASE FromStart(r)
  <2>1. FrontParts(r) = << >>
    BY <1>8 DEF FrontParts
  <2>2. a = << >>
    <3>1. 0 + loc < 0 + 1
      BY <1>2, <1>8 DEF FromStart
    <3> QED BY <1>5, <3>1, SubSeqEmpty
  <2> QED BY <1>2, <1>4, <1>7, <2>1, <2>2, JoinOfNone, EmptySeq
<1>9. CASE ~ FromStart(r)
  <2>1. Leading(r).location = 0 /\ Leading(r).length = loc
    BY <1>2 DEF Leading
  <2>2. Substring(Leading(r)) = a
    BY <1>1, <1>5, <2>1, ImmutableCopyIsContent DEF Substring
  <2>3. FrontParts(r) = <<a>>
    BY <1>9, <2>2 DEF FrontParts
  <2>4. <<a>> \in Seq(Seq(Char)) /\ FlattenSeq(<<a>>) = a
    BY JoinOfOne
  <2> QED BY <1>2, <1>4, <1>7, <2>3, <2>4
<1> QED BY <1>8, <1>9

LEMMA RearIsAfter ==
    ASSUME Texts, NEW r \in Ranges, TrailingIsValid(r)
    PROVE  /\ RearParts(r) \in Seq(Seq(Char))
           /\ IF Plain!IsValid(r, Len(Content)) THEN FlattenSeq(RearParts(r)) = Plain!After(r)
              ELSE ToEnd(r) /\ FlattenSeq(RearParts(r)) = << >>
<1>1. PICK t \in Seq(Char) : t = Content
  BY ContentIsText
<1>2. PICK loc \in Nat, len \in Nat : loc = r.location /\ len = r.length
  BY RangesAreRanges
<1>3. length = Len(t) /\ length \in Nat
  BY <1>1, ContentIsText
<1>4. Plain!IsValid(r, Len(Content)) <=> loc + len <= length
  BY <1>1, <1>2, <1>3 DEF Plain!IsValid
<1>5. Plain!After(r) = SubSeq(t, loc + len + 1, length)
  BY <1>1, <1>2, <1>3 DEF Plain!After
<1>6. CASE ToEnd(r)
  <2>1. RearParts(r) = << >>
    BY <1>6 DEF RearParts
  <2>2. ASSUME loc + len <= length PROVE Plain!After(r) = << >>
    <3>1. length < loc + len + 1
      BY <1>2, <1>3, <1>6, <2>2 DEF ToEnd
    <3> QED BY <1>3, <1>5, <3>1, SubSeqEmpty
  <2> QED BY <1>4, <1>6, <2>1, <2>2, JoinOfNone, EmptySeq
<1>7. CASE ~ ToEnd(r)
  <2>1. loc + len <= length
    BY <1>2, <1>7 DEF TrailingIsValid, IsValid
  <2>2. PICK i \in Nat, n \in Nat : i = loc + len /\ n = length - i
    <3>1. loc + len \in Nat /\ length - (loc + len) \in Nat
      BY <1>3, <2>1
    <3> QED BY <3>1
  <2>3. i + n = length
    BY <1>3, <2>2
  <2>4. PICK b \in Seq(Char) : b = SubSeq(t, i + 1, i + n)
    <3>1. i + n <= Len(t)
      BY <1>3, <2>3
    <3>2. IsPart(SubSeq(t, i + 1, i + n), t, i, n, Char)
      BY ONLY t \in Seq(Char), i \in Nat, n \in Nat, <3>1, PartOfText
    <3> QED BY <3>2 DEF IsPart
  <2>5. Trailing(r).location = i /\ Trailing(r).length = n
    BY <1>2, <2>2 DEF Trailing
  <2>6. Substring(Trailing(r)) = b
    BY <1>1, <2>4, <2>5, ImmutableCopyIsContent DEF Substring
  <2>7. RearParts(r) = <<b>>
    BY <1>7, <2>6 DEF RearParts
  <2>8. <<b>> \in Seq(Seq(Char)) /\ FlattenSeq(<<b>>) = b
    BY JoinOfOne
  <2>9. Plain!After(r) = b
    BY <1>5, <2>2, <2>3, <2>4
  <2> QED BY <1>4, <2>1, <2>7, <2>8, <2>9
<1> QED BY <1>6, <1>7

LEMMA ReplaceStep ==
    ASSUME Texts, NEW r \in Ranges, NEW s \in Text \cup {Self, << >>},
           ReplaceCharacters(r, s)
    PROVE  Texts' /\ Plain!Next
<1>1. /\ LeadingIsValid(r) /\ TrailingIsValid(r) /\ CopyStrings(Parts(r, s))
      /\ state = "live" /\ state' = "live" /\ reply' = Done
  BY DEF ReplaceCharacters, Mutated
<1>2. PICK x \in Seq(Seq(Char)) : x = FrontParts(r)
  BY <1>1, FrontIsBefore
<1>3. PICK z \in Seq(Seq(Char)) : z = RearParts(r)
  BY <1>1, RearIsAfter
<1>4. PICK a \in Seq(Char) : a = FlattenSeq(x)
  BY ConcatenationIsText
<1>5. PICK b \in Seq(Char) : b = FlattenSeq(z)
  BY ConcatenationIsText
<1>6. a = Plain!Before(r)
  BY <1>1, <1>2, <1>4, FrontIsBefore
<1>7. ASSUME NEW c \in Seq(Char), Content' = (a \o c) \o b
      PROVE  Plain!Replace(r, c) \/ Plain!ReplaceOutside(r, c)
  <2>1. CASE Plain!IsValid(r, Len(Content))
    <3>1. b = Plain!After(r)
      BY <1>1, <1>3, <1>5, <2>1, RearIsAfter
    <3> QED BY <1>1, <1>6, <1>7, <2>1, <3>1
            DEF Plain!Replace, Plain!Mutate, Plain!Done, Done
  <2>2. CASE ~ Plain!IsValid(r, Len(Content))
    <3>1. ToEnd(r) /\ b = << >>
      BY <1>1, <1>3, <1>5, <2>2, RearIsAfter
    <3>2. Plain!IsUnchecked(r)
      BY <1>1, <3>1, FrontIsBefore, ContentIsText DEF ToEnd, Plain!IsUnchecked
    <3>3. a \o c \in Seq(Char)
      BY ConcatProperties
    <3>4. (a \o c) \o << >> = a \o c
      BY <3>3, ConcatEmptySeq
    <3>5. Content' = a \o c
      BY <1>7, <3>1, <3>4
    <3> QED BY <1>1, <1>6, <2>2, <3>2, <3>5
            DEF Plain!ReplaceOutside, Plain!Mutate, Plain!Done, Done
  <2> QED BY <2>1, <2>2
<1>8. Parts(r, s) = (x \o (IF LengthOf(s, length) = 0 THEN << >> ELSE <<s>>)) \o z
  BY <1>2, <1>3 DEF Parts, FrontParts, RearParts
<1>9. ASSUME NEW y \in Seq(Seq(Char)), Parts(r, s) = (x \o y) \o z
      PROVE  Texts' /\ Content' = (a \o FlattenSeq(y)) \o b
  <2>1. PICK v \in Seq(Seq(Char)) : v = x \o y
    BY ConcatProperties
  <2>2. PICK w \in Seq(Seq(Char)) : w = v \o z
    BY ConcatProperties
  <2>3. Texts' /\ Content' = FlattenSeq(w)
    BY <1>1, <1>9, <2>1, <2>2, CopiedTexts
  <2>4. FlattenSeq(w) = FlattenSeq(v) \o b
    BY <1>5, <2>2, JoinOfConcat
  <2>5. FlattenSeq(v) = a \o FlattenSeq(y)
    BY <1>4, <2>1, JoinOfConcat
  <2> QED BY <2>3, <2>4, <2>5
<1>10. << >> \in Seq(Seq(Char)) /\ << >> \in Seq(Char) /\ FlattenSeq(<< >>) = << >>
  BY EmptySeq, JoinOfNone
<1>11. CASE s = Self /\ length = 0
  <2>1. Parts(r, s) = (x \o << >>) \o z
    BY <1>8, <1>11 DEF LengthOf
  <2>2. Texts' /\ Content' = (a \o << >>) \o b
    BY <1>9, <1>10, <2>1
  <2>3. a = << >>
    <3>1. FromStart(r)
      <4>1. r.location \in Nat
        BY RangesAreRanges
      <4> QED BY <1>1, <1>11, <4>1 DEF LeadingIsValid, FromStart
    <3> QED BY <1>2, <1>4, <1>10, <3>1 DEF FrontParts
  <2>4. Plain!Replace(r, a) \/ Plain!ReplaceOutside(r, a)
    BY <1>7, <2>2, <2>3
  <2>5. Plain!ReplaceItself(r)
    BY <1>6, <2>4 DEF Plain!ReplaceItself
  <2> QED BY <2>2, <2>5 DEF Plain!Next
<1>12. CASE s = Self /\ length # 0
  <2>1. Parts(r, s) = (x \o <<Self>>) \o z
    BY <1>8, <1>12 DEF LengthOf
  <2>2. CopyStrings((x \o <<Self>>) \o z)
    BY <1>1, <2>1
  <2>3. Texts' /\ Content' = (a \o a) \o b
    BY <1>4, <1>5, <2>2, CopyOfReceiver
  <2>4. Plain!Replace(r, a) \/ Plain!ReplaceOutside(r, a)
    BY <1>7, <2>3
  <2>5. Plain!ReplaceItself(r)
    BY <1>6, <2>4 DEF Plain!ReplaceItself
  <2> QED BY <2>3, <2>5 DEF Plain!Next
<1>13. CASE s # Self
  <2>1. PICK c \in Seq(Char) : c = s /\ c \in Plain!Argument
    BY <1>10, <1>13, TextIsText DEF Plain!Argument
  <2>2. Texts' /\ Content' = (a \o c) \o b
    <3>1. CASE Len(c) = 0
      <4>1. c = << >>
        BY <3>1, EmptySeq
      <4>2. Parts(r, s) = (x \o << >>) \o z
        BY <1>8, <1>13, <2>1, <3>1 DEF LengthOf
      <4> QED BY <1>9, <1>10, <4>1, <4>2
    <3>2. CASE Len(c) # 0
      <4>1. Parts(r, s) = (x \o <<c>>) \o z
        BY <1>8, <1>13, <2>1, <3>2 DEF LengthOf
      <4>2. <<c>> \in Seq(Seq(Char)) /\ FlattenSeq(<<c>>) = c
        BY JoinOfOne
      <4> QED BY <1>9, <4>1, <4>2
    <3> QED BY <3>1, <3>2
  <2>3. Plain!Replace(r, c) \/ Plain!ReplaceOutside(r, c)
    BY <1>7, <2>2
  <2> QED BY <2>1, <2>2, <2>3 DEF Plain!Next
<1> QED BY <1>11, <1>12, <1>13

LEMMA ReplaceThrowsStep ==
    ASSUME Texts, NEW r \in Ranges, ReplaceThrows(r)
    PROVE  Texts' /\ Plain!Next
<1>1. Texts' /\ Content' = Content
  BY CompactKeepsText DEF ReplaceThrows
<1>2. PICK loc \in Nat, len \in Nat : loc = r.location /\ len = r.length
  BY RangesAreRanges
<1>3. ~ Plain!IsValid(r, Len(Content)) /\ ~ Plain!IsUnchecked(r)
  <2>1. length = Len(Content) /\ length \in Nat
    BY ContentIsText
  <2> QED BY <1>2, <2>1
          DEF ReplaceThrows, LeadingIsValid, FromStart, TrailingIsValid, ToEnd, IsValid,
              Plain!IsValid, Plain!IsUnchecked
<1>4. Plain!Answer(Exception)
  BY <1>1, AnswerStep DEF ReplaceThrows
<1>5. Plain!ReplaceOutside(r, << >>)
  BY <1>3, <1>4 DEF Plain!ReplaceOutside, Plain!Exception, Exception
<1> QED BY <1>1, <1>5 DEF Plain!Next, Plain!Argument

LEMMA RecurseStep ==
    ASSUME Texts, state = "live", RecurseForEver
    PROVE  Texts' /\ UNCHANGED Plain!vars
<1>1. Texts' /\ Content' = Content
  BY UnchangedTexts DEF RecurseForEver
<1> QED BY <1>1 DEF RecurseForEver, Plain!vars

LEMMA EveryStep ==
    ASSUME Texts, Cached, [Next]_vars
    PROVE  Texts' /\ [Plain!Next]_(Plain!vars)
<1>1. CASE UNCHANGED vars
  <2>1. Texts' /\ Content' = Content
    BY <1>1, UnchangedTexts DEF vars, rope
  <2> QED BY <1>1, <2>1 DEF vars, Plain!vars
<1>2. CASE InitEmpty
  BY <1>2, InitStep, EmptySeq DEF InitEmpty
<1>3. ASSUME NEW n \in Capacities, InitWithCapacity(n) PROVE Texts' /\ Plain!Next
  BY <1>3, InitStep, EmptySeq DEF InitWithCapacity
<1>4. ASSUME NEW s \in Text, NEW t \in Text,
             InitWithStrings(<<s>>) \/ InitWithStrings(<<s, t>>)
      PROVE  Texts' /\ Plain!Next
  <2>1. <<s>> \in Seq(Seq(Char)) /\ <<s, t>> \in Seq(Seq(Char))
    <3>1. s \in Seq(Char) /\ t \in Seq(Char)
      BY TextIsText
    <3> QED BY <3>1
  <2> QED BY <1>4, <2>1, InitStep DEF InitWithStrings
<1>5. CASE Dealloc
  BY <1>5, DeallocStep
<1>6. ASSUME NEW s \in Argument, AppendString(s) \/ SetString(s)
      PROVE  Texts' /\ Plain!Next
  BY <1>6, AppendStep, SetStep
<1>7. ASSUME NEW r \in Ranges, NEW s \in Argument \ {Nil}, ReplaceCharacters(r, s)
      PROVE  Texts' /\ Plain!Next
  BY <1>7, ReplaceStep DEF Argument
<1>8. ASSUME NEW r \in Ranges, DeleteCharacters(r) PROVE Texts' /\ Plain!Next
  BY <1>8, ReplaceStep DEF DeleteCharacters
<1>9. ASSUME NEW r \in Ranges, ReplaceThrows(r) PROVE Texts' /\ Plain!Next
  BY <1>9, ReplaceThrowsStep
<1>10. ASSUME NEW r \in Ranges, SubstringWithRange(r) \/ GetCharacters(r)
                                \/ CharacterAtIndex(r.location)
       PROVE  Texts' /\ Plain!Next
  BY <1>10, SubstringStep, GetCharactersStep, CharacterStep
<1>11. ASSUME NEW r \in Ranges, ReplaceInNothing(r)
       PROVE  Texts' /\ UNCHANGED Plain!vars
  BY <1>11, RecurseStep DEF ReplaceInNothing
<1>12. CASE SubstringOfNothing
  BY <1>12, RecurseStep DEF SubstringOfNothing
<1>13. CASE Recurse
  BY <1>1, <1>13 DEF Recurse
<1>14. CASE Copy \/ CompactedString
  BY <1>14, CopyStep
<1>15. CASE MulleUTF8StringLength \/ UTF8String
  BY <1>15, Utf8LengthStep, Utf8Step
<1> QED
  BY <1>1, <1>2, <1>3, <1>4, <1>5, <1>6, <1>7, <1>8, <1>9, <1>10, <1>11, <1>12,
     <1>13, <1>14, <1>15 DEF Next

LEMMA Begin == Init => Texts /\ Cached /\ Plain!Init
<1> SUFFICES ASSUME Init PROVE Texts /\ Cached /\ Plain!Init
  OBVIOUS
<1>1. Content = << >> /\ storage \in Seq(Seq(Char)) /\ Len(<< >>) = 0
  BY JoinOfNone, EmptySeq DEF Init, Content
<1>2. Texts
  BY <1>1 DEF Init, Texts, LengthIsTotal
<1>3. Cached
  BY DEF Init, Cached, ShadowIsFresh, ShadowIsOwned
<1>4. Plain!Init
  BY <1>1 DEF Init, Plain!Init, Plain!Done, Done
<1> QED BY <1>2, <1>3, <1>4

(* _length always is the number of characters in the array of strings.     *)
THEOREM LengthAlwaysTotal == Spec => []LengthIsTotal
<1>1. Texts /\ Cached /\ [Next]_vars => (Texts /\ Cached)'
  BY EveryStep, CachedStep
<1>2. Texts => LengthIsTotal
  BY DEF Texts
<1> QED BY Begin, <1>1, <1>2, PTL DEF Spec

(* The rope, with its capacities, compaction and cached UTF-8, does to its *)
(* characters what a plain text does, and answers what that would answer.  *)
THEOREM ImplementsPlainString == Spec => PlainSpec
<1>1. Texts /\ Cached /\ [Next]_vars => (Texts /\ Cached)'
  BY EveryStep, CachedStep
<1>2. Texts /\ Cached /\ [Next]_vars => [Plain!Next]_(Plain!vars)
  BY EveryStep
<1> QED BY Begin, <1>1, <1>2, PTL DEF Spec, PlainSpec, Plain!Spec

-----------------------------------------------------------------------------
(* The other variables.                                                    *)
Typed == /\ state \in {"none", "live", "recursing"}
         /\ shadowLen \in Nat
         /\ lent \subseteq Buffer

LEMMA CompactKeepsShadowLength == ASSUME Compact PROVE shadowLen' = shadowLen
  BY DEF Compact, ShrinkWith, FlushShadow, utf8

LEMMA TypedStep ==
    ASSUME Typed, Texts, Cached, [Next]_vars
    PROVE  Typed'
<1>1. CASE UNCHANGED vars
  BY <1>1 DEF vars, Typed
<1>2. ASSUME NEW strings, NEW n, InitWith(strings, n) PROVE Typed'
  BY <1>2 DEF InitWith, Typed, utf8
<1>3. CASE Dealloc
  BY <1>3 DEF Dealloc, FlushShadow, Typed
<1>4. ASSUME NEW s, AppendString(s) \/ SetString(s) PROVE Typed'
  BY <1>4 DEF AppendString, SetString, ShrinkWith, FlushShadow, Mutated, Typed, utf8
<1>5. ASSUME NEW r, NEW s, ReplaceCharacters(r, s) \/ DeleteCharacters(r) PROVE Typed'
  BY <1>5 DEF ReplaceCharacters, DeleteCharacters, FlushShadow, Mutated, Typed
<1>6. ASSUME NEW r, ReplaceThrows(r) \/ SubstringWithRange(r) \/ GetCharacters(r)
      PROVE  Typed'
  BY <1>6, CompactKeepsShadowLength
     DEF ReplaceThrows, SubstringWithRange, GetCharacters, Read, Typed, utf8
<1>7. ASSUME NEW i, CharacterAtIndex(i) PROVE Typed'
  BY <1>7, CompactKeepsShadowLength DEF CharacterAtIndex, Read, Typed, utf8
<1>8. CASE CompactedString
  BY <1>8, CompactKeepsShadowLength DEF CompactedString, Read, Typed
<1>9. ASSUME NEW r, ReplaceInNothing(r) PROVE Typed'
  BY <1>9 DEF ReplaceInNothing, RecurseForEver, Typed, utf8
<1>10. CASE SubstringOfNothing \/ Recurse \/ Copy \/ MulleUTF8StringLength
  BY <1>1, <1>10 DEF SubstringOfNothing, RecurseForEver, Recurse, Copy,
                     MulleUTF8StringLength, Read, Typed, utf8
<1>11. CASE UTF8String
  <2>1. Bytes(Content) \in Nat
    BY ContentIsText, BytesIsNumber
  <2>2. shadow' \in Buffer /\ shadowLen' \in Nat
    BY <1>11, <2>1 DEF UTF8String, Cached, Typed, utf8
  <2> QED BY <1>11, <2>2 DEF UTF8String, Typed
<1> QED
  BY <1>1, <1>2, <1>3, <1>4, <1>5, <1>6, <1>7, <1>8, <1>9, <1>10, <1>11
     DEF Next, InitEmpty, InitWithCapacity, InitWithStrings

(* The variables have their types, and a string that is gone holds no      *)
(* memory.                                                                 *)
THEOREM TypeCorrect == Spec => []TypeOK
<1> DEFINE Inv == Typed /\ Texts /\ Cached /\ HasRoom
<1>1. Init => Inv
  <2>1. Init => HasRoom /\ Typed
    BY TuplesAreSequences DEF Init, HasRoom, count, Typed
  <2> QED BY <2>1, Begin
<1>2. Inv /\ [Next]_vars => Inv'
  BY TypedStep, EveryStep, CachedStep, HasRoomStep
<1>3. Inv => TypeOK
  BY ContentIsText DEF Typed, Texts, Cached, ShadowIsOwned, HasRoom, TypeOK
<1> QED BY <1>1, <1>2, <1>3, PTL DEF Spec

=============================================================================
