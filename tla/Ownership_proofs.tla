-------------------------- MODULE Ownership_proofs --------------------------
(***************************************************************************)
(* Proofs about Ownership: for any number of instances and blocks, any     *)
(* texts and any chains of instances that share with one another, nothing  *)
(* is read after it is freed, each block has one owner, the retain counts  *)
(* are exact and the value of an immutable instance never changes.         *)
(***************************************************************************)
EXTENDS Ownership, TLAPS

(* Where an instance can have its characters: with the immutable instance  *)
(* it shares, in itself, in a block it frees, or in one the client keeps.  *)
PlaceOf(o, i, live, blocks) ==
    \/ /\ i.shares \in DOMAIN live /\ live[i.shares].class # "mutable"
       /\ i.at = live[i.shares].at /\ i.at # o
       /\ ~i.frees /\ i.class # "mutable"
    \/ i.shares = None /\ i.at = o /\ i.start = 0 /\ ~i.frees
    \/ /\ i.shares = None /\ i.at \in Block /\ i.start = 0
       /\ i.frees /\ i.at \notin blocks
    \/ /\ i.shares = None /\ i.at \in Block /\ ~i.frees /\ i.at \in blocks
       /\ i.agreed = i.at /\ i.class # "mutable"

Placed == \A o \in Live : PlaceOf(o, object[o], object, mine)

(* No set of instances is closed under sharing: every chain of instances   *)
(* that share with one another ends at one that does not.                  *)
Founded == \A T \in SUBSET Live :
              T # {} => \E p \in T : object[p].shares \notin T

(* The inductive invariant.                                                *)
IInv == /\ TypeOK /\ CharactersAreReadable /\ BlocksHaveOneOwner
        /\ RetainCountsAreExact /\ Placed /\ Founded

(* What ValuesNeverChange says of one step, and what every step is shown   *)
(* to do.                                                                  *)
Steady == \A o \in Live : object[o].class # "mutable" /\ o \in Live'
                              => Readable(o)' /\ Value(o)' = Value(o)
Safe   == IInv' /\ Steady

(* What an initializer that frees the client's blocks in gone leaves of    *)
(* the instances there are.                                                *)
Undisturbed ==
    /\ mine' \subseteq mine
    /\ \A p \in Live : /\ object[p].at \in DOMAIN memory'
                       /\ memory'[object[p].at] = memory[object[p].at]
                       /\ object[p].at \in mine => object[p].at \in mine'

(* Memory stays typed, and belongs to the instance i that appears at o     *)
(* just as to the others.                                                  *)
Receives(o, i) ==
    /\ i \in Instance
    /\ DOMAIN memory' \subseteq Object \cup Block
    /\ \A x \in DOMAIN memory' : memory'[x] \in Seq(Char)
    /\ DOMAIN memory' \cap Object
          = (DOMAIN memory \cap Object) \cup (IF i.at = o THEN {o} ELSE {})
    /\ i.at \in DOMAIN memory' /\ i.start + i.length <= Len(memory'[i.at])
    /\ PlaceOf(o, i, object, mine')

Owned(o, i) ==
    \A b \in Block :
        /\ b \in mine' => b \in DOMAIN memory' /\ ~(i.frees /\ i.at = b)
        /\ b \notin mine' =>
              /\ b \in DOMAIN memory' <=> Owners(b) # {} \/ (i.frees /\ i.at = b)
              /\ Owners(b) = {} \/ ~(i.frees /\ i.at = b)

-----------------------------------------------------------------------------
(* What the helpers on texts return.                                       *)

LEMMA BodyIsText == ASSUME NEW t \in Seq(Char)
                    PROVE  Body(t) \in Seq(Char) /\ Len(Body(t)) <= Len(t)
BY DEF Body, HasBom

LEMMA PartIsText == ASSUME NEW t \in Seq(Char), NEW i \in Nat, NEW n \in Nat, i + n <= Len(t)
                    PROVE  /\ SubSeq(t, i + 1, i + n) \in Seq(Char)
                            /\ Len(SubSeq(t, i + 1, i + n)) = n
<1>1. \A k \in (i + 1)..(i + n) : t[k] \in Char
  OBVIOUS
<1>2. SubSeq(t, i + 1, i + n) \in Seq(Char)
  BY <1>1
<1>3. Len(SubSeq(t, i + 1, i + n)) = n
  OBVIOUS
<1> QED BY <1>2, <1>3

LEMMA ValueIsText == ASSUME IInv, NEW o \in Live
                     PROVE  Value(o) \in Seq(Char) /\ Len(Value(o)) = object[o].length
<1>1. /\ object[o] \in Instance /\ Readable(o)
      /\ memory[object[o].at] \in Seq(Char)
  BY DEF IInv, TypeOK, CharactersAreReadable, Readable
<1>2. /\ object[o].start \in Nat /\ object[o].length \in Nat
      /\ object[o].start + object[o].length <= Len(memory[object[o].at])
  BY <1>1 DEF Instance, Readable
<1> QED BY <1>1, <1>2, PartIsText DEF Value

-----------------------------------------------------------------------------
(* Whose memory it is.                                                     *)

(* What the client neither owes nor gave away holds no characters of an    *)
(* instance: a chain that shares it would end at an instance it agreed     *)
(* to keep it for.                                                         *)
LEMMA SpareIsUnused == ASSUME IInv, NEW b \in Block, Spare(b)
                       PROVE  \A p \in Live : object[p].at # b
<1> DEFINE T == {p \in Live : object[p].at = b}
<1>1. SUFFICES ASSUME T # {} PROVE FALSE
  OBVIOUS
<1>2. PICK p \in T : object[p].shares \notin T
  BY <1>1 DEF IInv, Founded
<1>3. PlaceOf(p, object[p], object, mine)
  BY <1>2 DEF IInv, Placed
<1>4. b \in mine /\ object[p].agreed # b /\ p # b
  BY <1>2, AddressesDiffer DEF Spare, IInv, TypeOK
<1> QED BY <1>2, <1>3, <1>4 DEF PlaceOf, Live

(* An instance that frees its characters, or has them in itself, and with  *)
(* which no instance shares, is the only one that uses them.               *)
LEMMA UnsharedIsAlone ==
    ASSUME IInv, NEW o \in Live, object[o].shares = None,
           object[o].frees \/ object[o].at = o,
           \A p \in Live : object[p].shares # o
    PROVE  \A p \in Live : object[p].at = object[o].at => p = o
<1> DEFINE T == {p \in Live \ {o} : object[p].at = object[o].at}
<1>1. SUFFICES ASSUME T # {} PROVE FALSE
  OBVIOUS
<1>2. PICK p \in T : object[p].shares \notin T
  BY <1>1 DEF IInv, Founded
<1>3. /\ PlaceOf(p, object[p], object, mine) /\ PlaceOf(o, object[o], object, mine)
      /\ o \in Object /\ p \in Object /\ None \notin Live
      /\ object[o] \in Instance
  BY <1>2, AddressesDiffer DEF IInv, Placed, TypeOK
<1>4. ~(object[p].shares \in Live)
  BY <1>2, <1>3 DEF PlaceOf, Live
<1>5. /\ object[p].shares = None
      /\ \/ object[p].at = p /\ ~object[p].frees
         \/ object[p].at \in Block /\ object[p].frees /\ object[p].at \notin mine
         \/ object[p].at \in Block /\ ~object[p].frees /\ object[p].at \in mine
  BY <1>3, <1>4 DEF PlaceOf, Live
<1>6. \/ object[o].at = o /\ ~object[o].frees
      \/ object[o].at \in Block /\ object[o].frees /\ object[o].at \notin mine
  BY <1>3, AddressesDiffer DEF PlaceOf, Live
<1>7. /\ object[p].at \in Block /\ object[p].frees
      /\ object[o].frees /\ object[p].at \notin mine
  BY <1>2, <1>3, <1>5, <1>6, AddressesDiffer
<1>8. o \in Owners(object[o].at) /\ p \in Owners(object[o].at)
  BY <1>2, <1>7 DEF Owners
<1> QED BY <1>2, <1>7, <1>8 DEF IInv, BlocksHaveOneOwner

-----------------------------------------------------------------------------
(* An instance appears: the common part of all initializers.               *)

LEMMA Appearing ==
    ASSUME IInv, NEW o \in Object, NEW i, Appear(o, i),
           Undisturbed, Receives(o, i), Owned(o, i)
    PROVE  Safe
<1> USE DEF Live
<1>1. /\ o \notin Live /\ Live' = Live \cup {o} /\ object'[o] = i
      /\ \A p \in Live : object'[p] = object[p]
  BY DEF Appear, Put
<1>2. /\ i.shares # o
      /\ \A p \in Live : object[p].shares # o
  <2>1. None # o
    BY AddressesDiffer
  <2>2. \A p \in Live : PlaceOf(p, object[p], object, mine)
    BY DEF IInv, Placed
  <2> QED BY <1>1, <2>1, <2>2 DEF PlaceOf, Receives
<1>3. TypeOK'
  <2>1. object' \in [Live' -> Instance] /\ Live' \subseteq Object
    BY DEF IInv, TypeOK, Appear, Put, Receives
  <2>2. mine' \subseteq Block
    BY DEF IInv, TypeOK, Undisturbed
  <2>3. retainers' \in [Object -> SUBSET (Object \cup {Client})]
    BY DEF IInv, TypeOK, Appear
  <2>4. DOMAIN memory' \cap Object = {p \in Live' : object'[p].at = p}
    BY <1>1 DEF IInv, TypeOK, Receives
  <2> QED BY <2>1, <2>2, <2>3, <2>4 DEF TypeOK, Receives
<1>4. CharactersAreReadable'
  BY <1>1 DEF IInv, CharactersAreReadable, Readable, Undisturbed, Receives
<1>5. BlocksHaveOneOwner'
  <2>1. \A b : Owners(b)' = Owners(b) \cup (IF i.frees /\ i.at = b THEN {o} ELSE {})
    BY <1>1 DEF Owners
  <2>2. \A b \in Block : b \in mine' => Owners(b) = {}
    BY DEF IInv, BlocksHaveOneOwner, Undisturbed
  <2>3. \A b \in Block : \A p, q \in Owners(b) : p = q
    BY DEF IInv, BlocksHaveOneOwner
  <2> QED BY <2>1, <2>2, <2>3 DEF BlocksHaveOneOwner, Owned
<1>6. RetainCountsAreExact'
  <2>1. SUFFICES ASSUME NEW q \in Object
                 PROVE  retainers'[q] \ {Client} = {p \in Live' : object'[p].shares = q}
    BY DEF RetainCountsAreExact
  <2>2. retainers[q] \ {Client} = {p \in Live : object[p].shares = q}
    BY DEF IInv, RetainCountsAreExact
  <2>3. retainers'[q] = IF q = o THEN {Client}
                        ELSE IF q = i.shares THEN retainers[q] \cup {o} ELSE retainers[q]
    BY DEF Appear
  <2> QED BY <1>1, <1>2, <2>2, <2>3, AddressesDiffer
<1>7. Placed'
  <2>1. \A p \in Live : PlaceOf(p, object[p], object', mine')
    BY <1>1 DEF IInv, Placed, PlaceOf, Undisturbed
  <2>2. PlaceOf(o, i, object', mine')
    BY <1>1 DEF PlaceOf, Receives
  <2> QED BY <1>1, <2>1, <2>2 DEF Placed
<1>8. Founded'
  <2>1. SUFFICES ASSUME NEW T \in SUBSET Live', T # {}
                 PROVE  \E p \in T : object'[p].shares \notin T
    BY DEF Founded
  <2>2. CASE T = {o}
    BY <1>1, <1>2, <2>2
  <2>3. CASE T # {o}
    <3>1. T \ {o} \in SUBSET Live /\ T \ {o} # {}
      BY <1>1, <2>1, <2>3
    <3>2. PICK p \in T \ {o} : object[p].shares \notin T \ {o}
      BY <3>1 DEF IInv, Founded
    <3> QED BY <1>1, <1>2, <3>1, <3>2
  <2> QED BY <2>2, <2>3
<1>9. Steady
  <2>1. \A p \in Live : Readable(p)' /\ Value(p)' = Value(p)
    BY <1>1, <1>4 DEF CharactersAreReadable, Value, Undisturbed
  <2> QED BY <2>1 DEF Steady
<1> QED BY <1>3, <1>4, <1>5, <1>6, <1>7, <1>8, <1>9 DEF Safe, IInv

(* The same for a step that leaves the instances as they are.              *)
LEMMA Resting ==
    ASSUME IInv, UNCHANGED <<object, retainers>>, mine' \subseteq Block,
           DOMAIN memory' \subseteq Object \cup Block,
           \A x \in DOMAIN memory' : memory'[x] \in Seq(Char),
           DOMAIN memory' \cap Object = DOMAIN memory \cap Object,
           \A p \in Live : /\ object[p].at \in DOMAIN memory'
                           /\ memory'[object[p].at] = memory[object[p].at]
                           /\ object[p].at \in mine <=> object[p].at \in mine',
           \A b \in Block :
              /\ b \in mine' => b \in DOMAIN memory' /\ Owners(b) = {}
              /\ b \notin mine' => (b \in DOMAIN memory' <=> Owners(b) # {})
    PROVE  Safe
<1>1. TypeOK'
  BY DEF IInv, TypeOK, Live
<1>2. CharactersAreReadable'
  BY DEF IInv, CharactersAreReadable, Readable, Live
<1>3. BlocksHaveOneOwner'
  <2>1. \A b : Owners(b)' = Owners(b)
    BY DEF Owners, Live
  <2>2. \A b \in Block : \A p, q \in Owners(b) : p = q
    BY DEF IInv, BlocksHaveOneOwner
  <2> QED BY <2>1, <2>2 DEF BlocksHaveOneOwner
<1>4. RetainCountsAreExact' /\ Founded'
  BY DEF IInv, RetainCountsAreExact, Founded, Live
<1>5. Placed'
  <2>1. SUFFICES ASSUME NEW p \in Live PROVE PlaceOf(p, object[p], object, mine')
    BY DEF Placed, Live
  <2>2. PlaceOf(p, object[p], object, mine)
    BY DEF IInv, Placed
  <2> QED BY <2>2 DEF PlaceOf
<1>6. Steady
  BY <1>2 DEF Steady, Value, CharactersAreReadable, Live
<1> QED BY <1>1, <1>2, <1>3, <1>4, <1>5, <1>6 DEF Safe, IInv

-----------------------------------------------------------------------------
(* The outcomes of an initializer.                                         *)

Unused(gone) == gone \subseteq mine /\ \A p \in Live : object[p].at \notin gone

LEMMA GivenIsUnused ==
    ASSUME IInv, NEW b \in Block, Spare(b), NEW flag \in BOOLEAN
    PROVE  Unused({}) /\ Unused({b}) /\ Unused(Given(b, flag))
BY SpareIsUnused DEF Unused, Given, Spare

LEMMA NoInstanceIsSafe ==
    ASSUME IInv, NEW gone, Unused(gone), NoInstance(gone)
    PROVE  Safe
<1>1. /\ UNCHANGED <<object, retainers>> /\ mine' = mine \ gone
      /\ DOMAIN memory' = DOMAIN memory \ gone
      /\ \A x \in DOMAIN memory' : memory'[x] = memory[x]
      /\ gone \subseteq Block
  BY DEF NoInstance, Remove, Unused, IInv, TypeOK
<1>2. /\ mine' \subseteq Block /\ DOMAIN memory' \subseteq Object \cup Block
      /\ \A x \in DOMAIN memory' : memory'[x] \in Seq(Char)
      /\ DOMAIN memory' \cap Object = DOMAIN memory \cap Object
  BY <1>1, AddressesDiffer DEF IInv, TypeOK
<1>3. \A p \in Live : /\ object[p].at \in DOMAIN memory'
                      /\ memory'[object[p].at] = memory[object[p].at]
                      /\ object[p].at \in mine <=> object[p].at \in mine'
  BY <1>1 DEF IInv, CharactersAreReadable, Readable, Unused
<1>4. \A b \in Block :
         /\ b \in mine' => b \in DOMAIN memory' /\ Owners(b) = {}
         /\ b \notin mine' => (b \in DOMAIN memory' <=> Owners(b) # {})
  BY <1>1 DEF IInv, BlocksHaveOneOwner, Unused
<1> QED BY <1>1, <1>2, <1>3, <1>4, Resting

LEMMA InlineIsSafe ==
    ASSUME IInv, NEW gone, Unused(gone), NEW o \in Object,
           NEW class \in {"string", "data", "mutable"}, NEW t \in Seq(Char),
           Inline(gone, o, class, t)
    PROVE  Safe
<1> DEFINE i == [class |-> class, at |-> o, start |-> 0, length |-> Len(t),
                 frees |-> FALSE, shares |-> None, agreed |-> None]
<1>1. Appear(o, i) /\ mine' = mine \ gone
  BY DEF Inline
<1>2. /\ DOMAIN memory' = (DOMAIN memory \ gone) \cup {o}
      /\ \A x \in DOMAIN memory' : memory'[x] = IF x = o THEN t ELSE memory[x]
      /\ gone \subseteq Block
  BY DEF Inline, Put, Remove, Unused, IInv, TypeOK
<1>3. o \notin DOMAIN memory
  BY <1>1 DEF Appear, IInv, TypeOK
<1>4. Undisturbed
  BY <1>1, <1>2, <1>3 DEF Undisturbed, IInv, CharactersAreReadable, Readable, Unused
<1>5. Receives(o, i)
  <2>1. i \in Instance
    BY DEF Instance
  <2>2. /\ DOMAIN memory' \subseteq Object \cup Block
        /\ \A x \in DOMAIN memory' : memory'[x] \in Seq(Char)
        /\ DOMAIN memory' \cap Object = (DOMAIN memory \cap Object) \cup {o}
    BY <1>2, AddressesDiffer DEF IInv, TypeOK
  <2>3. i.at \in DOMAIN memory' /\ i.start + i.length <= Len(memory'[i.at])
    BY <1>2
  <2> QED BY <2>1, <2>2, <2>3 DEF Receives, PlaceOf
<1>6. Owned(o, i)
  BY <1>1, <1>2, AddressesDiffer DEF Owned, IInv, BlocksHaveOneOwner, Unused
<1> HIDE DEF i
<1> QED BY <1>1, <1>4, <1>5, <1>6, Appearing

LEMMA InBlockIsSafe ==
    ASSUME IInv, NEW gone, Unused(gone), NEW o \in Object,
           NEW class \in {"string", "data", "mutable"}, NEW t \in Seq(Char),
           InBlock(gone, o, class, t)
    PROVE  Safe
<1>1. PICK b \in Block \ DOMAIN memory :
         /\ memory' = Put(Remove(memory, gone), b, t) /\ mine' = mine \ gone
         /\ Appear(o, [class |-> class, at |-> b, start |-> 0, length |-> Len(t),
                       frees |-> TRUE, shares |-> None, agreed |-> None])
  BY DEF InBlock
<1> DEFINE i == [class |-> class, at |-> b, start |-> 0, length |-> Len(t),
                 frees |-> TRUE, shares |-> None, agreed |-> None]
<1>2. /\ DOMAIN memory' = (DOMAIN memory \ gone) \cup {b}
      /\ \A x \in DOMAIN memory' : memory'[x] = IF x = b THEN t ELSE memory[x]
      /\ gone \subseteq Block
  BY <1>1 DEF Put, Remove, Unused, IInv, TypeOK
<1>3. b \notin mine /\ Owners(b) = {} /\ b # o
  BY <1>1, AddressesDiffer DEF IInv, BlocksHaveOneOwner
<1>4. Undisturbed
  BY <1>1, <1>2 DEF Undisturbed, IInv, CharactersAreReadable, Readable, Unused
<1>5. Receives(o, i)
  <2>1. i \in Instance
    BY DEF Instance
  <2>2. /\ DOMAIN memory' \subseteq Object \cup Block
        /\ \A x \in DOMAIN memory' : memory'[x] \in Seq(Char)
        /\ DOMAIN memory' \cap Object = DOMAIN memory \cap Object
    BY <1>2, AddressesDiffer DEF IInv, TypeOK
  <2>3. i.at \in DOMAIN memory' /\ i.start + i.length <= Len(memory'[i.at])
    BY <1>2
  <2> QED BY <1>1, <1>3, <2>1, <2>2, <2>3 DEF Receives, PlaceOf
<1>6. Owned(o, i)
  BY <1>1, <1>2, <1>3 DEF Owned, IInv, BlocksHaveOneOwner, Unused
<1>7. Appear(o, i)
  BY <1>1
<1> HIDE DEF i
<1> QED BY <1>4, <1>5, <1>6, <1>7, Appearing

LEMMA KeepIsSafe ==
    ASSUME IInv, NEW b \in Block, Spare(b), NEW o \in Object,
           NEW class \in {"string", "data"}, NEW frees \in BOOLEAN,
           NEW agreed \in Block \cup {None}, ~frees => agreed = b,
           mine' = IF frees THEN mine \ {b} ELSE mine, UNCHANGED memory,
           Appear(o, [class |-> class, at |-> b, start |-> 0,
                      length |-> Len(memory[b]), frees |-> frees, shares |-> None,
                      agreed |-> agreed])
    PROVE  Safe
<1> DEFINE i == [class |-> class, at |-> b, start |-> 0,
                 length |-> Len(memory[b]), frees |-> frees, shares |-> None,
                 agreed |-> agreed]
<1>1. b \in mine /\ b \in DOMAIN memory /\ Owners(b) = {} /\ b # o
  BY AddressesDiffer DEF Spare, IInv, BlocksHaveOneOwner
<1>2. \A p \in Live : object[p].at # b
  BY SpareIsUnused
<1>3. Undisturbed
  BY <1>2 DEF Undisturbed, IInv, CharactersAreReadable, Readable
<1>4. Receives(o, i)
  <2>1. Len(memory[b]) \in Nat /\ i \in Instance
    BY <1>1 DEF Instance, IInv, TypeOK
  <2>2. PlaceOf(o, i, object, mine')
    BY <1>1 DEF PlaceOf
  <2> QED BY <1>1, <2>1, <2>2 DEF Receives, IInv, TypeOK
<1>5. Owned(o, i)
  BY <1>1 DEF Owned, IInv, BlocksHaveOneOwner
<1>6. Appear(o, i)
  OBVIOUS
<1> HIDE DEF i
<1> QED BY <1>3, <1>4, <1>5, <1>6, Appearing

LEMMA ShareIsSafe ==
    ASSUME IInv, NEW p \in Live, object[p].class # "mutable", NEW o \in Object,
           NEW class \in {"string", "data"}, NEW r \in [location : Nat, length : Nat],
           r.location + r.length <= object[p].length, Share(p, o, class, r)
    PROVE  Safe
<1> DEFINE i == [class |-> class, at |-> object[p].at,
                 start |-> object[p].start + r.location, length |-> r.length,
                 frees |-> FALSE, shares |-> p, agreed |-> None]
<1>1. Appear(o, i) /\ UNCHANGED <<memory, mine>> /\ o \notin Live
  BY DEF Share, Appear
<1>2. object[p] \in Instance /\ Readable(p) /\ p \in Object
  BY DEF IInv, TypeOK, CharactersAreReadable
<1>3. /\ i.at # o
      /\ DOMAIN memory \cap Object = (DOMAIN memory \cap Object)
                                     \cup (IF i.at = o THEN {o} ELSE {})
  BY <1>1, <1>2 DEF Readable, IInv, TypeOK
<1>4. Undisturbed
  BY <1>1 DEF Undisturbed, IInv, CharactersAreReadable, Readable
<1>5. Receives(o, i)
  <2>1. i \in Instance
    BY <1>2 DEF Instance
  <2>2. /\ object[p].start \in Nat /\ object[p].length \in Nat
        /\ r.location \in Nat /\ r.length \in Nat
        /\ memory[object[p].at] \in Seq(Char)
    BY <1>2 DEF Instance, IInv, TypeOK, Readable
  <2>3. i.start + i.length <= Len(memory[i.at])
    BY <1>2, <2>2 DEF Readable
  <2>4. PlaceOf(o, i, object, mine')
    BY <1>3 DEF PlaceOf, Live
  <2> QED BY <1>1, <1>2, <1>3, <2>1, <2>3, <2>4 DEF Receives, IInv, TypeOK, Readable
<1>6. Owned(o, i)
  BY <1>1 DEF Owned, IInv, BlocksHaveOneOwner
<1> HIDE DEF i
<1> QED BY <1>1, <1>4, <1>5, <1>6, Appearing

-----------------------------------------------------------------------------
(* Copies are one of the outcomes.                                         *)

LEMMA CopyOfIsSafe ==
    ASSUME IInv, NEW gone, Unused(gone), NEW o \in Object, NEW t \in Seq(Char),
           NEW inline, CopyOf(gone, o, t, inline)
    PROVE  Safe
<1>1. CASE NoInstance(gone)
  BY <1>1, NoInstanceIsSafe
<1>2. CASE Inline(gone, o, "string", t)
  BY <1>2, InlineIsSafe
<1>3. CASE InBlock(gone, o, "string", t)
  BY <1>3, InBlockIsSafe
<1> QED BY <1>1, <1>2, <1>3 DEF CopyOf

LEMMA CopyIsSafe ==
    ASSUME IInv, NEW gone, Unused(gone), NEW o \in Object, NEW t \in Seq(Char),
           \/ CopyUTF8(gone, o, t) \/ CopyUTF16(gone, o, t) \/ CopyUTF32(gone, o, t)
    PROVE  Safe
BY CopyOfIsSafe DEF CopyUTF8, CopyUTF16, CopyUTF32

LEMMA CopyDataIsSafe ==
    ASSUME IInv, NEW gone, Unused(gone), NEW o \in Object, NEW t \in Seq(Char),
           CopyData(gone, o, t) \/ CopyMutable(gone, o, t)
    PROVE  Safe
<1>1. CASE CopyData(gone, o, t)
  BY <1>1, InlineIsSafe, InBlockIsSafe DEF CopyData
<1>2. CASE CopyMutable(gone, o, t)
  BY <1>2, InlineIsSafe, InBlockIsSafe DEF CopyMutable
<1> QED BY <1>1, <1>2

LEMMA OwnBlocksAreText ==
    ASSUME IInv, NEW b \in mine
    PROVE  b \in DOMAIN memory /\ memory[b] \in Seq(Char) /\ Body(memory[b]) \in Seq(Char)
BY BodyIsText DEF IInv, TypeOK, BlocksHaveOneOwner

-----------------------------------------------------------------------------
(* The client's steps.                                                     *)

LEMMA MallocIsSafe == ASSUME IInv, NEW b \in Block, NEW t \in Text, Malloc(b, t)
                      PROVE  Safe
<1>1. /\ b \notin DOMAIN memory /\ mine' = mine \cup {b}
      /\ UNCHANGED <<object, retainers>>
      /\ DOMAIN memory' = DOMAIN memory \cup {b}
      /\ \A x \in DOMAIN memory' : memory'[x] = IF x = b THEN t ELSE memory[x]
  BY DEF Malloc, Put
<1>2. /\ mine' \subseteq Block /\ DOMAIN memory' \subseteq Object \cup Block
      /\ \A x \in DOMAIN memory' : memory'[x] \in Seq(Char)
      /\ DOMAIN memory' \cap Object = DOMAIN memory \cap Object
  BY <1>1, AddressesDiffer, TextIsText DEF IInv, TypeOK
<1>3. \A p \in Live : /\ object[p].at \in DOMAIN memory'
                      /\ memory'[object[p].at] = memory[object[p].at]
                      /\ object[p].at \in mine <=> object[p].at \in mine'
  BY <1>1 DEF IInv, CharactersAreReadable, Readable
<1>4. \A c \in Block :
         /\ c \in mine' => c \in DOMAIN memory' /\ Owners(c) = {}
         /\ c \notin mine' => (c \in DOMAIN memory' <=> Owners(c) # {})
  BY <1>1 DEF IInv, BlocksHaveOneOwner
<1> QED BY <1>1, <1>2, <1>3, <1>4, Resting

LEMMA WriteIsSafe == ASSUME IInv, NEW b \in Block, NEW t \in Text, Write(b, t)
                     PROVE  Safe
<1>1. /\ Spare(b) /\ UNCHANGED <<mine, object, retainers>>
      /\ DOMAIN memory' = DOMAIN memory
      /\ \A x \in DOMAIN memory' : memory'[x] = IF x = b THEN t ELSE memory[x]
  BY DEF Write
<1>2. /\ mine' \subseteq Block /\ DOMAIN memory' \subseteq Object \cup Block
      /\ \A x \in DOMAIN memory' : memory'[x] \in Seq(Char)
      /\ DOMAIN memory' \cap Object = DOMAIN memory \cap Object
  BY <1>1, TextIsText DEF IInv, TypeOK
<1>3. \A p \in Live : /\ object[p].at \in DOMAIN memory'
                      /\ memory'[object[p].at] = memory[object[p].at]
                      /\ object[p].at \in mine <=> object[p].at \in mine'
  BY <1>1, SpareIsUnused DEF IInv, CharactersAreReadable, Readable
<1>4. \A c \in Block :
         /\ c \in mine' => c \in DOMAIN memory' /\ Owners(c) = {}
         /\ c \notin mine' => (c \in DOMAIN memory' <=> Owners(c) # {})
  BY <1>1 DEF IInv, BlocksHaveOneOwner
<1> QED BY <1>1, <1>2, <1>3, <1>4, Resting

LEMMA FreeIsSafe == ASSUME IInv, NEW b \in Block, Free(b)
                    PROVE  Safe
BY GivenIsUnused, NoInstanceIsSafe DEF Free

-----------------------------------------------------------------------------
(* The initializers.                                                       *)

LEMMA CopyingStringIsSafe ==
    ASSUME IInv, NEW b \in Block, NEW o \in Object,
           \/ InitWithUTF8(b, o) \/ InitWithCharacters(b, o)
           \/ InitWithUTF16Characters(b, o)
    PROVE  Safe
<1>1. b \in mine /\ Unused({})
  BY DEF InitWithUTF8, InitWithCharacters, InitWithUTF16Characters, Unused
<1>2. CASE NoInstance({})
  BY <1>1, <1>2, NoInstanceIsSafe
<1>3. CASE \/ CopyUTF8({}, o, Body(memory[b])) \/ CopyUTF16({}, o, Body(memory[b]))
           \/ CopyUTF32({}, o, Body(memory[b]))
  BY <1>1, <1>3, OwnBlocksAreText, CopyIsSafe
<1> QED BY <1>2, <1>3 DEF InitWithUTF8, InitWithCharacters, InitWithUTF16Characters

LEMMA InitByCopyAndFreeIsSafe ==
    ASSUME IInv, NEW b \in Block, NEW o \in Object, InitByCopyAndFree(b, o)
    PROVE  Safe
<1>1. b \in mine /\ Unused({}) /\ Unused({b})
  BY GivenIsUnused DEF InitByCopyAndFree, Spare
<1>2. CASE NoInstance({})
  BY <1>1, <1>2, NoInstanceIsSafe
<1>3. CASE \/ CopyUTF8({b}, o, Body(memory[b])) \/ CopyUTF16({b}, o, Body(memory[b]))
           \/ CopyUTF32({b}, o, Body(memory[b]))
  BY <1>1, <1>3, OwnBlocksAreText, CopyIsSafe
<1> QED BY <1>2, <1>3 DEF InitByCopyAndFree

LEMMA InitWithUTF16StringIsSafe ==
    ASSUME IInv, NEW b \in Block, NEW o \in Object, InitWithUTF16String(b, o)
    PROVE  Safe
<1> DEFINE t == Body(memory[b])
<1>1. b \in mine /\ Unused({}) /\ Unused({b})
  BY GivenIsUnused DEF InitWithUTF16String, Spare
<1>2. /\ memory[b] \in Seq(Char) /\ t \in Seq(Char)
      /\ Len(t) <= Len(memory[b]) /\ Len(t) \in Nat
  BY <1>1, OwnBlocksAreText, BodyIsText
<1>3. SubSeq(memory[b], 1, Len(t)) \in Seq(Char)
  <2> HIDE DEF t
  <2>1. SubSeq(memory[b], 0 + 1, 0 + Len(t)) \in Seq(Char)
    BY <1>2, PartIsText
  <2> QED BY <1>2, <2>1
<1>4. CASE NoInstance({}) \/ NoInstance({b})
  BY <1>1, <1>4, NoInstanceIsSafe
<1>5. CASE Inline({}, o, "string", SubSeq(memory[b], 1, Len(t)))
  BY <1>1, <1>3, <1>5, InlineIsSafe
<1> QED BY <1>4, <1>5 DEF InitWithUTF16String

LEMMA InitWithUTF8NoCopyIsSafe ==
    ASSUME IInv, NEW b \in Block, NEW o \in Object, NEW flag \in BOOLEAN,
           InitWithUTF8NoCopy(b, o, flag)
    PROVE  Safe
<1>1. Spare(b) /\ Unused({}) /\ Unused(Given(b, flag)) /\ memory[b] \in Seq(Char)
  BY GivenIsUnused, OwnBlocksAreText DEF InitWithUTF8NoCopy, Spare
<1>2. CASE NoInstance({}) \/ NoInstance(Given(b, flag))
  BY <1>1, <1>2, NoInstanceIsSafe
<1>3. CASE Keep(b, o, "string", flag, Len(memory[b]))
  BY <1>1, <1>3, KeepIsSafe DEF Keep
<1>4. CASE InBlock(Given(b, flag), o, "string", memory[b])
  BY <1>1, <1>4, InBlockIsSafe
<1> QED BY <1>2, <1>3, <1>4 DEF InitWithUTF8NoCopy

LEMMA CharactersAtAreText ==
    ASSUME IInv, NEW b \in mine
    PROVE  CharactersAt(b, Len(memory[b])) = memory[b]
<1>1. memory[b] \in Seq(Char)
  BY OwnBlocksAreText
<1>2. PICK t \in Seq(Char) : t = memory[b]
  BY <1>1
<1>3. t = [i \in 1..Len(t) |-> t[i]]
  OBVIOUS
<1>4. CharactersAt(b, Len(t)) = [i \in 1..Len(t) |-> t[i]]
  BY <1>2 DEF CharactersAt
<1> QED BY <1>2, <1>3, <1>4

LEMMA InitWithCharactersNoCopyIsSafe ==
    ASSUME IInv, NEW b \in Block, NEW o \in Object, NEW flag \in BOOLEAN,
           InitWithCharactersNoCopy(b, o, flag, Len(memory[b]))
    PROVE  Safe
<1>1. /\ Spare(b) /\ Unused(Given(b, flag))
      /\ Body(memory[b]) \in Seq(Char)
  BY GivenIsUnused, OwnBlocksAreText DEF InitWithCharactersNoCopy, Spare
<1>2. CharactersAt(b, Len(memory[b])) = memory[b]
  BY <1>1, CharactersAtAreText DEF Spare
<1>3. CASE NoInstance(Given(b, flag))
  BY <1>1, <1>3, NoInstanceIsSafe
<1>4. CASE CopyUTF32(Given(b, flag), o, Body(memory[b]))
  BY <1>1, <1>4, CopyIsSafe
<1>5. CASE Keep(b, o, "string", flag, Len(memory[b]))
  BY <1>1, <1>5, KeepIsSafe DEF Keep
<1> QED BY <1>2, <1>3, <1>4, <1>5 DEF InitWithCharactersNoCopy

(* No characters are four times as many.                                   *)
LEMMA InitWithUnicodeBytesNoCopyIsSafe ==
    ASSUME IInv, NEW b \in Block, NEW o \in Object, NEW flag \in BOOLEAN,
           IsEmpty(b), InitWithUnicodeBytesNoCopy(b, o, flag)
    PROVE  Safe
<1>1. CharSize * Len(memory[b]) = Len(memory[b])
  BY DEF CharSize, IsEmpty
<1> QED BY <1>1, InitWithCharactersNoCopyIsSafe DEF InitWithUnicodeBytesNoCopy

LEMMA DataFromBytesIsSafe ==
    ASSUME IInv, NEW b \in Block, NEW o \in Object,
           \/ InitWithBytes(b, o) \/ InitWithBytesAndFree(b, o)
           \/ InitMutable(b, o) \/ InitMutableNoCopy(b, o)
    PROVE  Safe
<1>1. b \in mine /\ Unused({})
  BY DEF InitWithBytes, InitWithBytesAndFree, InitMutable, InitMutableNoCopy,
         Unused, Spare
<1>2. memory[b] \in Seq(Char)
  BY <1>1, OwnBlocksAreText
<1>3. CASE CopyData({}, o, memory[b]) \/ CopyMutable({}, o, memory[b])
  BY <1>1, <1>2, <1>3, CopyDataIsSafe
<1>4. CASE Spare(b) /\ (CopyData({b}, o, memory[b]) \/ CopyMutable({b}, o, memory[b]))
  BY <1>2, <1>4, GivenIsUnused, CopyDataIsSafe
<1> QED BY <1>3, <1>4 DEF InitWithBytes, InitWithBytesAndFree, InitMutable,
                          InitMutableNoCopy

LEMMA KeptBytesAreSafe ==
    ASSUME IInv, NEW b \in Block, NEW o \in Object, NEW flag \in BOOLEAN,
           InitWithBytesNoCopy(b, o, flag) \/ DataWithBytesNoCopy(b, o)
    PROVE  Safe
<1>1. CASE InitWithBytesNoCopy(b, o, flag)
  BY <1>1, KeepIsSafe DEF InitWithBytesNoCopy, Keep
<1>2. CASE DataWithBytesNoCopy(b, o)
  BY <1>2, KeepIsSafe DEF DataWithBytesNoCopy
<1> QED BY <1>1, <1>2

LEMMA SharingIsSafe ==
    ASSUME IInv, NEW p \in Object, NEW o \in Object,
           ShareUTF8(p, o) \/ ShareUTF32(p, o)
    PROVE  Safe
<1> DEFINE t == Value(p)
<1>1. p \in Live /\ object[p].class = "data" /\ Unused({})
  BY DEF ShareUTF8, ShareUTF32, Held, Unused
<1>2. /\ t \in Seq(Char) /\ Len(t) = object[p].length
      /\ Body(t) \in Seq(Char) /\ Len(Body(t)) <= Len(t)
  <2>1. t \in Seq(Char) /\ Len(t) = object[p].length
    BY <1>1, ValueIsText
  <2> HIDE DEF t
  <2> QED BY <2>1, BodyIsText
<1>3. /\ SkipBom(t) \in [location : Nat, length : Nat]
      /\ SkipBom(t).location + SkipBom(t).length <= object[p].length
  <2> HIDE DEF t
  <2> QED BY <1>2 DEF SkipBom
<1>4. CASE NoInstance({})
  BY <1>1, <1>4, NoInstanceIsSafe
<1>5. CASE Share(p, o, "string", SkipBom(t))
  BY <1>1, <1>3, <1>5, ShareIsSafe
<1>6. CASE InBlock({}, o, "string", Body(t))
  BY <1>1, <1>2, <1>6, InBlockIsSafe
<1> QED BY <1>4, <1>5, <1>6 DEF ShareUTF8, ShareUTF32

LEMMA CopyingInstanceIsSafe ==
    ASSUME IInv, NEW p \in Object, NEW o \in Object,
           InitStringWithData(p, o) \/ InitWithData(p, o) \/ InitMutableWithData(p, o)
    PROVE  Safe
<1>1. p \in Live /\ Unused({}) /\ object[p].class # "string"
  BY DEF InitStringWithData, InitWithData, InitMutableWithData, Held, Unused
<1>2. Value(p) \in Seq(Char) /\ Body(Value(p)) \in Seq(Char)
  BY <1>1, ValueIsText, BodyIsText
<1>3. CASE NoInstance({})
  BY <1>1, <1>3, NoInstanceIsSafe
<1>4. CASE CopyUTF8({}, o, Body(Value(p))) \/ CopyUTF32({}, o, Body(Value(p)))
  BY <1>1, <1>2, <1>4, CopyIsSafe
<1>5. CASE CopyData({}, o, Value(p)) \/ CopyMutable({}, o, Value(p))
  BY <1>1, <1>2, <1>5, CopyDataIsSafe
<1>6. CASE /\ object[p].class # "mutable"
           /\ Share(p, o, "data", [location |-> 0, length |-> object[p].length])
  <2>1. object[p].length \in Nat
    BY <1>1 DEF IInv, TypeOK, Instance
  <2> DEFINE r == [location |-> 0, length |-> object[p].length]
  <2>2. r \in [location : Nat, length : Nat] /\ r.location + r.length <= object[p].length
    BY <2>1
  <2>3. Share(p, o, "data", r)
    BY <1>6
  <2> HIDE DEF r
  <2> QED BY <1>1, <1>6, <2>2, <2>3, ShareIsSafe
<1> QED BY <1>3, <1>4, <1>5, <1>6 DEF InitStringWithData, InitWithData, InitMutableWithData

LEMMA SubstringIsSafe ==
    ASSUME IInv, NEW p \in Object, NEW o \in Object, NEW r \in Ranges,
           SubstringWithRange(p, o, r)
    PROVE  Safe
<1>1. /\ p \in Live /\ object[p].class = "string" /\ Unused({})
      /\ r.location + r.length <= object[p].length
  BY DEF SubstringWithRange, Held, Unused
<1>2. CASE NoInstance({})
  BY <1>1, <1>2, NoInstanceIsSafe
<1>3. CASE Share(p, o, "string", r)
  BY <1>1, <1>3, RangesAreRanges, ShareIsSafe
<1> QED BY <1>2, <1>3 DEF SubstringWithRange

-----------------------------------------------------------------------------
(* The steps that change or remove an instance.                            *)

LEMMA MutateIsSafe ==
    ASSUME IInv, NEW o \in Object, NEW t \in Text, Mutate(o, t)
    PROVE  Safe
<1> USE DEF Live
<1>0. PICK a : a = object[o].at
  OBVIOUS
<1>1. PICK b \in (Block \ DOMAIN memory) \cup ({a} \cap Block) :
         /\ memory' = Put(Remove(memory, {a}), b, t)
         /\ object' = [object EXCEPT ![o].at = b, ![o].length = Len(t),
                                     ![o].frees = TRUE]
  BY <1>0 DEF Mutate
<1>2. /\ o \in Live /\ object[o].class = "mutable" /\ object[o] \in Instance
      /\ UNCHANGED <<mine, retainers>>
  BY DEF Mutate, Held, IInv, TypeOK
<1>3. Live' = Live /\ \A p \in Live \ {o} : object'[p] = object[p]
  BY <1>1, <1>2 DEF IInv, TypeOK
<1>4. PlaceOf(o, object[o], object, mine)
  BY <1>2 DEF IInv, Placed
<1>5. /\ object[o].shares = None /\ object[o].start = 0
      /\ object[o].frees \/ a = o
      /\ a = o \/ a \notin mine
  BY <1>0, <1>2, <1>4 DEF PlaceOf
<1>6. \A p \in Live : object[p].shares # o
  <2>1. o # None
    BY AddressesDiffer
  <2>2. \A p \in Live : PlaceOf(p, object[p], object, mine)
    BY DEF IInv, Placed
  <2> QED BY <1>2, <2>1, <2>2 DEF PlaceOf
<1>7. \A p \in Live \ {o} : object[p].at # a
  BY <1>0, <1>2, <1>5, <1>6, UnsharedIsAlone
<1>8. b \notin mine /\ b \in Block /\ Owners(b) \subseteq {o}
      /\ \A p \in Live \ {o} : object[p].at # b
  <2>1. \A p \in Live : object[p].at \in DOMAIN memory
    BY DEF IInv, CharactersAreReadable, Readable
  <2>2. b \notin DOMAIN memory \/ (b = a /\ a \in Block)
    BY <1>1
  <2>3. b \notin mine
    BY <1>5, <2>2, AddressesDiffer DEF IInv, BlocksHaveOneOwner, TypeOK
  <2> QED BY <1>1, <1>7, <2>1, <2>2, <2>3 DEF Owners
<1>9. /\ DOMAIN memory' = (DOMAIN memory \ {a}) \cup {b}
      /\ \A x \in DOMAIN memory' : memory'[x] = IF x = b THEN t ELSE memory[x]
  BY <1>1 DEF Put, Remove
<1>10. t \in Seq(Char) /\ Len(t) \in Nat
  BY TextIsText
<1>11. /\ object'[o].at = b /\ object'[o].frees /\ object'[o].length = Len(t)
       /\ object'[o].start = 0 /\ object'[o].shares = None
       /\ object'[o].class = "mutable" /\ object'[o] \in Instance
  <2>1. object'[o] = [object[o] EXCEPT !.at = b, !.length = Len(t), !.frees = TRUE]
    BY <1>1, <1>2 DEF IInv, TypeOK
  <2> QED BY <1>2, <1>5, <1>8, <1>10, <2>1 DEF Instance
<1>12. TypeOK'
  <2>1. DOMAIN object' = DOMAIN object /\ \A p \in Live : object'[p] \in Instance
    BY <1>2, <1>3, <1>11 DEF IInv, TypeOK
  <2>2. object' \in [Live' -> Instance]
    BY <1>1, <1>3, <2>1 DEF IInv, TypeOK
  <2>3. DOMAIN memory' \cap Object = {p \in Live' : object'[p].at = p}
    <3>1. o \in DOMAIN memory => o = a
      BY <1>0, <1>2 DEF IInv, TypeOK
    <3>2. b \notin Object /\ o # b
      BY <1>8, AddressesDiffer
    <3>3. ASSUME NEW p \in Object
          PROVE  p \in DOMAIN memory' <=> p \in Live' /\ object'[p].at = p
      <4>1. CASE p = o
        BY <1>9, <1>11, <3>1, <3>2, <4>1
      <4>2. CASE p # o
        BY <1>3, <1>7, <1>9, <3>2, <4>2 DEF IInv, TypeOK
      <4> QED BY <4>1, <4>2
    <3> QED BY <1>3, <3>3 DEF IInv, TypeOK
  <2>4. DOMAIN memory' \subseteq Object \cup Block
    BY <1>8, <1>9 DEF IInv, TypeOK
  <2>5. \A x \in DOMAIN memory' : memory'[x] \in Seq(Char)
    BY <1>9, <1>10 DEF IInv, TypeOK
  <2> QED BY <1>2, <1>3, <2>2, <2>3, <2>4, <2>5 DEF IInv, TypeOK
<1>13. \A p \in Live \ {o} : /\ object[p].at \in DOMAIN memory'
                             /\ memory'[object[p].at] = memory[object[p].at]
  BY <1>7, <1>8, <1>9 DEF IInv, CharactersAreReadable, Readable
<1>14. CharactersAreReadable'
  <2>1. \A p \in Live \ {o} : Readable(p)'
    BY <1>3, <1>13 DEF IInv, CharactersAreReadable, Readable
  <2>2. Readable(o)'
    BY <1>9, <1>10, <1>11 DEF Readable
  <2> QED BY <1>3, <2>1, <2>2 DEF CharactersAreReadable
<1>15. BlocksHaveOneOwner'
  <2>1. Owners(b)' = {o}
    <3>1. \A p \in Live' \ {o} : object'[p].at # b
      BY <1>3, <1>8
    <3>2. o \in Live' /\ object'[o].frees /\ object'[o].at = b
      BY <1>2, <1>3, <1>11
    <3> QED BY <3>1, <3>2 DEF Owners
  <2>2. \A c \in Block \ {a, b} : Owners(c)' = Owners(c)
    BY <1>0, <1>2, <1>3, <1>11 DEF Owners
  <2>3. a # b => Owners(a)' = {}
    BY <1>3, <1>7, <1>11 DEF Owners
  <2>4. \A c \in Block \ {a, b} : c \in DOMAIN memory' <=> c \in DOMAIN memory
    BY <1>9
  <2>5. a # b => a \notin DOMAIN memory'
    BY <1>9
  <2>6. a \in Block => a \notin mine
    BY <1>2, <1>5, AddressesDiffer
  <2>7. b \in DOMAIN memory'
    BY <1>9
  <2>8. ASSUME NEW c \in Block
        PROVE  /\ c \in mine' => c \in DOMAIN memory' /\ Owners(c)' = {}
               /\ c \notin mine' => /\ c \in DOMAIN memory' <=> Owners(c)' # {}
                                    /\ \A p, q \in Owners(c)' : p = q
    <3>1. CASE c = b
      BY <1>2, <1>8, <2>1, <2>7, <3>1
    <3>2. CASE c = a /\ a # b
      BY <1>2, <2>3, <2>5, <2>6, <3>2
    <3>3. CASE c \notin {a, b}
      BY <1>2, <2>2, <2>4, <3>3 DEF IInv, BlocksHaveOneOwner
    <3> QED BY <3>1, <3>2, <3>3
  <2> QED BY <2>8 DEF BlocksHaveOneOwner
<1>16. RetainCountsAreExact' /\ Founded'
  <2>1. \A p \in Live : object'[p].shares = object[p].shares
    BY <1>3, <1>5, <1>11
  <2> QED BY <1>2, <1>3, <2>1 DEF IInv, RetainCountsAreExact, Founded
<1>17. Placed'
  <2>1. \A p \in Live \ {o} : PlaceOf(p, object[p], object', mine)
    BY <1>2, <1>3, <1>6 DEF IInv, Placed, PlaceOf
  <2>2. PlaceOf(o, object'[o], object', mine)
    BY <1>8, <1>11 DEF PlaceOf
  <2> QED BY <1>2, <1>3, <2>1, <2>2 DEF Placed
<1>18. Steady
  BY <1>2, <1>3, <1>13, <1>14 DEF Steady, Value, CharactersAreReadable
<1> QED BY <1>12, <1>14, <1>15, <1>16, <1>17, <1>18 DEF Safe, IInv

LEMMA ReleaseIsSafe == ASSUME IInv, NEW o \in Object, Release(o)
                       PROVE  Safe
<1>1. /\ UNCHANGED <<memory, mine, object>>
      /\ retainers' \in [Object -> SUBSET (Object \cup {Client})]
      /\ \A p \in Object : retainers'[p] \ {Client} = retainers[p] \ {Client}
  BY DEF Release, IInv, TypeOK
<1>2. TypeOK' /\ CharactersAreReadable' /\ BlocksHaveOneOwner' /\ Placed' /\ Founded'
  <2>1. TypeOK'
    BY <1>1 DEF IInv, TypeOK, Live
  <2>2. CharactersAreReadable'
    BY <1>1 DEF IInv, CharactersAreReadable, Readable, Live
  <2>3. BlocksHaveOneOwner'
    <3>1. \A b : Owners(b)' = Owners(b)
      BY <1>1 DEF Owners, Live
    <3> QED BY <1>1, <3>1 DEF IInv, BlocksHaveOneOwner
  <2>4. Placed' /\ Founded'
    BY <1>1 DEF IInv, Placed, Founded, Live
  <2> QED BY <2>1, <2>2, <2>3, <2>4
<1>3. RetainCountsAreExact'
  BY <1>1 DEF IInv, RetainCountsAreExact, Live
<1>4. Steady
  BY <1>1, <1>2 DEF Steady, Value, CharactersAreReadable, Live
<1> QED BY <1>2, <1>3, <1>4 DEF Safe, IInv

LEMMA DeallocIsSafe == ASSUME IInv, NEW o \in Object, Dealloc(o)
                       PROVE  Safe
<1> USE DEF Live
<1> DEFINE a == object[o].at
           gone == {o} \cup Given(a, object[o].frees)
<1>1. /\ o \in Live /\ retainers[o] = {} /\ mine' = mine
      /\ Live' = Live \ {o} /\ \A p \in Live' : object'[p] = object[p]
      /\ retainers' = [p \in Object |-> retainers[p] \ {o}]
      /\ DOMAIN memory' = DOMAIN memory \ gone
      /\ \A x \in DOMAIN memory' : memory'[x] = memory[x]
  BY DEF Dealloc, Remove
<1>2. \A p \in Live : object[p].shares # o
  BY <1>1 DEF IInv, RetainCountsAreExact
<1>3. PlaceOf(o, object[o], object, mine) /\ object[o].frees \in BOOLEAN
  BY <1>1 DEF IInv, Placed, TypeOK, Instance
<1>4. \A p \in Live' : object[p].at \notin gone
  <2>1. SUFFICES ASSUME NEW p \in Live' PROVE object[p].at \notin gone
    OBVIOUS
  <2>2. object[p].at \in DOMAIN memory /\ p # o /\ p \in Live
    BY <1>1 DEF IInv, CharactersAreReadable, Readable
  <2>3. object[p].at = o => a = o
    BY <2>2 DEF IInv, TypeOK
  <2>4. a = o \/ object[o].frees => object[o].shares = None
    BY <1>3 DEF PlaceOf
  <2>5. a = o \/ object[o].frees => object[p].at # a
    BY <1>1, <1>2, <2>2, <2>4, UnsharedIsAlone
  <2> QED BY <2>2, <2>3, <2>5 DEF Given
<1>5. gone \cap Block = IF object[o].frees THEN {a} ELSE {}
  <2>1. o \notin Block
    BY AddressesDiffer
  <2>2. object[o].frees => a \in Block
    BY <1>3 DEF PlaceOf
  <2> QED BY <2>1, <2>2 DEF Given
<1>6. gone \cap Object = {o}
  <2>1. object[o].frees => a \in Block
    BY <1>3 DEF PlaceOf
  <2> QED BY <2>1, AddressesDiffer DEF Given
<1>7. object[o].frees => a \notin mine
  BY <1>3 DEF PlaceOf
<1> HIDE DEF gone
<1>8. TypeOK'
  <2>1. object' \in [Live' -> Instance] /\ Live' \subseteq Object
    BY <1>1 DEF IInv, TypeOK, Dealloc, Remove
  <2>2. retainers' \in [Object -> SUBSET (Object \cup {Client})]
    BY <1>1 DEF IInv, TypeOK
  <2>3. DOMAIN memory' \cap Object = {p \in Live' : object'[p].at = p}
    BY <1>1, <1>6 DEF IInv, TypeOK
  <2> QED BY <1>1, <2>1, <2>2, <2>3 DEF IInv, TypeOK
<1>9. CharactersAreReadable'
  BY <1>1, <1>4 DEF IInv, CharactersAreReadable, Readable
<1>10. BlocksHaveOneOwner'
  <2>1. \A b : Owners(b)' = Owners(b) \ {o}
    BY <1>1 DEF Owners
  <2>2. \A b \in Block : b \in DOMAIN memory'
                            <=> b \in DOMAIN memory /\ ~(object[o].frees /\ b = a)
    BY <1>1, <1>5
  <2>3. \A b : o \in Owners(b) <=> object[o].frees /\ b = a
    BY <1>1 DEF Owners
  <2>4. \A b \in Block : \A p, q \in Owners(b) : p = q
    BY DEF IInv, BlocksHaveOneOwner
  <2>5. \A b \in mine : b \in DOMAIN memory /\ Owners(b) = {}
    BY DEF IInv, TypeOK, BlocksHaveOneOwner
  <2>6. \A b \in Block \ mine : b \in DOMAIN memory <=> Owners(b) # {}
    BY DEF IInv, BlocksHaveOneOwner
  <2> HIDE DEF a
  <2>7. ASSUME NEW b \in Block
        PROVE  /\ b \in mine => b \in DOMAIN memory' /\ Owners(b)' = {}
               /\ b \notin mine => /\ b \in DOMAIN memory' <=> Owners(b)' # {}
                                   /\ \A p, q \in Owners(b)' : p = q
    <3>1. b \in mine => b \in DOMAIN memory' /\ Owners(b)' = {}
      BY <1>7, <2>1, <2>2, <2>5
    <3>2. \A p, q \in Owners(b)' : p = q
      BY <2>1, <2>4
    <3>3. b \notin mine => (b \in DOMAIN memory' <=> Owners(b)' # {})
      BY <2>1, <2>2, <2>3, <2>4, <2>6
    <3> QED BY <3>1, <3>2, <3>3
  <2> QED BY <1>1, <2>7 DEF BlocksHaveOneOwner
<1>11. RetainCountsAreExact'
  BY <1>1, <1>2 DEF IInv, RetainCountsAreExact, TypeOK
<1>12. Placed'
  <2>1. SUFFICES ASSUME NEW p \in Live' PROVE PlaceOf(p, object[p], object', mine)
    BY <1>1 DEF Placed
  <2>2. PlaceOf(p, object[p], object, mine) /\ object[p].shares # o
    BY <1>1, <1>2 DEF IInv, Placed
  <2> QED BY <1>1, <2>2 DEF PlaceOf
<1>13. Founded'
  BY <1>1 DEF IInv, Founded
<1>14. Steady
  <2>1. \A p \in Live' : memory'[object[p].at] = memory[object[p].at]
    BY <1>1, <1>4 DEF IInv, CharactersAreReadable, Readable
  <2> QED BY <1>1, <1>9, <2>1 DEF Steady, Value, CharactersAreReadable
<1> QED BY <1>8, <1>9, <1>10, <1>11, <1>12, <1>13, <1>14 DEF Safe, IInv

-----------------------------------------------------------------------------

LEMMA InitIsSafe == Init => IInv
<1>1. SUFFICES ASSUME Init PROVE IInv
  OBVIOUS
<1>2. DOMAIN memory = {} /\ Live = {} /\ mine = {}
  BY <1>1 DEF Init, Live
<1>3. object = [o \in {} |-> o]
  BY <1>1 DEF Init
<1>4. TypeOK
  BY <1>1, <1>2, <1>3 DEF Init, TypeOK, Live
<1>5. BlocksHaveOneOwner /\ RetainCountsAreExact
  BY <1>1, <1>2 DEF Init, BlocksHaveOneOwner, Owners, RetainCountsAreExact
<1>6. CharactersAreReadable /\ Placed /\ Founded
  BY <1>2 DEF CharactersAreReadable, Placed, Founded
<1> QED BY <1>4, <1>5, <1>6 DEF IInv

LEMMA StutteringIsSafe == ASSUME IInv, UNCHANGED vars
                          PROVE  Safe
<1>1. IInv'
  BY DEF vars, IInv, TypeOK, CharactersAreReadable, Readable, BlocksHaveOneOwner,
         Owners, RetainCountsAreExact, Placed, Founded, Live
<1>2. Steady
  BY DEF vars, Steady, Value, Readable, IInv, CharactersAreReadable, Live
<1> QED BY <1>1, <1>2 DEF Safe

LEMMA NextIsSafe == ASSUME IInv, Next
                    PROVE  Safe
<1>1. CASE \E b \in Block, t \in Text : Malloc(b, t) \/ Write(b, t)
  BY <1>1, MallocIsSafe, WriteIsSafe
<1>2. CASE \E b \in Block : Free(b)
  BY <1>2, FreeIsSafe
<1>3. CASE \E b \in Block, o \in Object :
              \/ InitWithUTF8(b, o) \/ InitWithCharacters(b, o)
              \/ InitWithUTF16Characters(b, o) \/ InitWithUTF16String(b, o)
              \/ InitByCopyAndFree(b, o)
              \/ InitWithBytes(b, o) \/ InitWithBytesAndFree(b, o)
              \/ DataWithBytesNoCopy(b, o)
              \/ InitMutable(b, o) \/ InitMutableNoCopy(b, o)
  BY <1>3, CopyingStringIsSafe, InitWithUTF16StringIsSafe, InitByCopyAndFreeIsSafe,
     DataFromBytesIsSafe, KeptBytesAreSafe
<1>4. CASE \E b \in Block, o \in Object, flag \in BOOLEAN :
              \/ InitWithUTF8NoCopy(b, o, flag)
              \/ InitWithCharactersNoCopy(b, o, flag, Len(memory[b]))
              \/ IsEmpty(b) /\ InitWithUnicodeBytesNoCopy(b, o, flag)
              \/ InitWithBytesNoCopy(b, o, flag)
  BY <1>4, InitWithUTF8NoCopyIsSafe, InitWithCharactersNoCopyIsSafe,
     InitWithUnicodeBytesNoCopyIsSafe, KeptBytesAreSafe
<1>5. CASE \E p, o \in Object :
              \/ ShareUTF8(p, o) \/ ShareUTF32(p, o) \/ InitStringWithData(p, o)
              \/ InitWithData(p, o) \/ InitMutableWithData(p, o)
  BY <1>5, SharingIsSafe, CopyingInstanceIsSafe
<1>6. CASE \E p, o \in Object, r \in Ranges : SubstringWithRange(p, o, r)
  BY <1>6, SubstringIsSafe
<1>7. CASE \E o \in Object, t \in Text \ {<<>>} : Mutate(o, t)
  BY <1>7, MutateIsSafe
<1>8. CASE \E o \in Object : Release(o) \/ Dealloc(o)
  BY <1>8, ReleaseIsSafe, DeallocIsSafe
<1> QED BY <1>1, <1>2, <1>3, <1>4, <1>5, <1>6, <1>7, <1>8 DEF Next

(* IInv is an invariant.                                                   *)
THEOREM Inductive == Spec => []IInv
<1>1. IInv /\ [Next]_vars => IInv'
  BY NextIsSafe, StutteringIsSafe DEF Safe
<1> QED BY <1>1, InitIsSafe, PTL DEF Spec

(* The types are those of the code's variables, and an instance and the    *)
(* memory in it come and go together: -dealloc leaves nothing behind.      *)
THEOREM TypeCorrect == Spec => []TypeOK
<1>1. IInv => TypeOK
  BY DEF IInv
<1> QED BY <1>1, Inductive, PTL

(* In every state, whoever released or freed what, the characters of each  *)
(* instance, its own, the client's or another's, are allocated memory.     *)
THEOREM CharactersReadable == Spec => []CharactersAreReadable
<1>1. IInv => CharactersAreReadable
  BY DEF IInv
<1> QED BY <1>1, Inductive, PTL

(* Whichever initializer copied, kept or freed a block, it is the client's *)
(* to free or one instance's: no block leaks and none is freed twice.      *)
THEOREM OneOwner == Spec => []BlocksHaveOneOwner
<1>1. IInv => BlocksHaveOneOwner
  BY DEF IInv
<1> QED BY <1>1, Inductive, PTL

(* Besides the client, exactly the instances that share with an instance   *)
(* retain it, so that it lives as long as they do and no longer.           *)
THEOREM RetainCountsExact == Spec => []RetainCountsAreExact
<1>1. IInv => RetainCountsAreExact
  BY DEF IInv
<1> QED BY <1>1, Inductive, PTL

(* No write, free, mutation or -dealloc changes the value of an immutable  *)
(* string or data, even if it shares its memory with another.              *)
THEOREM ValuesStay == Spec => ValuesNeverChange
<1>1. IInv /\ [Next]_vars
         => [\A o \in Live : object[o].class # "mutable" /\ o \in Live'
                                => Readable(o)' /\ Value(o)' = Value(o)]_vars
  BY NextIsSafe DEF Safe, Steady
<1> QED BY <1>1, Inductive, PTL DEF Spec, ValuesNeverChange

=============================================================================
