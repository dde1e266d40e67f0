------------------------- MODULE ShadowString_proofs -------------------------
(***************************************************************************)
(* Proofs about ShadowString for any set of threads, any set of buffers    *)
(* and both settings of Shares and ReturnsLocal.                           *)
(*                                                                         *)
(* None of the invariants the runs check is inductive on its own.  The     *)
(* strengthening has four parts, each proved from those before it: where a *)
(* thread is in the code and what that implies (Control), who owns each    *)
(* buffer (Owned), what locals and answers point to (Answered), and who    *)
(* keeps the characters alive (Stored).                                    *)
(***************************************************************************)
EXTENDS ShadowString, TLAPS

Control ==
    /\ \A t \in Thread : pc[t] \in Calling => t \in refs
    /\ \A t \in Thread : pc[t] \in Dying => object = "dealloc"
    /\ \A t, u \in Thread : pc[t] \in Dying /\ pc[u] \in Dying => t = u
    /\ object = "none" => shadow = NoBuffer
    /\ \A t \in Thread : built[t] # NoBuffer <=> pc[t] \in {"cas", "free"}
    /\ \A t \in Thread : pc[t] \in {"free", "return"} => shadow # NoBuffer

ControlInv == TypeOK /\ Control

(* BuffersOwned, said buffer by buffer.                                    *)
Owned ==
    /\ \A b \in Buffer :
          b \in heap <=> \/ \E t \in Thread : built[t] = b
                         \/ b = shadow /\ \A t \in Thread : pc[t] # "deallocate"
    /\ \A t \in Thread : built[t] # NoBuffer => built[t] # shadow
    /\ \A t, u \in Thread : built[t] # NoBuffer /\ built[t] = built[u] => t = u

Answered ==
    /\ \A t \in Thread : local[t] # NoBuffer => local[t] = shadow /\ pc[t] \in Calling
    /\ \A t \in Thread : answer[t] # NotAsked => t \in refs
    /\ \A t \in Thread : answer[t] \in Buffer => answer[t] = shadow
    /\ ~ReturnsLocal => NeverNull

Stored ==
    /\ object = "live" => storageLive
    /\ object = "live" /\ Shares => Self \in ownerRefs
    /\ ~Shares => ownerRefs = {}
    /\ \A t \in Thread : pc[t] \in {"unshadow", "deallocate"} =>
          Self \notin ownerRefs /\ (~Shares => ~storageLive)
    /\ StorageReleased

-----------------------------------------------------------------------------
LEMMA ControlInitially == Init => ControlInv
  BY ValuesDiffer DEF Init, ControlInv, Control, TypeOK, Pointer, Calling, Dying

LEMMA ControlStep == ControlInv /\ [Next]_vars => ControlInv'
<1> SUFFICES ASSUME ControlInv, [Next]_vars PROVE ControlInv'
    OBVIOUS
<1> USE ValuesDiffer DEF ControlInv, Control, TypeOK, Pointer, Calling, Dying,
                         Goto, callVars, objectVars
<1>1. CASE UNCHANGED vars
  BY <1>1 DEF vars
<1>2. ASSUME NEW t \in Thread, NewOwner(t) PROVE ControlInv'
  BY <1>2 DEF NewOwner
<1>3. ASSUME NEW t \in Thread, ReleaseOwner(t) PROVE ControlInv'
  BY <1>3 DEF ReleaseOwner
<1>4. ASSUME NEW t \in Thread, New(t) PROVE ControlInv'
  BY <1>4 DEF New
<1>5. ASSUME NEW t \in Thread, NEW u \in Thread, Retain(t, u) PROVE ControlInv'
  BY <1>5 DEF Retain
<1>6. ASSUME NEW t \in Thread, Release(t) PROVE ControlInv'
  <2>1. TypeOK'
    BY <1>6 DEF Release
  <2>2. Control'
    BY <1>6 DEF Release
  <2> QED BY <2>1, <2>2
<1>7. ASSUME NEW t \in Thread, Call(t) PROVE ControlInv'
  BY <1>7 DEF Call
<1>8. ASSUME NEW t \in Thread, ReadShadow(t) PROVE ControlInv'
  BY <1>8 DEF ReadShadow
<1>9. ASSUME NEW t \in Thread, CheckShadow(t) PROVE ControlInv'
  BY <1>9 DEF CheckShadow
<1>10. ASSUME NEW t \in Thread, Build(t) PROVE ControlInv'
  BY <1>10 DEF Build
<1>11. ASSUME NEW t \in Thread, Publish(t) PROVE ControlInv'
  BY <1>11 DEF Publish
<1>12. ASSUME NEW t \in Thread, LoseRace(t) PROVE ControlInv'
  BY <1>12 DEF LoseRace
<1>13. ASSUME NEW t \in Thread, FreeBuilt(t) PROVE ControlInv'
  BY <1>13 DEF FreeBuilt
<1>14. ASSUME NEW t \in Thread, Return(t) PROVE ControlInv'
  BY <1>14 DEF Return
<1>15. ASSUME NEW t \in Thread, DropStorage(t) PROVE ControlInv'
  BY <1>15 DEF DropStorage
<1>16. ASSUME NEW t \in Thread, FreeShadow(t) PROVE ControlInv'
  BY <1>16 DEF FreeShadow
<1>17. ASSUME NEW t \in Thread, Deallocate(t) PROVE ControlInv'
  BY <1>17 DEF Deallocate
<1> QED
  BY <1>1, <1>2, <1>3, <1>4, <1>5, <1>6, <1>7, <1>8, <1>9, <1>10, <1>11,
     <1>12, <1>13, <1>14, <1>15, <1>16, <1>17
     DEF Next, Client, UTF8String, Dealloc

(* Type correctness, with the rule that only the last release deallocates. *)
THEOREM TypeCorrect == Spec => []TypeOK
<1>1. Init => ControlInv
  BY ControlInitially
<1>2. ControlInv /\ [Next]_vars => ControlInv'
  BY ControlStep
<1>3. ControlInv => TypeOK
  BY DEF ControlInv
<1> QED BY <1>1, <1>2, <1>3, PTL DEF Spec

-----------------------------------------------------------------------------
LEMMA OwnedStep == ControlInv /\ ControlInv' /\ Owned /\ [Next]_vars => Owned'
<1> SUFFICES ASSUME ControlInv, ControlInv', Owned, [Next]_vars PROVE Owned'
    OBVIOUS
<1> USE ValuesDiffer DEF ControlInv, Control, TypeOK, Pointer, Calling, Dying,
                         Goto, callVars, objectVars, Owned
<1>1. CASE UNCHANGED vars
  BY <1>1 DEF vars
<1>2. ASSUME NEW t \in Thread, NewOwner(t) PROVE Owned'
  BY <1>2 DEF NewOwner
<1>3. ASSUME NEW t \in Thread, ReleaseOwner(t) PROVE Owned'
  BY <1>3 DEF ReleaseOwner
<1>4. ASSUME NEW t \in Thread, New(t) PROVE Owned'
  BY <1>4 DEF New
<1>5. ASSUME NEW t \in Thread, NEW u \in Thread, Retain(t, u) PROVE Owned'
  BY <1>5 DEF Retain
<1>6. ASSUME NEW t \in Thread, Release(t) PROVE Owned'
  BY <1>6 DEF Release
<1>7. ASSUME NEW t \in Thread, Call(t) PROVE Owned'
  BY <1>7 DEF Call
<1>8. ASSUME NEW t \in Thread, ReadShadow(t) PROVE Owned'
  BY <1>8 DEF ReadShadow
<1>9. ASSUME NEW t \in Thread, CheckShadow(t) PROVE Owned'
  BY <1>9 DEF CheckShadow
<1>10. ASSUME NEW t \in Thread, Build(t) PROVE Owned'
  BY <1>10 DEF Build
<1>11. ASSUME NEW t \in Thread, Publish(t) PROVE Owned'
  BY <1>11 DEF Publish
<1>12. ASSUME NEW t \in Thread, LoseRace(t) PROVE Owned'
  BY <1>12 DEF LoseRace
<1>13. ASSUME NEW t \in Thread, FreeBuilt(t) PROVE Owned'
  BY <1>13 DEF FreeBuilt
<1>14. ASSUME NEW t \in Thread, Return(t) PROVE Owned'
  BY <1>14 DEF Return
<1>15. ASSUME NEW t \in Thread, DropStorage(t) PROVE Owned'
  BY <1>15 DEF DropStorage
<1>16. ASSUME NEW t \in Thread, FreeShadow(t) PROVE Owned'
  BY <1>16 DEF FreeShadow
<1>17. ASSUME NEW t \in Thread, Deallocate(t) PROVE Owned'
  BY <1>17 DEF Deallocate
<1> QED
  BY <1>1, <1>2, <1>3, <1>4, <1>5, <1>6, <1>7, <1>8, <1>9, <1>10, <1>11,
     <1>12, <1>13, <1>14, <1>15, <1>16, <1>17
     DEF Next, Client, UTF8String, Dealloc

LEMMA AnsweredStep ==
    ControlInv /\ ControlInv' /\ Answered /\ [Next]_vars => Answered'
<1> SUFFICES ASSUME ControlInv, ControlInv', Answered, [Next]_vars PROVE Answered'
    OBVIOUS
<1> USE ValuesDiffer, VariantsAreBoolean
        DEF ControlInv, Control, TypeOK, Pointer, Calling, Dying,
            Goto, callVars, objectVars, Answered, NeverNull
<1>1. CASE UNCHANGED vars
  BY <1>1 DEF vars
<1>2. ASSUME NEW t \in Thread, NewOwner(t) PROVE Answered'
  BY <1>2 DEF NewOwner
<1>3. ASSUME NEW t \in Thread, ReleaseOwner(t) PROVE Answered'
  BY <1>3 DEF ReleaseOwner
<1>4. ASSUME NEW t \in Thread, New(t) PROVE Answered'
  BY <1>4 DEF New
<1>5. ASSUME NEW t \in Thread, NEW u \in Thread, Retain(t, u) PROVE Answered'
  BY <1>5 DEF Retain
<1>6. ASSUME NEW t \in Thread, Release(t) PROVE Answered'
  BY <1>6 DEF Release
<1>7. ASSUME NEW t \in Thread, Call(t) PROVE Answered'
  BY <1>7 DEF Call
<1>8. ASSUME NEW t \in Thread, ReadShadow(t) PROVE Answered'
  BY <1>8 DEF ReadShadow
<1>9. ASSUME NEW t \in Thread, CheckShadow(t) PROVE Answered'
  BY <1>9 DEF CheckShadow
<1>10. ASSUME NEW t \in Thread, Build(t) PROVE Answered'
  BY <1>10 DEF Build
<1>11. ASSUME NEW t \in Thread, Publish(t) PROVE Answered'
  BY <1>11 DEF Publish
<1>12. ASSUME NEW t \in Thread, LoseRace(t) PROVE Answered'
  BY <1>12 DEF LoseRace
<1>13. ASSUME NEW t \in Thread, FreeBuilt(t) PROVE Answered'
  BY <1>13 DEF FreeBuilt
<1>14. ASSUME NEW t \in Thread, Return(t) PROVE Answered'
  BY <1>14 DEF Return
<1>15. ASSUME NEW t \in Thread, DropStorage(t) PROVE Answered'
  BY <1>15 DEF DropStorage
<1>16. ASSUME NEW t \in Thread, FreeShadow(t) PROVE Answered'
  BY <1>16 DEF FreeShadow
<1>17. ASSUME NEW t \in Thread, Deallocate(t) PROVE Answered'
  BY <1>17 DEF Deallocate
<1> QED
  BY <1>1, <1>2, <1>3, <1>4, <1>5, <1>6, <1>7, <1>8, <1>9, <1>10, <1>11,
     <1>12, <1>13, <1>14, <1>15, <1>16, <1>17
     DEF Next, Client, UTF8String, Dealloc

LEMMA StoredStep == ControlInv /\ ControlInv' /\ Stored /\ [Next]_vars => Stored'
<1> SUFFICES ASSUME ControlInv, ControlInv', Stored, [Next]_vars PROVE Stored'
    OBVIOUS
<1> USE ValuesDiffer, VariantsAreBoolean
        DEF ControlInv, Control, TypeOK, Pointer, Calling, Dying,
            Goto, callVars, objectVars, Stored, StorageReleased
<1>1. CASE UNCHANGED vars
  BY <1>1 DEF vars
<1>2. ASSUME NEW t \in Thread, NewOwner(t) PROVE Stored'
  BY <1>2 DEF NewOwner
<1>3. ASSUME NEW t \in Thread, ReleaseOwner(t) PROVE Stored'
  BY <1>3 DEF ReleaseOwner
<1>4. ASSUME NEW t \in Thread, New(t) PROVE Stored'
  BY <1>4 DEF New
<1>5. ASSUME NEW t \in Thread, NEW u \in Thread, Retain(t, u) PROVE Stored'
  BY <1>5 DEF Retain
<1>6. ASSUME NEW t \in Thread, Release(t) PROVE Stored'
  BY <1>6 DEF Release
<1>7. ASSUME NEW t \in Thread, Call(t) PROVE Stored'
  BY <1>7 DEF Call
<1>8. ASSUME NEW t \in Thread, ReadShadow(t) PROVE Stored'
  BY <1>8 DEF ReadShadow
<1>9. ASSUME NEW t \in Thread, CheckShadow(t) PROVE Stored'
  BY <1>9 DEF CheckShadow
<1>10. ASSUME NEW t \in Thread, Build(t) PROVE Stored'
  BY <1>10 DEF Build
<1>11. ASSUME NEW t \in Thread, Publish(t) PROVE Stored'
  BY <1>11 DEF Publish
<1>12. ASSUME NEW t \in Thread, LoseRace(t) PROVE Stored'
  BY <1>12 DEF LoseRace
<1>13. ASSUME NEW t \in Thread, FreeBuilt(t) PROVE Stored'
  BY <1>13 DEF FreeBuilt
<1>14. ASSUME NEW t \in Thread, Return(t) PROVE Stored'
  BY <1>14 DEF Return
<1>15. ASSUME NEW t \in Thread, DropStorage(t) PROVE Stored'
  BY <1>15 DEF DropStorage
<1>16. ASSUME NEW t \in Thread, FreeShadow(t) PROVE Stored'
  BY <1>16 DEF FreeShadow
<1>17. ASSUME NEW t \in Thread, Deallocate(t) PROVE Stored'
  BY <1>17 DEF Deallocate
<1> QED
  BY <1>1, <1>2, <1>3, <1>4, <1>5, <1>6, <1>7, <1>8, <1>9, <1>10, <1>11,
     <1>12, <1>13, <1>14, <1>15, <1>16, <1>17
     DEF Next, Client, UTF8String, Dealloc

-----------------------------------------------------------------------------
IInv == ControlInv /\ Owned /\ Answered /\ Stored

LEMMA Inductive == Spec => []IInv
<1>1. Init => IInv
  <2> SUFFICES ASSUME Init PROVE Owned /\ Answered /\ Stored
      BY ControlInitially DEF IInv
  <2>1. Owned
    BY ValuesDiffer DEF Init, Owned
  <2>2. Answered
    BY ValuesDiffer DEF Init, Answered, NeverNull
  <2>3. Stored
    BY DEF Init, Stored, StorageReleased
  <2> QED BY <2>1, <2>2, <2>3
<1>2. IInv /\ [Next]_vars => IInv'
  BY ControlStep, OwnedStep, AnsweredStep, StoredStep DEF IInv
<1> QED BY <1>1, <1>2, PTL DEF Spec

(* Every live buffer is the published shadow or the unpublished buffer of  *)
(* exactly one thread: no leak, no double free, no foreign free.           *)
THEOREM BuffersAreOwned == Spec => []BuffersOwned
<1>1. IInv => BuffersOwned
  <2> SUFFICES ASSUME IInv PROVE BuffersOwned
      OBVIOUS
  <2> DEFINE dealloc == \E t \in Thread : pc[t] = "deallocate"
             published == IF dealloc THEN {} ELSE {shadow} \ {NoBuffer}
             unpublished == {built[t] : t \in Unpublished}
  <2>1. unpublished \subseteq Buffer /\ published \subseteq Buffer /\ heap \subseteq Buffer
    BY DEF IInv, ControlInv, TypeOK, Pointer, Unpublished
  <2>2. \A b \in Buffer : b \in unpublished <=> \E t \in Thread : built[t] = b
    BY ValuesDiffer DEF Unpublished
  <2>3. \A b \in Buffer :
           b \in published <=> b = shadow /\ \A t \in Thread : pc[t] # "deallocate"
    BY ValuesDiffer
  <2>4. \A b \in Buffer : b \in heap <=> b \in unpublished \/ b \in published
    BY <2>2, <2>3 DEF IInv, Owned
  <2>5. heap = unpublished \cup published
    BY <2>1, <2>4
  <2> QED BY <2>5 DEF BuffersOwned, Unpublished, IInv, Owned
<1> QED BY <1>1, Inductive, PTL

(* While a thread retains the string, the pointer it was answered with is  *)
(* live memory and the same as everybody else's.                           *)
THEOREM AnswersStayValid == Spec => []AnswersValid
<1>1. IInv => AnswersValid
  <2> SUFFICES ASSUME IInv, NEW t \in Thread, answer[t] \in Buffer
               PROVE answer[t] \in heap /\ answer[t] = shadow
      BY DEF AnswersValid
  <2>1. answer[t] = shadow /\ t \in refs
    BY ValuesDiffer DEF IInv, Answered
  <2>2. \A u \in Thread : pc[u] # "deallocate"
    BY <2>1 DEF IInv, ControlInv, Control, TypeOK, Dying
  <2> QED BY <2>1, <2>2 DEF IInv, Owned
<1> QED BY <1>1, Inductive, PTL

(* The variant that returns the ivar never returns NULL.                   *)
THEOREM AsciiNeverNull == ASSUME ~ReturnsLocal PROVE Spec => []NeverNull
<1>1. IInv => NeverNull
  BY DEF IInv, Answered
<1> QED BY <1>1, Inductive, PTL

(* The characters outlive every thread that can read them.                 *)
THEOREM StorageStaysReadable == Spec => []StorageReadable
<1>1. IInv => StorageReadable
  BY DEF IInv, ControlInv, TypeOK, Stored, StorageReadable
<1> QED BY <1>1, Inductive, PTL

(* What -dealloc has to give back is given back.                           *)
THEOREM StorageIsReleased == Spec => []StorageReleased
<1>1. IInv => StorageReleased
  BY DEF IInv, Stored
<1> QED BY <1>1, Inductive, PTL

(* A published shadow is not replaced before the string is deallocated.    *)
THEOREM WrittenOnce == Spec => ShadowIsWrittenOnce
<1>1. IInv /\ [Next]_vars =>
         (object = "live" /\ shadow # NoBuffer => shadow' = shadow)
  <2> SUFFICES ASSUME IInv, Next, object = "live", shadow # NoBuffer
               PROVE shadow' = shadow
      BY DEF vars
  <2>1. PICK t \in Thread : Client(t) \/ UTF8String(t) \/ Dealloc(t)
    BY DEF Next
  <2>2. CASE Client(t)
    BY <2>2 DEF Client, NewOwner, ReleaseOwner, New, Retain, Release, Call
  <2>3. CASE UTF8String(t)
    BY <2>3 DEF UTF8String, ReadShadow, CheckShadow, Build, Publish, LoseRace,
                FreeBuilt, Return
  <2>4. CASE Dealloc(t)
    BY <2>4 DEF IInv, ControlInv, Control, Dying, Dealloc, DropStorage,
                FreeShadow, Deallocate
  <2> QED BY <2>1, <2>2, <2>3, <2>4
<1> QED BY <1>1, Inductive, PTL DEF Spec, ShadowIsWrittenOnce

-----------------------------------------------------------------------------
(* The steps of the code that change what a client can see are exactly the *)
(* steps of the abstract cell; all others stutter.                         *)
LEMMA CellStep ==
    ASSUME ~ReturnsLocal, IInv, [Next]_vars
    PROVE  [Cell!Next]_(Cell!vars)
<1> USE DEF Cell!vars, Cell!Next, callVars, objectVars, Goto
<1>1. CASE UNCHANGED vars
  BY <1>1 DEF vars
<1>2. ASSUME NEW t \in Thread, New(t) PROVE Cell!Create(t)
  BY <1>2 DEF New, Cell!Create, IInv, ControlInv, Control, TypeOK
<1>3. ASSUME NEW t \in Thread, NEW u \in Thread, Retain(t, u) PROVE Cell!Share(t, u)
  BY <1>3 DEF Retain, Cell!Share
<1>4. ASSUME NEW t \in Thread, Release(t) PROVE Cell!Drop(t)
  BY <1>4 DEF Release, Cell!Drop
<1>5. ASSUME NEW t \in Thread, Publish(t)
      PROVE  built[t] \in Buffer /\ Cell!Fill(built[t])
  BY <1>5, ValuesDiffer DEF Publish, Cell!Fill, IInv, ControlInv, Control, TypeOK,
                            Calling, Pointer
<1>6. ASSUME NEW t \in Thread, Return(t) PROVE Cell!Answer(t)
  BY <1>6 DEF Return, Cell!Answer, IInv, ControlInv, Control, Calling
<1>7. ASSUME NEW t \in Thread, Deallocate(t) PROVE Cell!Dispose
  BY <1>7 DEF Deallocate, Cell!Dispose, IInv, ControlInv, Control, TypeOK, Dying
<1>8. ASSUME NEW t \in Thread,
             \/ NewOwner(t) \/ ReleaseOwner(t) \/ Call(t) \/ ReadShadow(t)
             \/ CheckShadow(t) \/ Build(t) \/ LoseRace(t) \/ FreeBuilt(t)
             \/ DropStorage(t) \/ FreeShadow(t)
      PROVE  UNCHANGED Cell!vars
  BY <1>8 DEF NewOwner, ReleaseOwner, Call, ReadShadow, CheckShadow, Build,
              LoseRace, FreeBuilt, DropStorage, FreeShadow
<1> QED
  BY <1>1, <1>2, <1>3, <1>4, <1>5, <1>6, <1>7, <1>8
     DEF Next, Client, UTF8String, Dealloc

(* The ASCII variant implements the abstract cell.                         *)
THEOREM AsciiImplementsCell == ASSUME ~ReturnsLocal PROVE Spec => CellSpec
<1>1. Init => Cell!Init
  BY DEF Init, Cell!Init
<1>2. IInv /\ [Next]_vars => [Cell!Next]_(Cell!vars)
  BY CellStep
<1> QED BY <1>1, <1>2, Inductive, PTL DEF Spec, CellSpec, Cell!Spec

=============================================================================
