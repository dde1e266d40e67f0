------------------------------ MODULE LazyCell ------------------------------
(***************************************************************************)
(* What -UTF8String of an immutable string promises, without saying how: a *)
(* cell owned by the threads that retain the string.  The cell is filled   *)
(* at most once while somebody owns it, everybody who asks is answered     *)
(* with the one buffer in it, and it is emptied only when nobody owns it.  *)
(***************************************************************************)
CONSTANTS Thread,    \* the threads that may retain the string
          Buffer,    \* the buffers the allocator can hand out
          NoBuffer,  \* the null pointer
          NotAsked   \* the thread has no answer to rely on

VARIABLES cell,      \* the buffer every owner is answered with
          holders,   \* the threads that retain the string
          answer     \* the pointer a thread got and still relies on

vars == <<cell, holders, answer>>

Init == /\ cell = NoBuffer
        /\ holders = {}
        /\ answer = [t \in Thread |-> NotAsked]

(* A new string has one owner and an empty cell. *)
Create(t) == /\ holders = {}
             /\ cell = NoBuffer
             /\ holders' = {t}
             /\ UNCHANGED <<cell, answer>>

(* An owner passes the string to another thread. *)
Share(t, u) == /\ t \in holders
               /\ u \notin holders
               /\ holders' = holders \cup {u}
               /\ UNCHANGED <<cell, answer>>

(* The cell is filled once, on behalf of some owner. *)
Fill(b) == /\ holders # {}
           /\ cell = NoBuffer
           /\ cell' = b
           /\ UNCHANGED <<holders, answer>>

(* An owner is answered with what is in the cell, never with null. *)
Answer(t) == /\ t \in holders
             /\ cell # NoBuffer
             /\ answer' = [answer EXCEPT ![t] = cell]
             /\ UNCHANGED <<cell, holders>>

(* A thread that gives up its ownership gives up its answer with it. *)
Drop(t) == /\ t \in holders
           /\ holders' = holders \ {t}
           /\ answer' = [answer EXCEPT ![t] = NotAsked]
           /\ UNCHANGED cell

(* The cell is emptied when the string is gone. *)
Dispose == /\ holders = {}
           /\ cell' = NoBuffer
           /\ UNCHANGED <<holders, answer>>

Next == \/ \E t \in Thread : Create(t) \/ Answer(t) \/ Drop(t)
        \/ \E t, u \in Thread : Share(t, u)
        \/ \E b \in Buffer : Fill(b)
        \/ Dispose

Spec == Init /\ [][Next]_vars

=============================================================================
