---------------------------- MODULE ShadowString ----------------------------
(***************************************************************************)
(* The lazily built UTF-8 "shadow" of the immutable string classes that do *)
(* not store zero-terminated UTF-8: _MulleObjCReferencingASCIIString (with *)
(* its subclasses Allocator and Shared), _MulleObjCUTF16ShadowingString    *)
(* and _MulleObjCUTF32ShadowingString.  Several threads call -UTF8String   *)
(* on one string while they retain and release it; the last release runs   *)
(* -dealloc.                                                               *)
(*                                                                         *)
(* Every access to the _shadow ivar is a step of its own: the atomic read, *)
(* the second, plain read the `if` makes, the compare-and-swap, and the    *)
(* plain read of the ASCII variant's return statement.                     *)
(***************************************************************************)
EXTENDS FiniteSets

CONSTANTS Thread,        \* the threads that use the string
          Buffer,        \* the addresses malloc can return for a shadow
          NoBuffer,      \* NULL
          NotAsked,      \* a thread that holds no result of -UTF8String
          Self,          \* the string, as an owner of its sharing object
          Shares,        \* TRUE: the Shared classes, FALSE: the Allocator ones
          ReturnsLocal   \* TRUE: the UTF-16 and UTF-32 classes return the
                         \* local `shadow`, FALSE: ASCII returns the ivar

ASSUME ValuesDiffer == /\ NoBuffer \notin Buffer
                       /\ NotAsked \notin Buffer
                       /\ NotAsked # NoBuffer
                       /\ Self \notin Thread

ASSUME VariantsAreBoolean == Shares \in BOOLEAN /\ ReturnsLocal \in BOOLEAN

VARIABLES object,       \* "none", "live", or "dealloc" while -dealloc runs
          refs,         \* the threads that retain the string
          ownerRefs,    \* who retains the sharing object (Shares only)
          storageLive,  \* the characters _storage points to are not freed
          shadow,       \* the ivar _shadow
          heap,         \* the shadow buffers malloc'ed and not yet freed
          pc,           \* where a thread is in -UTF8String or -dealloc
          local,        \* its local variable `shadow`
          built,        \* its local variable `s`
          answer        \* the pointer -UTF8String last returned to it

vars == <<object, refs, ownerRefs, storageLive, shadow, heap, pc, local,
          built, answer>>
callVars   == <<local, built>>
objectVars == <<object, refs, ownerRefs, storageLive>>

Calling  == {"read", "check", "build", "cas", "free", "return"}
Dying    == {"drop", "unshadow", "deallocate"}
Pointer  == Buffer \cup {NoBuffer}

Init == /\ object = "none"
        /\ refs = {}
        /\ ownerRefs = {}
        /\ storageLive = FALSE
        /\ shadow = NoBuffer
        /\ heap = {}
        /\ pc = [t \in Thread |-> "idle"]
        /\ local = [t \in Thread |-> NoBuffer]
        /\ built = [t \in Thread |-> NoBuffer]
        /\ answer = [t \in Thread |-> NotAsked]

Goto(t, l) == pc' = [pc EXCEPT ![t] = l]

-----------------------------------------------------------------------------
(* The string's life.                                                      *)

(* Some thread makes the object whose characters will be shared.           *)
NewOwner(t) == /\ Shares
               /\ pc[t] = "idle"
               /\ object = "none"
               /\ ownerRefs = {}
               /\ ownerRefs' = {t}
               /\ storageLive' = TRUE
               /\ UNCHANGED <<object, refs, shadow, heap, pc, callVars, answer>>

(* It may let go of it at any time, also while the string still shares.    *)
ReleaseOwner(t) == /\ pc[t] = "idle"
                   /\ t \in ownerRefs
                   /\ ownerRefs' = ownerRefs \ {t}
                   /\ storageLive' = (ownerRefs' # {})
                   /\ UNCHANGED <<object, refs, shadow, heap, pc, callVars, answer>>

\* Slip: the string forgets to retain the object it shares with.
NewUnretained(t) == /\ pc[t] = "idle"
                    /\ object = "none"
                    /\ Shares => t \in ownerRefs
                    /\ object' = "live"
                    /\ refs' = {t}
                    /\ storageLive' = TRUE
                    /\ shadow' = NoBuffer
                    /\ UNCHANGED <<ownerRefs, heap, pc, callVars, answer>>

(* newWith...NoCopy:length:sharingObject: retains the owner of the         *)
(* characters; the allocator: variants take over malloc'ed characters.     *)
(* NSAllocateObject zeroes _shadow.                                        *)
New(t) == /\ pc[t] = "idle"
          /\ object = "none"
          /\ IF Shares THEN /\ t \in ownerRefs
                            /\ ownerRefs' = ownerRefs \cup {Self}
                       ELSE UNCHANGED ownerRefs
          /\ object' = "live"
          /\ refs' = {t}
          /\ storageLive' = TRUE
          /\ shadow' = NoBuffer
          /\ UNCHANGED <<heap, pc, callVars, answer>>

Retain(t, u) == /\ t \in refs
                /\ pc[t] = "idle"
                /\ u \notin refs
                /\ pc[u] = "idle"
                /\ refs' = refs \cup {u}
                /\ UNCHANGED <<object, ownerRefs, storageLive, shadow, heap, pc,
                               callVars, answer>>

\* Slip: the last release does not deallocate.
ReleaseOnly(t) == /\ t \in refs
                  /\ pc[t] = "idle"
                  /\ refs' = refs \ {t}
                  /\ answer' = [answer EXCEPT ![t] = NotAsked]
                  /\ UNCHANGED <<object, pc, ownerRefs, storageLive, shadow, heap, callVars>>

(* The release that drops the last reference runs -dealloc in its thread.  *)
Release(t) == /\ t \in refs
              /\ pc[t] = "idle"
              /\ refs' = refs \ {t}
              /\ answer' = [answer EXCEPT ![t] = NotAsked]
              /\ IF refs' = {} THEN object' = "dealloc" /\ Goto(t, "drop")
                               ELSE UNCHANGED <<object, pc>>
              /\ UNCHANGED <<ownerRefs, storageLive, shadow, heap, callVars>>

\* Slip: -dealloc calls super and leaves the characters alone.
DropNothing(t) == /\ pc[t] = "drop"
                  /\ Goto(t, "unshadow")
                  /\ UNCHANGED <<objectVars, shadow, heap, callVars, answer>>

(* -dealloc of the subclass: release the sharing object, or free _storage. *)
DropStorage(t) == /\ pc[t] = "drop"
                  /\ ownerRefs' = ownerRefs \ {Self}
                  /\ storageLive' = (ownerRefs' # {})
                  /\ Goto(t, "unshadow")
                  /\ UNCHANGED <<object, refs, shadow, heap, callVars, answer>>

\* Slip: -dealloc forgets the shadow.
KeepShadow(t) == /\ pc[t] = "unshadow"
                 /\ Goto(t, "deallocate")
                 /\ UNCHANGED <<objectVars, shadow, heap, callVars, answer>>

(* [super dealloc] frees the shadow if there is one ...                    *)
FreeShadow(t) == /\ pc[t] = "unshadow"
                 /\ heap' = heap \ {shadow}
                 /\ Goto(t, "deallocate")
                 /\ UNCHANGED <<objectVars, shadow, callVars, answer>>

(* ... and NSDeallocateObject gives the instance back, ivars and all.      *)
Deallocate(t) == /\ pc[t] = "deallocate"
                 /\ object' = "none"
                 /\ shadow' = NoBuffer
                 /\ Goto(t, "idle")
                 /\ UNCHANGED <<refs, ownerRefs, storageLive, heap, callVars, answer>>

-----------------------------------------------------------------------------
(* -UTF8String, one step per access to memory other threads can see.       *)

Call(t) == /\ pc[t] = "idle"
           /\ t \in refs
           /\ Goto(t, "read")
           /\ UNCHANGED <<objectVars, shadow, heap, callVars, answer>>

ReadShadow(t) == /\ pc[t] = "read"
                 /\ local' = [local EXCEPT ![t] = shadow]
                 /\ Goto(t, "check")
                 /\ UNCHANGED <<objectVars, shadow, heap, built, answer>>

\* Slip: the test is inverted.
CheckInverted(t) == /\ pc[t] = "check"
                    /\ Goto(t, IF shadow = NoBuffer THEN "return" ELSE "build")
                    /\ UNCHANGED <<objectVars, shadow, heap, callVars, answer>>

(* `if( ! _shadow)` reads the ivar again and not the local.                *)
CheckShadow(t) == /\ pc[t] = "check"
                  /\ Goto(t, IF shadow = NoBuffer THEN "build" ELSE "return")
                  /\ UNCHANGED <<objectVars, shadow, heap, callVars, answer>>

(* Converts _storage into a fresh zero-terminated buffer.                  *)
Build(t) == /\ pc[t] = "build"
            /\ \E b \in Buffer \ heap :
                  /\ heap' = heap \cup {b}
                  /\ built' = [built EXCEPT ![t] = b]
            /\ Goto(t, "cas")
            /\ UNCHANGED <<objectVars, shadow, local, answer>>

\* Slip: a plain store instead of the compare-and-swap.
PublishBlindly(t) == /\ pc[t] = "cas"
                     /\ shadow' = built[t]
                     /\ local' = [local EXCEPT ![t] = built[t]]
                     /\ built' = [built EXCEPT ![t] = NoBuffer]
                     /\ Goto(t, "return")
                     /\ UNCHANGED <<objectVars, heap, answer>>

(* __mulle_atomic_pointer_cas returns the old value, NULL if it swapped.   *)
Publish(t) == /\ pc[t] = "cas"
              /\ shadow = NoBuffer
              /\ shadow' = built[t]
              /\ local' = [local EXCEPT ![t] = built[t]]
              /\ built' = [built EXCEPT ![t] = NoBuffer]
              /\ Goto(t, "return")
              /\ UNCHANGED <<objectVars, heap, answer>>

\* Slip: a compare-and-swap loop that expects NULL for ever.
RetrySwap(t) == /\ pc[t] = "cas"
                /\ shadow # NoBuffer
                /\ UNCHANGED vars

LoseRace(t) == /\ pc[t] = "cas"
               /\ shadow # NoBuffer
               /\ local' = [local EXCEPT ![t] = shadow]
               /\ Goto(t, "free")
               /\ UNCHANGED <<objectVars, shadow, heap, built, answer>>

\* Slips: the loser frees nothing, or it frees the winner's buffer.
KeepBuilt(t) == /\ pc[t] = "free"
                /\ built' = [built EXCEPT ![t] = NoBuffer]
                /\ Goto(t, "return")
                /\ UNCHANGED <<objectVars, shadow, heap, local, answer>>

FreePublished(t) == /\ pc[t] = "free"
                    /\ heap' = heap \ {local[t]}
                    /\ built' = [built EXCEPT ![t] = NoBuffer]
                    /\ Goto(t, "return")
                    /\ UNCHANGED <<objectVars, shadow, local, answer>>

(* The loser frees the buffer it built itself.                             *)
FreeBuilt(t) == /\ pc[t] = "free"
                /\ heap' = heap \ {built[t]}
                /\ built' = [built EXCEPT ![t] = NoBuffer]
                /\ Goto(t, "return")
                /\ UNCHANGED <<objectVars, shadow, local, answer>>

Return(t) == /\ pc[t] = "return"
             /\ answer' = [answer EXCEPT ![t] = IF ReturnsLocal THEN local[t]
                                                                ELSE shadow]
             /\ local' = [local EXCEPT ![t] = NoBuffer]
             /\ Goto(t, "idle")
             /\ UNCHANGED <<objectVars, shadow, heap, built>>

UTF8String(t) == \/ ReadShadow(t) \/ CheckShadow(t) \/ Build(t)
                 \/ Publish(t) \/ LoseRace(t) \/ FreeBuilt(t) \/ Return(t)

Dealloc(t) == DropStorage(t) \/ FreeShadow(t) \/ Deallocate(t)

Client(t) == \/ NewOwner(t) \/ ReleaseOwner(t) \/ New(t)
             \/ \E u \in Thread : Retain(t, u)
             \/ Release(t) \/ Call(t)

Next == \E t \in Thread : Client(t) \/ UTF8String(t) \/ Dealloc(t)

Spec == Init /\ [][Next]_vars

(* A thread inside a method keeps running: there is no lock or loop in it. *)
(* Nothing forces a client to call, retain or release.                     *)
Fairness == \A t \in Thread : WF_vars(UTF8String(t)) /\ WF_vars(Dealloc(t))

FairSpec == Spec /\ Fairness

-----------------------------------------------------------------------------
(* The variables have their types, and the string is live exactly while a  *)
(* thread retains it: only the last -release starts -dealloc.              *)
TypeOK == /\ object \in {"none", "live", "dealloc"}
          /\ refs \subseteq Thread
          /\ ownerRefs \subseteq Thread \cup {Self}
          /\ storageLive \in BOOLEAN
          /\ shadow \in Pointer
          /\ heap \subseteq Buffer
          /\ pc \in [Thread -> {"idle"} \cup Calling \cup Dying]
          /\ local \in [Thread -> Pointer]
          /\ built \in [Thread -> Pointer]
          /\ answer \in [Thread -> Pointer \cup {NotAsked}]
          /\ object = "live" <=> refs # {}

(* The buffers of -UTF8String have one owner each: a malloc'ed buffer is   *)
(* the published shadow or the unpublished one of exactly one thread, and  *)
(* those are malloc'ed.  So the loser of the race frees its own buffer     *)
(* only, nothing is freed twice, and once the string is deallocated        *)
(* nothing is left behind.                                                 *)
Unpublished == {t \in Thread : built[t] # NoBuffer}

BuffersOwned ==
    /\ heap = {built[t] : t \in Unpublished}
                 \cup (IF \E t \in Thread : pc[t] = "deallocate" THEN {}
                                                   ELSE {shadow} \ {NoBuffer})
    /\ \A t \in Unpublished : built[t] # shadow
    /\ \A t, u \in Unpublished : built[t] = built[u] => t = u

(* A pointer -UTF8String returned stays valid for as long as the thread    *)
(* retains the string, and it is the same pointer for every thread (NULL   *)
(* is what the UTF-16 and UTF-32 variants can return, see NeverNull).      *)
AnswersValid ==
    \A t \in Thread : answer[t] \in Buffer => /\ answer[t] \in heap
                                              /\ answer[t] = shadow

(* -UTF8String never returns NULL: the string is not empty and its         *)
(* conversion cannot fail.                                                 *)
NeverNull == \A t \in Thread : answer[t] # NoBuffer

(* The characters are there whenever a thread can read them, also when the *)
(* last thread that knew their owner has released it.                      *)
StorageReadable == refs # {} => storageLive

(* What was taken over or retained is given back: no string, no ownership. *)
StorageReleased == /\ object = "none" => Self \notin ownerRefs
                   /\ ~Shares /\ object = "none" => ~storageLive

(* A published shadow is never replaced while the string is live.          *)
ShadowIsWrittenOnce ==
    [][object = "live" /\ shadow # NoBuffer => shadow' = shadow]_vars

(* A call of -UTF8String returns, whatever the other threads do.           *)
CallsReturn == \A t \in Thread : pc[t] \in Calling ~> pc[t] = "idle"

(* Once the last reference is gone the memory of the string is given back. *)
DeadStringsAreFreed ==
    object = "dealloc" ~> heap = {} /\ object = "none" /\ (Shares \/ ~storageLive)

(* The abstract cell that the ASCII variant implements.                    *)
Cell == INSTANCE LazyCell WITH cell <- shadow, holders <- refs
CellSpec == Cell!Spec

=============================================================================
