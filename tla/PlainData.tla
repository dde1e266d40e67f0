------------------------------ MODULE PlainData ------------------------------
(***************************************************************************)
(* What NSMutableData promises: one mutable row of bytes.  Nothing here    *)
(* knows of storage, capacities, addresses or the order of the moves.      *)
(***************************************************************************)
EXTENDS Naturals, Sequences

CONSTANTS Byte,     \* the values of a byte, 0 among them
          Junk,     \* a byte nobody wrote
          Text,     \* the bytes clients pass as arguments
          Ranges,   \* the NSRanges they pass: [location, length]
          Lengths   \* the lengths they ask for

VARIABLES exists,   \* the data is allocated and not yet deallocated
          bytes,    \* its bytes
          reply     \* what the last method returned

vars == <<exists, bytes, reply>>

Exception == <<"exception">>
Done      == <<"done">>

IsValid(r, n) == r.location + r.length <= n
Part(b, r)    == SubSeq(b, r.location + 1, r.location + r.length)
Filled(n, v)  == [i \in 1..n |-> v]

(* The bytes before the first zero, as strlen counts them.                 *)
CString(t) == SubSeq(t, 1, CHOOSE n \in 0..Len(t) :
                              /\ \A i \in 1..n : t[i] # 0
                              /\ n < Len(t) => t[n + 1] = 0)

Init == exists = FALSE /\ bytes = <<>> /\ reply = Done

Create(b) == ~exists /\ exists' = TRUE /\ bytes' = b /\ reply' = Done

CreateThrows == ~exists /\ reply' = Exception /\ UNCHANGED <<exists, bytes>>

Destroy == exists /\ exists' = FALSE /\ bytes' = <<>> /\ reply' = Done

Mutate(b) == exists /\ bytes' = b /\ reply' = Done /\ UNCHANGED exists

Answer(r) == exists /\ reply' = r /\ UNCHANGED <<exists, bytes>>

(* Bytes are added at the end; they may be a part of the data itself.      *)
Extend(t) == Mutate(bytes \o t)

(* The length is set: what is kept does not change, what is new is zero,   *)
(* or anything where the caller waived that.                               *)
Resize(n, v) == IF n <= Len(bytes) THEN Mutate(SubSeq(bytes, 1, n))
                                   ELSE Extend(Filled(n - Len(bytes), v))

(* A range is replaced by other bytes, not necessarily as many.            *)
Replacing(r, t) == SubSeq(bytes, 1, r.location) \o t
                   \o SubSeq(bytes, r.location + r.length + 1, Len(bytes))

Replace(r, t) == IF IsValid(r, Len(bytes)) THEN Mutate(Replacing(r, t))
                                           ELSE Answer(Exception)

(* A part of the data may replace another part that is not shorter.  When  *)
(* the data has to grow for it, what ends up in the range is anything.     *)
ReplaceWithPart(r, q) ==
    /\ IsValid(q, Len(bytes))
    /\ IF q.length <= r.length \/ ~IsValid(r, Len(bytes))
       THEN Replace(r, Part(bytes, q))
       ELSE \E t \in [1..q.length -> Byte \cup {Junk}] : Mutate(Replacing(r, t))

(* Nothing that only reads changes the data.  Writable memory is there for *)
(* every byte of it.                                                       *)
GetPart(r) == Answer(IF IsValid(r, Len(bytes)) THEN <<"data", Part(bytes, r)>>
                                               ELSE Exception)
GetBytes  == Answer(<<"data", bytes>>) \/ (bytes = <<>> /\ Answer(<<"null">>))
GetMemory == Answer(<<"memory">>) \/ (bytes = <<>> /\ Answer(<<"null">>))

Next == \/ \E t \in Text : Create(t) \/ Create(CString(t))
        \/ \E n \in Lengths : Create(Filled(n, 0)) \/ Resize(n, 0) \/ Resize(n, Junk)
        \/ \E n \in Lengths : Extend(Filled(n, 0))
        \/ Create(<<>>)
        \/ CreateThrows
        \/ Destroy
        \/ \E t \in Text : Extend(t) \/ Extend(CString(t)) \/ Mutate(t)
        \/ \E r \in Ranges : IsValid(r, Len(bytes)) /\ Extend(Part(bytes, r))
        \/ \E r \in Ranges, t \in Text : Replace(r, t)
        \/ \E r \in Ranges : Replace(r, Filled(r.length, 0)) \/ GetPart(r)
        \/ \E r, q \in Ranges : ReplaceWithPart(r, q)
        \/ Mutate(bytes)
        \/ GetBytes
        \/ GetMemory

Spec == Init /\ [][Next]_vars

=============================================================================
