----------------------------- MODULE PlainString -----------------------------
(***************************************************************************)
(* What NSMutableString promises: one mutable text.  Nothing here knows of *)
(* chunks, capacities, compaction or cached UTF-8.                         *)
(***************************************************************************)
EXTENDS Naturals, Sequences

CONSTANTS Char,     \* the characters texts are made of
          Width,    \* the number of bytes of a character in UTF-8
          Text,     \* the texts clients pass as arguments
          Ranges    \* the NSRanges clients pass as arguments

VARIABLES exists,   \* the string is allocated and not yet deallocated
          text,     \* its characters
          reply     \* what the last method returned

vars == <<exists, text, reply>>

Utf8Length(t) ==
    LET sum[i \in 0..Len(t)] == IF i = 0 THEN 0 ELSE sum[i - 1] + Width[t[i]]
    IN  sum[Len(t)]

(* The part of t that range r selects; r is valid for a text of that size. *)
Part(t, r)     == SubSeq(t, r.location + 1, r.location + r.length)
IsValid(r, n)  == r.location + r.length <= n

Exception == <<"exception">>
Done      == <<"done">>

Init == exists = FALSE /\ text = <<>> /\ reply = Done

Create == /\ ~exists
          /\ exists' = TRUE
          /\ text' \in Seq(Char)
          /\ reply' = Done

Destroy == exists /\ exists' = FALSE /\ text' = <<>> /\ reply' = Done

Mutate(t) == exists /\ text' = t /\ reply' = Done /\ UNCHANGED exists

Answer(r) == exists /\ reply' = r /\ UNCHANGED <<exists, text>>

Extend(s) == Mutate(text \o s)

Set(s) == Mutate(s)

(* Replacing a range of the text, also one that an insertion makes empty.  *)
Before(r) == SubSeq(text, 1, r.location)
After(r)  == SubSeq(text, r.location + r.length + 1, Len(text))

Replace(r, s) == IsValid(r, Len(text)) /\ Mutate(Before(r) \o s \o After(r))

(* A range outside of the text is answered with an exception, except that  *)
(* a range as long as the text is not checked at its end: everything from  *)
(* its location on is replaced.                                            *)
IsUnchecked(r) == r.length = Len(text) /\ r.location <= Len(text)

ReplaceOutside(r, s) == /\ ~IsValid(r, Len(text))
                        /\ IF IsUnchecked(r) THEN Mutate(Before(r) \o s)
                                             ELSE Answer(Exception)

(* A string passed to its own setString: empties itself; as its own        *)
(* replacement it counts as what precedes the range.                       *)
SetItself        == Mutate(<<>>)
ReplaceItself(r) == Replace(r, Before(r)) \/ ReplaceOutside(r, Before(r))

(* No string, and the removal of characters, count as an empty text.       *)
Argument == Text \cup {<<>>}

(* Reading never changes the text.                                         *)
GetPart(r) == Answer(IF IsValid(r, Len(text)) THEN <<"text", Part(text, r)>>
                                              ELSE Exception)
GetCharacter(i) == Answer(IF i < Len(text) THEN <<"char", text[i + 1]>>
                                           ELSE Exception)
GetCopy       == Answer(<<"text", text>>)
GetUtf8       == Answer(<<"utf8", text>>)
GetUtf8Length == Answer(<<"number", Utf8Length(text)>>)

Next == \/ Create
        \/ Destroy
        \/ \E s \in Argument \cup {text} : Extend(s)
        \/ \E s \in Argument : Set(s)
        \/ \E r \in Ranges, s \in Argument : Replace(r, s) \/ ReplaceOutside(r, s)
        \/ SetItself
        \/ \E r \in Ranges : ReplaceItself(r) \/ GetPart(r)
        \/ \E r \in Ranges : GetCharacter(r.location)
        \/ GetCopy
        \/ GetUtf8
        \/ GetUtf8Length

Spec == Init /\ [][Next]_vars

=============================================================================
