------------------------------- MODULE Cursor -------------------------------
(***************************************************************************)
(* What a string enumerator promises: a position between the characters of *)
(* a text that does not change while it is enumerated.  Reading moves the  *)
(* position over one character and undoing a read moves it back.           *)
(***************************************************************************)
EXTENDS Integers, Sequences

CONSTANTS Char,    \* the characters
          NoChar,  \* there is no character (0)
          Invalid  \* there was nothing to undo (-1)

VARIABLES open,    \* the enumerator is in use
          text,    \* the characters it enumerates
          index,   \* how many of them are before the position
          reply    \* what the last call answered

vars == <<open, text, index, reply>>

No           == <<"no">>
Got(c)       == <<"yes", c>>
Undone(c, d) == <<"undone", c, d>>
NotUndone    == <<"not undone", Invalid, NoChar>>

CharAt(i) == IF i \in 1..Len(text) THEN text[i] ELSE NoChar

Init == open = FALSE /\ text = <<>> /\ index = 0 /\ reply = No

(* The position is before the first character or after the last one.       *)
Begin == /\ ~open
         /\ open' = TRUE
         /\ text' \in Seq(Char)
         /\ index' \in {0, Len(text')}
         /\ reply' = No

End == /\ open
       /\ open' = FALSE
       /\ text' = <<>>
       /\ index' = 0
       /\ reply' = No

(* A call leaves the text alone.                                           *)
Call(i, r) == /\ open
              /\ index' = i
              /\ reply' = r
              /\ UNCHANGED <<open, text>>

ReadNext == \/ index < Len(text) /\ Call(index + 1, Got(text[index + 1]))
            \/ index = Len(text) /\ Call(index, No)

ReadPrevious == \/ index > 0 /\ Call(index - 1, Got(text[index]))
                \/ index = 0 /\ Call(index, No)

(* The answer: the character given back, which the next read will find     *)
(* again, and the one that was read before it.                             *)
UndoNext == \/ index > 0 /\ Call(index - 1, Undone(text[index], CharAt(index - 1)))
            \/ index = 0 /\ Call(index, NotUndone)

(* The answer: the two characters that were read before the one given back.*)
UndoPrevious ==
    \/ /\ index < Len(text)
       /\ Call(index + 1, Undone(CharAt(index + 2), CharAt(index + 3)))
    \/ index = Len(text) /\ Call(index, NotUndone)

Restart == Call(0, reply)
Finish  == Call(Len(text), reply)

HasCharacters == Call(index, <<"has", index < Len(text)>>)
GetIndex      == Call(index, <<"index", index>>)

Spec == /\ Init
        /\ [][\/ Begin \/ End \/ ReadNext \/ ReadPrevious \/ UndoNext
              \/ UndoPrevious \/ Restart \/ Finish \/ HasCharacters \/ GetIndex]_vars

=============================================================================
