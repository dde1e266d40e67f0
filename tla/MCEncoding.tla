----------------------------- MODULE MCEncoding -----------------------------
(* Encoding for TLC: characters on both sides of every limit of a format.  *)
EXTENDS Encoding

A      == 97        \* has a code of five bit
Z      == 122       \* ASCII without one
Eacute == 233       \* ISO Latin 1, two bytes in UTF-8
Arrow  == 8594      \* 15 bit, three bytes
Hangul == 54620     \* 16 bit, so it is stored in UTF-32
Clef   == 119070    \* a surrogate pair in UTF-16, four bytes in UTF-8

MCChar5 == {A}
Chars   == {A, Z, Eacute, Arrow, Hangul, Clef, Mark}

MCTexts == {<<>>} \cup {<<c>> : c \in Chars} \cup {<<c, d>> : c, d \in Chars}
           \cup {<<b, c, d>> : b, c, d \in {A, Z, Arrow}}
           \cup {<<Mark, Mark, A>>, <<A, Mark, Clef>>, <<Hangul, A, Eacute>>,
                 <<A, A, A, A>>, <<Z, A, A, A>>}

=============================================================================
