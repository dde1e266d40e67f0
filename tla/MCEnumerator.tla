---------------------------- MODULE MCEnumerator ----------------------------
(* Enumerator for TLC.                                                     *)
EXTENDS Enumerator

MCString == {[size |-> s[1], text |-> s[2]] :
                s \in {<<0, <<>> >>, <<1, <<"a">> >>, <<2, <<"b", "a">> >>}}

MCAddress == {40}

=============================================================================
