--------------------------- MODULE MCMutableString ---------------------------
(* MutableString for TLC.  One character of one byte, one of three.        *)
EXTENDS MutableString, TLC

MCChar == {"a", "e"}
MCWidth == [c \in MCChar |-> IF c = "a" THEN 1 ELSE 3]
MCText == {<<>>, <<"a">>, <<"e", "a">>}

(* Insertions, inner ranges, ranges that end with the text, ranges that    *)
(* leave it, and ranges as long as the text that do not start with it.     *)
MCRanges == {[location |-> r[1], length |-> r[2]] :
                r \in {<<0, 0>>, <<0, 1>>, <<0, 2>>, <<0, 4>>, <<1, 0>>, <<1, 1>>,
                       <<1, 2>>, <<2, 0>>, <<2, 2>>, <<3, 1>>}}

MCCapacities == {0, 24}

(* The reply is the outcome of the last step and not part of the state.    *)
StateView == <<state, storage, length, size, shadow, shadowLen, heap, lent>>

=============================================================================
