----------------------------- MODULE MCOwnership -----------------------------
(* Ownership for TLC: a text for every way an initializer can go.          *)
EXTENDS Ownership, TLC

MCText == {<<>>, <<"a", "b">>, <<"u", "a", "b">>, <<"x">>,
           <<"bom", "b", "a">>}

MCRanges == {[location |-> r[1], length |-> r[2]] :
                r \in {<<0, 0>>, <<0, 2>>, <<0, 3>>, <<1, 1>>, <<1, 2>>}}

Addresses == Permutations(Object) \cup Permutations(Block)

=============================================================================
