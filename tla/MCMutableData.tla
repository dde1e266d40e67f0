---------------------------- MODULE MCMutableData ----------------------------
EXTENDS MutableData, TLC

MCByte   == {0, 1, 2}
MCText   == {<<>>, <<1>>, <<1, 2>>, <<1, 0, 2>>}
MCRanges == [location : 0..3, length : 0..3]

StateView == <<live, content, block, capacity, lent, undefined>>
Addresses == Permutations(Block)

=============================================================================
