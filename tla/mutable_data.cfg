\* Data of at most four bytes, whose storage can be in two places.
CONSTANTS
    Byte <- MCByte
    Junk = Junk
    Text <- MCText
    Ranges <- MCRanges
    Lengths = {0, 1, 2, 4}
    Block = {b1, b2}
    NoBlock = NoBlock
    MaxLength = 4
SPECIFICATION Spec
SYMMETRY Addresses
VIEW StateView
INVARIANTS TypeOK ContentIsDefined LentBytesAreValid
PROPERTY PlainSpec
