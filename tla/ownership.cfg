\* Three instances, so that one shares with one that shares, and two blocks.
CONSTANTS
    Object = {o1, o2, o3}
    Block = {b1, b2}
    None = None
    Client = Client
    Text <- MCText
    Ranges <- MCRanges
    Ascii = {"a", "b"}
    Short = {"u"}
    Long = {"L"}
    Bom = "bom"
    Broken = "x"
    Junk = "junk"
    Tagged = 1
    Large = 3
SPECIFICATION Spec
SYMMETRY Addresses
INVARIANTS TypeOK CharactersAreReadable BlocksHaveOneOwner RetainCountsAreExact
PROPERTY ValuesNeverChange
