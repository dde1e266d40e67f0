CONSTANTS
    Char = {"a", "b"}
    NoChar = NoChar
    Invalid = Invalid
    Junk = Junk
    String <- MCString
    Object = {o1, o2, o3}
    Own = Own
    Address <- MCAddress
    MaxTagged = 2
    MaxCount = 2
    MaxLength = 4
SPECIFICATION Spec
INVARIANTS TypeOK SourceIsAlive
PROPERTIES CursorSpec LoopsEnd
