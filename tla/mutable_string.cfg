\* Up to five chunks and four characters: an append grows the array of a
\* string made with one or two, a rebuild shrinks one made with capacity 24.
CONSTANTS
    Char <- MCChar
    Width <- MCWidth
    Text <- MCText
    Ranges <- MCRanges
    Capacities <- MCCapacities
    Buffer = {b1, b2}
    NoBuffer = NoBuffer
    Nil = Nil
    Self = Self
    CompactAt = 3
    MaxLength = 4
    MaxCount = 5
SPECIFICATION Spec
VIEW StateView
INVARIANTS TypeOK ArrayHasRoom LengthIsTotal ShadowIsFresh ShadowIsOwned
PROPERTIES PlainSpec
