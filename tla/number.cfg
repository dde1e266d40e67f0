\* All integers of the scaled types, and reals about every limit.
CONSTANTS
    One = 4
    Max <- MCMax
    Bits <- MCBits
    Infinity = 8192
    NaN = 20000
    MaxTagged = 20
    TaggedDoubles <- MCTaggedDoubles
    Given <- MCGiven
    None = None
SPECIFICATION Spec
INVARIANTS TypeOK RoundTrips ComparisonIsOrder EqualityIsExact EqualNumbersHashAlike
