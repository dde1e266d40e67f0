\* The same: a double that went through a coder is another one.
CONSTANTS
    One = 4
    Max <- MCMax
    Bits <- MCBits
    Infinity = 8192
    NaN = 20000
    MaxTagged = 20
    TaggedDoubles <- MCTaggedDoubles
    Given <- MCGiven
    None = None
SPECIFICATION Spec
PROPERTY CodedNumbersSurvive
