\* Texts of up to four characters; pointers hold one character of seven bit
\* or two of five, one byte counts to two, and two characters are hashed and
\* compared at a time.
CONSTANTS
    Char5 <- MCChar5
    Char5Max = 2
    Char7Max = 1
    TinyMax = 3
    Window = 2
    Chunk = 2
    Texts <- MCTexts
    Rooms = {1, 2, 3, 5, 6, 9}
SPECIFICATION Spec
INVARIANTS TypeOK ComparisonsAreExact EqualStringsHashAlike RoundTrips ExportRefusesLoss LengthsAgree
