\* As strings.cfg: an export to UTF-8 with a byte order mark.
CONSTANTS
    Char5 <- MCChar5
    Char5Max = 2
    Char7Max = 1
    TinyMax = 3
    Window = 2
    Chunk = 2
    Texts <- MCTexts
    Rooms = {1, 2, 3, 5, 6, 9}
SPECIFICATION Spec
INVARIANT MarksAreRead
