\* Three threads share one _MulleObjCSharedASCIIString.  Four buffers: one
\* per thread in a race, and one left for the published shadow.
CONSTANTS
    Thread = {t1, t2, t3}
    Buffer = {b1, b2, b3, b4}
    NoBuffer = NoBuffer
    NotAsked = NotAsked
    Self = Self
    Shares = TRUE
    ReturnsLocal = FALSE
SYMMETRY ThreadsAndBuffers
SPECIFICATION Spec
INVARIANTS TypeOK BuffersOwned AnswersValid NeverNull StorageReadable StorageReleased
PROPERTIES ShadowIsWrittenOnce CellSpec
