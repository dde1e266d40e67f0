\* The UTF-16 and UTF-32 variants return the local `shadow`.
CONSTANTS
    Thread = {t1, t2}
    Buffer = {b1, b2, b3}
    NoBuffer = NoBuffer
    NotAsked = NotAsked
    Self = Self
    Shares = FALSE
    ReturnsLocal = TRUE
SPECIFICATION Spec
INVARIANT NeverNull
