\* Two threads and an Allocator string of the UTF-16 or UTF-32 kind, with
\* fairness (so without symmetry).
CONSTANTS
    Thread = {t1, t2}
    Buffer = {b1, b2, b3}
    NoBuffer = NoBuffer
    NotAsked = NotAsked
    Self = Self
    Shares = FALSE
    ReturnsLocal = TRUE
SPECIFICATION FairSpec
PROPERTIES CallsReturn DeadStringsAreFreed
