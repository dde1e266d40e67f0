--------------------------- MODULE MCShadowString ---------------------------
(* ShadowString for TLC: threads and buffers are interchangeable.          *)
EXTENDS ShadowString, TLC

ThreadsAndBuffers == Permutations(Thread) \cup Permutations(Buffer)

=============================================================================
