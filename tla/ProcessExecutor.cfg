\* Up to two bytes, which differ, on each stream, pipes of two, reads of one, failing calls and reads; no timeout, one, and none left.
SPECIFICATION ExecuteSpec
CONSTANTS
    Bytes = {"a", "b"}
    Nul = "nul"
    Texts <- DistinctBytes
    PipeCap = 2
    Background = TRUE
    Chunk = 1
    Timeouts = {0, 2}
    Second = 2
    MaxTime = 3
    MayFail = TRUE
CHECK_DEADLOCK FALSE
INVARIANTS OutputInv ResultInv
PROPERTIES NeverBlocksChild ReturnsAfterChild TimeoutEndsReading
