CONSTANTS
    Rows = 2
    Cols = 3
    MinRunes = 1
    HistoryCap = 2
    Chunks <- MCChunks
    Readers = {h1}
    Page = 2
    Overlap = 1
    Failures = {"render", "panic", "photo", "markdown", "reader"}
    MaxInputs = 3
SPECIFICATION Spec
INVARIANTS
    NoGapInView
CHECK_DEADLOCK FALSE
