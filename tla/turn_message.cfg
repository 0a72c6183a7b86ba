CONSTANTS
    Rows = 2
    Cols = 3
    MinRunes = 1
    HistoryCap = 2
    Chunks <- TurnChunks
    Readers = {h1}
    Page = 2
    Overlap = 1
    Failures = {"render", "panic", "photo", "markdown", "reader"}
    MaxInputs = 3
SPECIFICATION TurnSpec
INVARIANTS
    MessageOfItsTurn
CHECK_DEADLOCK FALSE
