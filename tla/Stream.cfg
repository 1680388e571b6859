SPECIFICATION StreamSpec
CONSTANTS
    LastTool = 1
    Chunks <- MCChunks
    MaxChunks = 5
INVARIANTS
    IndicesAreItems
    ChunksDoNotMatter
    ArgumentsAreStreamed
PROPERTY
    CompletedIsWhole
CHECK_DEADLOCK FALSE
