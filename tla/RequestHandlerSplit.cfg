SPECIFICATION FairSpec
CONSTANTS
    MaxLineLength = 4
    ChunkSize = 1
    ReplySize = 1
    Lines <- SplitLines
    FileSizes = {0, 1}
    MTimes = {1}
    DefaultHostname = FALSE
    FilesChange = TRUE
    MaxPipeline = 3
CHECK_DEADLOCK FALSE
INVARIANTS ModeMatchesState NoLostWakeup ReadBufferBounded
PROPERTIES FloodRejectsOnlyLongLines CutHeaderRefused CallbackReturns ReplyEnds PeerGoneHandlerGone TerminateDeletes
