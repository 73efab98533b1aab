SPECIFICATION Spec
CONSTANTS
    MaxLineLength = 4
    ChunkSize = 1
    ReplySize = 1
    Lines <- PipelineLines
    FileSizes = {1}
    MTimes = {1}
    DefaultHostname = FALSE
    FilesChange = FALSE
    MaxPipeline = 2
CHECK_DEADLOCK FALSE
PROPERTY IncompleteHeaderWaits
