SPECIFICATION Spec
CONSTANTS
    MaxLineLength = 4
    ChunkSize = 2
    ReplySize = 2
    Lines <- ContentLines
    FileSizes = {3}
    MTimes = {1, 2}
    DefaultHostname = TRUE
    FilesChange = FALSE
    MaxPipeline = 1
CHECK_DEADLOCK FALSE
INVARIANTS TypeOK FreshRequest FileOpenOnlyWhileCopying KeepAliveFraming PersistenceAgreed LoggedOncePerReply NoReplyClobbered
PROPERTY ImplementsConnection
