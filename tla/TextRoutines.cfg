SPECIFICATION TextSpec
CONSTANTS
    Plain <- SmallPlain
    Hex <- SmallHex
    MaxUnits = 5
    Alpha <- SmallAlpha
    Digit <- SmallDigit
    Inputs <- SmallInputs
CHECK_DEADLOCK FALSE
INVARIANTS UrlDecoded HtmlEscaped QuotedFieldReadsBack ContentTypeOfFile HostsRecognised URIsRecognised HeadersCut
