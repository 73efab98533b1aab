SPECIFICATION Spec
CONSTANTS
    CommandLines <- NoDetach
    Reading <- Words
    Number <- Numbers
    StartedBy = {0}
CHECK_DEADLOCK FALSE
INVARIANT NoDetachTakesNoArgument
