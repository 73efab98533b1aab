SPECIFICATION Spec
CONSTANTS
    CommandLines <- Commands
    Reading <- Words
    Number <- Numbers
    StartedBy = {0, 7}
CHECK_DEADLOCK FALSE
INVARIANTS OptionsEffective LoopAsConfigured
