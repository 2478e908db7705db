SPECIFICATION FairSpec
CONSTANTS
    h1 = h1  h2 = h2
    MaxAttach = 2
    Handlers = {h1}
    Flaky = FALSE
    MaxGo = 1
    None = None
CHECK_DEADLOCK FALSE
PROPERTIES Reconnects
