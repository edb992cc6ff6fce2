CONSTANTS
    Timed = TRUE
    Calls = 2
    MaxBuf = 2
SPECIFICATION BusySpec
PROPERTIES Reconnects
