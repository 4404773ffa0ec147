SPECIFICATION MCSpec
CONSTANTS
    Drives = {0, 1}
    Tracks = {0, 1}
    MAX_ERRORS = 2
    Checkers = {"c"}
    MaxRequests = 2
    MaxFaults = 3
  
PROPERTY RequestsEnd
CHECK_DEADLOCK FALSE
