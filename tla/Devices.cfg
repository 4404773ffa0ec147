SPECIFICATION MCSpec
CONSTANTS
    Buffers = {0, 1, 2}
    nr_sects = 6
    NR_REQUEST = 3
    MAX_ERRORS = 3
  
PROPERTIES CurrentEnds TtyServed
