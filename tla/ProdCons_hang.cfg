CHECK_DEADLOCK FALSE
SPECIFICATION FairBufferSpec
CONSTANTS
  MaxLines = 1
  size = 2
PROPERTY
  Terminates
