CHECK_DEADLOCK FALSE
SPECIFICATION FairSpec
CONSTANT
  NUMBER = 1
PROPERTY
  Returns
