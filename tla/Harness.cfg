\* The program ends.
CHECK_DEADLOCK FALSE
SPECIFICATION FairSpec
CONSTANTS
  nprocesses = 3
  Inputs <- MCInputs
INVARIANTS
  NoneKilled
  ElapsedCoversAll
  RunsAsAsked
  ArgumentsAreWords
  TextsKeepTheirMeaning
PROPERTIES
  HarnessReturns
