CONSTANTS
  c1 = c1
  c2 = c2
  Clients = {c1, c2}
  Callers = {c1, c2}
  Casts <- MCCasts
  EchoLines <- MCEchoLines
  MaxCalls = 2
  MaxLines = 2
  NUMBER = 3
SPECIFICATION SpecServices
INVARIANT
  AnswersAreTrue
CHECK_DEADLOCK FALSE
