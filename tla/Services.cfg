CONSTANTS
  c1 = c1
  c2 = c2
  Clients = {c1, c2}
  Callers = {c1, c2}
  Casts <- MCCasts
  EchoLines <- MCEchoLines
  MaxCalls = 2
  MaxLines = 2
  NUMBER = 3
SPECIFICATION SpecServices
INVARIANTS
  AnswersAreOwn
  CallbackFirst
  NeverShort
PROPERTIES
  EveryCallReturns
  BrokerEnds
  EachHarvested
\* Every program may end, and main of lab 4 may sleep for ever.
CHECK_DEADLOCK FALSE
