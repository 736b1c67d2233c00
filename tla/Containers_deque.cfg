SPECIFICATION Spec
CONSTANTS
  Values = {a, b}
  Nodes = {n1, n2, n3, n4}
  garbage = garbage
  NULL = NULL
  Capacities = {0, 1, 3}
  DEFAULT_CAPACITY = 2
  MAXSIZE = 4
  Priorities = {1, 2}
  HEAPSIZE = 8
  INT_MAX = 7
  MAXSEQ = 5
  Names = {0, 1, 4}
  Copies = {1, 2}
  StringNames = {0, 1}
  EqualNames = {0}
  SingleNames = {1, 4}
  TableSizes = {1, 3}
  MAX_CAPACITY = 4
  TRIGGER = 1
  UNITS = 24
  LoadFactor = 18
  INCREMENT = 1
  MAXTEXT = 3
  MAXLEN = 4
INVARIANT
  LengthsTold
