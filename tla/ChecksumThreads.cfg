SPECIFICATION CSpec
CONSTANTS
  W = 2
  L = 2
  N = 3
  POLY = {1, 3}
  Threads = {"p", "q"}
  JobsOf <- Jobs
  Nil = Nil
INVARIANTS
  CrcIsRight
PROPERTIES
  TablesStay
