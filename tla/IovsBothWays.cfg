SPECIFICATION FairSpec
CONSTANTS
  Bufs = {"body", "all", "copy"}
  Cap = 3
  Elems = {"x", "y"}
  Size <- SizeOf
  Threads = {"p", "q"}
  CallsOf <- BothWays
  Nil = Nil
  Care = FALSE
PROPERTIES
  Returns
