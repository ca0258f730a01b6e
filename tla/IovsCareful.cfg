SPECIFICATION FairSpec
CONSTANTS
  Bufs = {"body", "all", "copy"}
  Cap = 3
  Elems = {"x", "y"}
  Size <- SizeOf
  Threads = {"p", "q"}
  CallsOf <- Makers
  Nil = Nil
  Care = TRUE
PROPERTIES
  IsSegments
  Returns
