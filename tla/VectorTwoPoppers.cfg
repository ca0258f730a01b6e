SPECIFICATION VSpec
CONSTANTS
  Cap = 2
  Elems = {"x"}
  Threads = {"p", "c", "d"}
  CallsOf <- TwoPoppers
  Exclusive = {}
  Nil = Nil
PROPERTIES
  IsDeque
CHECK_DEADLOCK FALSE
