SPECIFICATION VSpec
CONSTANTS
  Cap = 3
  Elems = {"x", "y"}
  Threads = {"p", "q", "c"}
  CallsOf <- OnePopper
  Exclusive = {"insert", "get", "getidx"}
  Nil = Nil
INVARIANTS
  VTypeOK
PROPERTIES
  IsDeque
