SPECIFICATION Spec
CONSTANTS
  Names = {"a"}
  Versions <- TwoVersions
  NameOf <- MCNameOf
  Blocks <- MCBlocks
  MaxBlocks = 3
  FileId <- MCFileId
  Suffixed <- MCSuffixed
  MaxSuffix = 1
  PartOf <- MCPartOf
  MaxFcb = 3
  MaxPart = 1
  Callbacks = {"null"}
  NoCb = "null"
  Dirs = {"./"}
  Cwd = "./"
  Existing = {}
  Calls = {"stop", "crash", "register", "unregister"}
  MidTransfer = {"unregister"}
  IoFaults = {"short", "rename", "hash"}
  Nil = Nil
  Junk = Junk
INVARIANTS
  TargetFree
PROPERTIES
  SavedIsKept
CHECK_DEADLOCK FALSE
