SPECIFICATION Spec
CONSTANTS
  Names = {"a"}
  Versions <- OneFile
  NameOf <- MCNameOf
  Blocks <- MCBlocks
  MaxBlocks = 3
  FileId <- MCFileId
  Suffixed <- MCSuffixed
  MaxSuffix = 2
  PartOf <- MCPartOf
  MaxFcb = 3
  MaxPart = 2
  Callbacks = {"null", "f"}
  NoCb = "null"
  Dirs = {"./", "in/"}
  Cwd = "./"
  Existing = {"a"}
  Calls = {"register", "default", "unregister", "set_recvdir", "stop", "fini", "crash"}
  MidTransfer = {}
  IoFaults = {}
  Nil = Nil
  Junk = Junk
INVARIANTS
  TypeOK
  PartInOrder
  TargetFree
  AwaitedIsMissing
  FcbRegistered
  HashCheckPasses
PROPERTIES
  SavedIsKept
  DeliversOnce
CHECK_DEADLOCK FALSE
