SPECIFICATION Spec
CONSTANTS
  Images <- MCImages
  MaxSegments = 4
  KernFiles <- MCKernFiles
  RootFiles <- MCRootFiles
  HEADROOM = 32
  PageCount = 14
  PAGE_SIZE_LOG2 = 1
  IpcSizes = {0, 1, 40}
  PAGE_SIZE = 4
  UTCB_SIZE = 2
  L4_MR_COUNT = 8
  Lines <- MCLines
  MaxLines = 3
  Files <- MCFiles
  NoFile = "none"
  RootDirectory = "root"
  InittabFile = "inittab"
  Entries <- MCEntries
  ImageOf <- MCImageOf
  kern_stack = 12
INVARIANTS
  MemoryInv
  StartedComplete
  ParserInv
  LoadsAll
PROPERTIES
  ImplementsPagePool
  ComesUp
\* The boot loader may stop, and the service has no more to do when its
\* requests are refused.
CHECK_DEADLOCK FALSE
