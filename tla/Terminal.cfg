SPECIFICATION FairSpec
CONSTANTS
  Characters = {"a", "b"}
  Motd <- MCMotd
  Foreign = "#"
  Prompt <- MCPrompt
  SHELL_LINE_MAX = 5
  IPC_BUFFER_SIZE = 3
  CHUNK = 2
  L4_MR_COUNT = 16
  MaxTyped = 4
  MaxCalls = 1
  MaxShown = 4
INVARIANTS
  EchoesLines
PROPERTIES
  Answers
CHECK_DEADLOCK FALSE
