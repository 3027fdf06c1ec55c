SPECIFICATION ServersSpec
CONSTANTS
  Drivers = {pl011, shterm}
  Shells = {bsh, bsh2}
  Others = {other}
  Root = root
  Romfs = romfs
  DriverName <- MCDriverName
  ShellNames <- MCShellNames
  ServiceNames = {"mem", "serv", "rom", "term"}
  MAX_SERVICE_COUNT = 5
  NONE = none
  Clients = {bsh, other}
  Fds <- MCFds
  FILE_STATE_COUNT = 8
  FILE_STATE_LOG = 2
  Files <- MCFiles
  NoFile = "none"
  RootDirectory = "root"
  Entries <- MCEntries
  Names <- MCNames
  Careful = {bsh}
INVARIANTS
  Agreement
  Told
PROPERTIES
  RefusedWhenFull
  ImplementsDescriptors
