SPECIFICATION Spec
CONSTANTS
  THREAD_MAX_COUNT = 5
  L4_THREAD_COUNT = 7
  Behind = 0
  MaxDeaths = 2
  MAX_ADDRESS_SPACES = 3
  Priorities = {0, 60}
INVARIANTS
  TableInv
  Prepared
  Siblings
  UrgencyKept
PROPERTIES
  RefusedUnchanged
\* The kernel may panic.
CHECK_DEADLOCK FALSE
