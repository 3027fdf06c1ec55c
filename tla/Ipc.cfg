CONSTANTS
  a = a  b = b  c = c
  Thread <- Three
  as <- Spaces
  pager <- Pagers
  NIL = NIL  ANY = ANY  ANYLOCAL = ANYLOCAL
  Timed <- OnlyB
SPECIFICATION FairSpec
INVARIANTS IpcInv Met
PROPERTIES Addressed ErrorsTrue Handled
CHECK_DEADLOCK FALSE
