CONSTANTS
  a = a
  b = b
  Thread <- TwoThreads
  Resched = Resched
  NULL = NULL
  QUANTUM = 10
  Programs <- MCPrograms
SPECIFICATION FairSpec
INVARIANTS ListInv NoAssertion
 
