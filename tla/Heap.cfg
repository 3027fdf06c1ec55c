CONSTANTS
  kern = kern  idle = idle  a = a  b = b
  Thread <- MCThread
  Kernel = kern
  Idle = idle
  UserPrio = {1, 2}
  IdlePrio = 3
  HEAP_SIZE = 5
SPECIFICATION Spec
INVARIANTS HeapInv KernelOnTop IdleLast
PROPERTY ImplementsRunQueue
