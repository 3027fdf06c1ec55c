CONSTANTS
  kern = kern  idle = idle  root = root  a = a
  Thread <- Four
  Kernel = kern
  Idle = idle
  Root = root
  UserPrio = {1, 2}
  IdlePrio = 3
  HEAP_SIZE = 4
  MaxStrikes = 1
SPECIFICATION Spec
INVARIANT TaskFound
