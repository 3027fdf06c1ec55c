CONSTANTS
  kern = kern  idle = idle  root = root  a = a  b = b
  Thread <- TwoUsers
  Kernel = kern
  Idle = idle
  Root = root
  NULL = NULL
  Respaced <- AsRootDoes
SPECIFICATION Spec
INVARIANT TargetRunnable
