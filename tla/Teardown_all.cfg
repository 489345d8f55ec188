CONSTANTS
 n1 = n1
 n2 = n2
 e1 = e1
 k1 = k1
 k2 = k2
 k3 = k3
 Nodes = {n1, n2}
 Entities = {e1}
 Clocks = {k1, k2, k3}
 ClockOf <- MCClockOf
 None = None
 MaxDepth = 3
SPECIFICATION Spec
INVARIANTS FinalisedInOrder NoDangling ListedAreLive  ShutdownEndsNodes
CHECK_DEADLOCK FALSE
