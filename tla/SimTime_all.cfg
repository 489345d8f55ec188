CONSTANTS
 Clocks = {k1, k2}
 Sleepers = {s1}
 MaxTime = 2
 QueueSize = 2
 None = None
SPECIFICATION FairSpec
 
PROPERTIES SleeperWakes ChangeWakes
CHECK_DEADLOCK FALSE
