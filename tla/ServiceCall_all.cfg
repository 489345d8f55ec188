CONSTANTS
 Calls = {q1, q2}
 Waits = {w1}
SPECIFICATION FairSpec
INVARIANTS ErrorNamesCause 
PROPERTIES IsOneShot TimeoutSettles
CHECK_DEADLOCK FALSE
