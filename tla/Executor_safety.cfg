CONSTANTS
 Handles = {h1, h2, t1}
 Timers = {t1}
 None = None
 WaitMayFail = TRUE
 OtherNodes = FALSE
 SpinWithin = {}
 MaxTokens = 5
SPECIFICATION Spec
SYMMETRY EntitySymmetry
INVARIANTS WaitSetAlive WaitExcludesWork NeverWaitsOnNothing  NoLostWakeup
