CONSTANTS
 Goals = {g1}
 Handles = {h1, h2}
 Headers = {r1}
 Cancels = {c1}
 None = None
 MaxRuns = 1
 MayDefer = FALSE
 RclMayFail = FALSE
CHECK_DEADLOCK FALSE
SPECIFICATION FairSpec
PROPERTIES ResultArrives
