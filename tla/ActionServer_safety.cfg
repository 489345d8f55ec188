CONSTANTS
 Goals = {g1, g2}
 Handles = {h1, h2}
 Headers = {r1}
 Cancels = {c1, c2}
 None = None
 MaxRuns = 1
 MayDefer = TRUE
 RclMayFail = TRUE
CHECK_DEADLOCK FALSE
SPECIFICATION Spec
SYMMETRY Symmetry
INVARIANTS TrackedIsKnown
PROPERTIES KeepsPromise
