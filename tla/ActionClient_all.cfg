CONSTANTS
 Requests = {q1}
 Uuids = {u1, u2}
 Results = {r1}
 Cancels = {c1}
 None = None
 Optimized = TRUE
 MaxStatus = 2
SPECIFICATION FairSpec
INVARIANTS NeverAhead
PROPERTIES StatusNeverGoesBack PromisesSettle CallbacksAreReleased
CHECK_DEADLOCK FALSE
