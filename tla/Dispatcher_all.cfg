CONSTANTS
 Goals = {g1, g2}
 Cancels = {c1, c2}
 Calls = {k1}
 Ids = {i1, i2}
 Actions = {a1, a2}
 Services = {s1}
 Topics = {t1}
 Unexposed = Unexposed
 None = None
SPECIFICATION FairSpec
INVARIANTS ClientsOutliveRequests PeerKnows
PROPERTIES Released
CHECK_DEADLOCK FALSE
