CONSTANTS
 Calls = {c1}
 Subs = {s1, s2}
 Unsubs = {u1}
 Goals = {g1}
 None = None
 Posts = {p1}
 Actions = {a1}
 Streams = {t1}
 MaxEvents = 2
SPECIFICATION ClientSpec
INVARIANTS OneAttempt SubscriptionsRestored ExchangesAgree
PROPERTIES VerbsSettle CloseCompletes
CHECK_DEADLOCK FALSE
