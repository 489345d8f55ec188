CONSTANTS
 Requests = {q1, q2}
 Local = Local
SPECIFICATION LifeSpec
PROPERTIES IsManagedNode
CHECK_DEADLOCK FALSE
