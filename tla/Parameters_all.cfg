CONSTANTS
 sim = sim
 p = p
 c1 = c1
 c2 = c2
 Names = {sim, p}
 SimTime = sim
 ValuesOf <- MCValuesOf
 Descriptors <- MCDescriptors
 Callbacks = {c1, c2}
 TimeSource = TimeSource
 None = None
 NotSet = NotSet
 MaxDepth = 2
 RemoveWithin = FALSE
SPECIFICATION Spec
INVARIANTS  EventsTell TimeFollowsParameter
 
