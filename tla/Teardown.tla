------------------------------- MODULE Teardown -------------------------------
(***************************************************************************)
(* The end of things: a context (lib/context.js, init of index.js) with    *)
(* its nodes, a node with its entities (destroy of lib/node.js), and below *)
(* them the tree of native handles (src/rcl_handle.cpp), released by hand, *)
(* by their parent, or by the garbage collector.                           *)
(*                                                                         *)
(* node.destroy() of a node that spins runs the libuv loop in stop() (see  *)
(* Executor), and so user code: calls form a stack.  User code does not    *)
(* spin a node there that is being destroyed.                              *)
(***************************************************************************)
EXTENDS Naturals, Sequences

CONSTANTS
  Nodes,
  Entities,
  Clocks,
  ClockOf,    \* the clock of a node; the others belong to user code
  None,
  MaxDepth    \* bound: calls within calls

Handles == Nodes \cup Entities \cup Clocks

ASSUME DisjointAssumption ==
  /\ Nodes \cap Entities = {} /\ Nodes \cap Clocks = {} /\ Entities \cap Clocks = {}
  /\ None \notin Handles
ASSUME ClockAssumption ==
  /\ ClockOf \in [Nodes -> Clocks]
  /\ \A m, n \in Nodes : ClockOf[m] = ClockOf[n] => m = n
ASSUME BoundAssumption == MaxDepth \in Nat \ {0}

VARIABLES
  there,      \* RclHandle objects that exist
  live,       \* those with a pointer_
  parent,     \* parent_
  children,   \* children_
  base,       \* what a handle was made with, and its deleter needs
  finalised,  \* handles whose deleter has run
  wrong,      \* those for which it ran twice, or without the base
  rcl,        \* of the context: "none", "valid" or "invalid"
  pending,    \* does init() await the generator?
  isShutdown, \* _isShutdown
  nodes,      \* _nodes
  stack,      \* calls of shutdown() and destroy() under way, innermost first
  node,       \* of a node: "none", "live" or "destroyed"
  late,       \* nodes that user code created while shutdown() was under way
  spinning,   \* nodes with _spinning
  owner,      \* the node of an entity
  kind,       \* child (publisher and the like), timer, guard (or event), action
  listed,     \* entities in the arrays of their node
  actions,    \* _actionClients (or _actionServers) of a node
  destroyed,  \* entities that were destroyed one by one
  rate        \* _rateTimerServer of a node: "none", "pending", "live" or "gone"

handleVars == <<there, live, parent, children, base, finalised, wrong>>
contextVars == <<rcl, pending, isShutdown>>
entityVars == <<owner, kind, listed, actions, destroyed>>
vars == <<handleVars, contextVars, nodes, stack, node, late, spinning, entityVars, rate>>

-------------------------------------------------------------------------------
(* Handles *)

\* Mutant: a handle that is reset stays among the children of its parent.
ResetInParent(S) ==
  LET X == (S \cap live) \cup UNION {children[h] : h \in S \cap live}
  IN /\ live' = live \ X
     /\ finalised' = finalised \cup X
     /\ wrong' = wrong \cup {x \in X : x \in finalised \/ (base[x] # None /\ base[x] \notin live)}
     /\ children' = [h \in Handles |-> IF h \in X THEN {} ELSE children[h]]
     /\ parent' = [h \in Handles |-> IF h \in X THEN None ELSE parent[h]]

\* Mutant: the deleter of a handle runs before its children are reset.
ResetBeforeChildren(S) ==
  LET X == (S \cap live) \cup UNION {children[h] : h \in S \cap live}
  IN /\ live' = live \ X
     /\ finalised' = finalised \cup X
     /\ wrong' = wrong \cup {x \in X : x \in finalised \/ (base[x] # None /\ base[x] \notin live \ S)}
     /\ children' = [h \in Handles |-> IF h \in X THEN {} ELSE children[h] \ X]
     /\ parent' = [h \in Handles |-> IF h \in X THEN None ELSE parent[h]]

\* Reset of the handles S that have a pointer: out of the parent, then the children,
\* then the deleter.  Children have no children.
Reset(S) ==
  LET X == (S \cap live) \cup UNION {children[h] : h \in S \cap live}
  IN /\ live' = live \ X
     /\ finalised' = finalised \cup X
     /\ wrong' = wrong \cup {x \in X : x \in finalised \/ (base[x] # None /\ base[x] \notin live)}
     /\ children' = [h \in Handles |-> IF h \in X THEN {} ELSE children[h] \ X]
     /\ parent' = [h \in Handles |-> IF h \in X THEN None ELSE parent[h]]

\* NewInstance of the handles S, without or with a parent.
NewInstance(S, p) ==
  /\ there' = there \cup S
  /\ live' = live \cup S
  /\ base' = [h \in Handles |-> IF h \in S THEN p ELSE base[h]]
  /\ parent' = [h \in Handles |-> IF h \in S THEN p ELSE parent[h]]
  /\ children' = [h \in Handles |-> IF h = p THEN children[h] \cup S ELSE children[h]]
  /\ UNCHANGED <<finalised, wrong>>

\* User code runs: outside of all calls, or in the loop that stop() runs.
InUserCode == stack # <<>> => stack[1].call = "destroy"

\* Mutant: a timer does not keep its clock.
HoldsNoClock(h) ==
  \/ h \in listed
  \/ \E n \in Nodes : node[n] = "live" /\ h \in {n, ClockOf[n]}

\* What the runtime keeps from the garbage collector: live nodes and their clocks, the
\* entities in their arrays, and the clocks that timers among these hold on to.
Holds(h) ==
  \/ h \in listed
  \/ \E n \in Nodes : node[n] = "live" /\ h \in {n, ClockOf[n]}
  \/ \E e \in listed : base[e] = h /\ kind[e] = "timer"

\* ~RclHandle, of an object that user code has dropped as well.
Collect(h) ==
  /\ InUserCode
  /\ h \in there
  /\ ~Holds(h)
  /\ there' = there \ {h}
  /\ Reset({h})
  /\ UNCHANGED <<base, contextVars, nodes, stack, node, late, spinning, entityVars, rate>>

-------------------------------------------------------------------------------
(* Entities *)

\* A publisher, subscription, client or service is a child of its node; a guard
\* condition or an event is nobody's child.
CreateEntity(e, n, k) ==
  /\ InUserCode
  /\ e \notin there \cup finalised
  /\ n \in live
  /\ k \in {"child", "guard", "action"}
  /\ NewInstance({e}, IF k = "guard" THEN None ELSE n)
  /\ owner' = [owner EXCEPT ![e] = n]
  /\ kind' = [kind EXCEPT ![e] = k]
  /\ listed' = listed \cup {e}
  /\ actions' = IF k = "action" THEN [actions EXCEPT ![n] = Append(@, e)] ELSE actions
  /\ UNCHANGED <<contextVars, nodes, stack, node, late, spinning, destroyed, rate>>

\* createTimer: a child of its clock, which is that of the node or one of user code.
CreateTimer(e, n, c) ==
  /\ InUserCode
  /\ e \notin there \cup finalised
  /\ n \in live
  /\ c \in live
  /\ c = ClockOf[n] \/ \A m \in Nodes : c # ClockOf[m]
  /\ NewInstance({e}, c)
  /\ owner' = [owner EXCEPT ![e] = n]
  /\ kind' = [kind EXCEPT ![e] = "timer"]
  /\ listed' = listed \cup {e}
  /\ UNCHANGED <<contextVars, nodes, stack, node, late, spinning, actions, destroyed, rate>>

CreateClock(c) ==
  /\ InUserCode
  /\ c \notin there \cup finalised
  /\ \A n \in Nodes : c # ClockOf[n]
  /\ NewInstance({c}, None)
  /\ UNCHANGED <<contextVars, nodes, stack, node, late, spinning, entityVars, rate>>

\* splice at indexOf, if it is there; an array has an element once.
At(seq, x) == {i \in 1 .. Len(seq) : seq[i] = x}
Without(seq, x) ==
  IF At(seq, x) = {} THEN seq
  ELSE LET i == CHOOSE i \in At(seq, x) : TRUE
       IN SubSeq(seq, 1, i - 1) \o SubSeq(seq, i + 1, Len(seq))

\* _destroyEntity, of one that the node has in its arrays or had.
DestroyEntity(e) ==
  /\ InUserCode
  /\ e \in there
  /\ e \notin destroyed
  /\ Reset({e})
  /\ listed' = listed \ {e}
  /\ actions' = [actions EXCEPT ![owner[e]] = Without(@, e)]
  /\ destroyed' = destroyed \cup {e}
  /\ UNCHANGED <<there, base, contextVars, nodes, stack, node, late, spinning, owner, kind, rate>>

-------------------------------------------------------------------------------
(* Nodes *)

\* The constructor; rcl makes no node in a context that is not valid.
CreateNode(n) ==
  /\ InUserCode
  /\ node[n] = "none"
  /\ rcl = "valid"
  /\ ~isShutdown
  /\ NewInstance({n, ClockOf[n]}, None)
  /\ node' = [node EXCEPT ![n] = "live"]
  /\ nodes' = Append(nodes, n)
  /\ late' = IF \E i \in 1 .. Len(stack) : stack[i].call = "shutdown" THEN late \cup {n} ELSE late
  /\ UNCHANGED <<contextVars, stack, spinning, entityVars, rate>>

Destroying(n) == \E i \in 1 .. Len(stack) : stack[i].call = "destroy" /\ stack[i].node = n

Spin(n) ==
  /\ InUserCode
  /\ node[n] = "live"
  /\ n \notin spinning
  /\ ~Destroying(n)
  /\ spinning' = spinning \cup {n}
  /\ UNCHANGED <<handleVars, contextVars, nodes, stack, node, late, entityVars, rate>>

Stop(n) ==
  /\ InUserCode
  /\ n \in spinning
  /\ spinning' = spinning \ {n}
  /\ UNCHANGED <<handleVars, contextVars, nodes, stack, node, late, entityVars, rate>>

\* createRate up to its await, the context and the server are there; and what comes after.
CreateRate(n) ==
  /\ InUserCode
  /\ node[n] = "live"
  /\ rate[n] = "none"
  /\ rate' = [rate EXCEPT ![n] = "pending"]
  /\ UNCHANGED <<handleVars, contextVars, nodes, stack, node, late, spinning, entityVars>>

\* The node of the server is made, unless its context has been shut down.
RateReady(n) ==
  /\ InUserCode
  /\ rate[n] = "pending"
  /\ rate' = [rate EXCEPT ![n] = "live"]
  /\ UNCHANGED <<handleVars, contextVars, nodes, stack, node, late, spinning, entityVars>>

\* forEach over an array out of which each member takes itself: every second is passed over.
Visited(seq) == {seq[i] : i \in {j \in 1 .. Len(seq) : j % 2 = 1}}

\* Mutant: timers are left to their clock.
FinishWithoutTimers(n) ==
  /\ Reset({n})
  /\ node' = [node EXCEPT ![n] = "destroyed"]
  /\ nodes' = Without(nodes, n)
  /\ spinning' = spinning \ {n}
  /\ listed' = {e \in listed : owner[e] # n}
  /\ destroyed' = destroyed \cup Visited(actions[n])
  /\ actions' = [actions EXCEPT ![n] = <<>>]
  /\ rate' = [rate EXCEPT ![n] = IF @ = "none" THEN "none" ELSE "gone"]
  /\ UNCHANGED <<there, base, contextVars, late, owner, kind>>

\* destroy() from the return of stop().
Finish(n) ==
  /\ Reset({n} \cup {e \in listed : owner[e] = n /\ kind[e] = "timer"})
  /\ node' = [node EXCEPT ![n] = "destroyed"]
  /\ nodes' = Without(nodes, n)
  /\ spinning' = spinning \ {n}
  /\ listed' = {e \in listed : owner[e] # n}
  /\ destroyed' = destroyed \cup Visited(actions[n])
  /\ actions' = [actions EXCEPT ![n] = <<>>]
  /\ rate' = [rate EXCEPT ![n] = IF @ = "none" THEN "none" ELSE "gone"]
  /\ UNCHANGED <<there, base, contextVars, late, owner, kind>>

\* destroy() of n, called from where the stack is "below".  Only the first stop() of a
\* node that spins has a loop to run.
Destroy(n, below) ==
  IF n \in spinning /\ ~Destroying(n)
    THEN /\ stack' = <<[call |-> "destroy", node |-> n, rest |-> <<>>]>> \o below
         /\ UNCHANGED <<handleVars, contextVars, nodes, node, late, spinning, entityVars, rate>>
    ELSE Finish(n) /\ stack' = below

DestroyNode(n) ==
  /\ InUserCode
  /\ node[n] # "none"
  /\ Len(stack) < MaxDepth
  /\ Destroy(n, stack)

StopReturns ==
  /\ stack # <<>>
  /\ stack[1].call = "destroy"
  /\ Finish(stack[1].node)
  /\ stack' = Tail(stack)

-------------------------------------------------------------------------------
(* The context *)

\* init() up to its await.
InitContext ==
  /\ rcl = "none"
  /\ ~isShutdown
  /\ InUserCode
  /\ rcl' = "valid"
  /\ pending' = TRUE
  /\ UNCHANGED <<handleVars, isShutdown, nodes, stack, node, late, spinning, entityVars, rate>>

\* Mutant: shutdown() goes through _nodes itself, which the nodes leave.
BeginOnArray ==
  stack' = <<[call |-> "shutdown", node |-> None,
              rest |-> SelectSeq(nodes, LAMBDA n : n \in Visited(nodes))]>> \o stack

\* shutdown() takes a copy of _nodes.
Begin == stack' = <<[call |-> "shutdown", node |-> None, rest |-> nodes]>> \o stack

InitReturns ==
  /\ InUserCode
  /\ pending
  /\ pending' = FALSE
  /\ UNCHANGED <<handleVars, rcl, isShutdown, nodes, stack, node, late, spinning, entityVars, rate>>

\* The generator fails: tryShutdown.
InitFails ==
  /\ InUserCode
  /\ pending
  /\ Len(stack) < MaxDepth
  /\ pending' = FALSE
  /\ IF rcl = "valid" /\ ~isShutdown THEN Begin ELSE UNCHANGED stack
  /\ UNCHANGED <<handleVars, rcl, isShutdown, nodes, node, late, spinning, entityVars, rate>>

Shutdown ==
  /\ InUserCode
  /\ ~isShutdown
  /\ Len(stack) < MaxDepth
  /\ Begin
  /\ UNCHANGED <<handleVars, contextVars, nodes, node, late, spinning, entityVars, rate>>

ShutdownNode ==
  /\ stack # <<>>
  /\ stack[1].call = "shutdown"
  /\ stack[1].rest # <<>>
  /\ Destroy(Head(stack[1].rest), <<[stack[1] EXCEPT !.rest = Tail(@)]>> \o Tail(stack))

ShutdownReturns ==
  /\ stack # <<>>
  /\ stack[1].call = "shutdown"
  /\ stack[1].rest = <<>>
  /\ rcl' = IF rcl = "valid" /\ ~isShutdown THEN "invalid" ELSE rcl
  /\ isShutdown' = TRUE
  /\ stack' = Tail(stack)
  /\ UNCHANGED <<handleVars, pending, nodes, node, late, spinning, entityVars, rate>>

-------------------------------------------------------------------------------
Init ==
  /\ there = {} /\ live = {} /\ finalised = {} /\ wrong = {}
  /\ parent = [h \in Handles |-> None] /\ base = [h \in Handles |-> None]
  /\ children = [h \in Handles |-> {}]
  /\ rcl = "none" /\ pending = FALSE /\ isShutdown = FALSE
  /\ nodes = <<>> /\ stack = <<>> /\ late = {} /\ spinning = {}
  /\ node = [n \in Nodes |-> "none"]
  /\ owner = [e \in Entities |-> None] /\ kind = [e \in Entities |-> "none"]
  /\ listed = {} /\ destroyed = {}
  /\ actions = [n \in Nodes |-> <<>>]
  /\ rate = [n \in Nodes |-> "none"]

Next ==
  \/ \E h \in Handles : Collect(h)
  \/ \E e \in Entities :
       \/ DestroyEntity(e)
       \/ \E n \in Nodes : \/ \E k \in {"child", "guard", "action"} : CreateEntity(e, n, k)
                           \/ \E c \in Clocks : CreateTimer(e, n, c)
  \/ \E c \in Clocks : CreateClock(c)
  \/ \E n \in Nodes : \/ CreateNode(n) \/ Spin(n) \/ Stop(n) \/ DestroyNode(n)
                      \/ CreateRate(n) \/ RateReady(n)
  \/ StopReturns
  \/ InitContext \/ InitReturns \/ InitFails
  \/ Shutdown \/ ShutdownNode \/ ShutdownReturns

Spec == Init /\ [][Next]_vars

-------------------------------------------------------------------------------
(* Properties *)

Frames ==
  [call : {"destroy"}, node : Nodes, rest : {<<>>}]
    \cup [call : {"shutdown"}, node : {None}, rest : Seq(Nodes)]

\* The type of every variable.
TypeOK ==
  /\ there \subseteq Handles /\ live \subseteq there /\ finalised \subseteq Handles
  /\ wrong \subseteq Handles
  /\ parent \in [Handles -> Handles \cup {None}] /\ base \in [Handles -> Handles \cup {None}]
  /\ children \in [Handles -> SUBSET Handles]
  /\ rcl \in {"none", "valid", "invalid"} /\ pending \in BOOLEAN /\ isShutdown \in BOOLEAN
  /\ nodes \in Seq(Nodes)
  /\ stack \in Seq(Frames)
  /\ node \in [Nodes -> {"none", "live", "destroyed"}]
  /\ late \subseteq Nodes /\ spinning \subseteq Nodes
  /\ owner \in [Entities -> Nodes \cup {None}]
  /\ kind \in [Entities -> {"child", "timer", "guard", "action", "none"}]
  /\ listed \subseteq Entities /\ destroyed \subseteq Entities
  /\ actions \in [Nodes -> Seq(Entities)]
  /\ rate \in [Nodes -> {"none", "pending", "live", "gone"}]

\* A native object is finalised once, and before the node or clock that it was made with,
\* however its handle is released: by hand, with the parent, or by the garbage collector,
\* in any order (src/rcl_handle.cpp:94).
FinalisedInOrder == wrong = {}

\* No handle refers to one that the garbage collector has taken (src/rcl_handle.cpp:98, 106).
NoDangling ==
  \A h \in there : children[h] \subseteq there /\ parent[h] \in there \cup {None}

\* What a node has in its arrays, which its executor waits for, has a native object: a
\* timer too, on a clock that user code has dropped (lib/timer.js:27).
ListedAreLive == \A e \in listed : e \in live

\* Nothing made with a node is left when it is destroyed, neither its timers, which hang
\* on a clock, nor the server of its rates, which may still be starting
\* (lib/node.js:1225, 1236).
NothingOutlivesNode ==
  \A n \in Nodes : node[n] = "destroyed" =>
    /\ \A e \in Entities : owner[e] = n /\ kind[e] # "guard" => e \notin live
    /\ rate[n] \notin {"pending", "live"}

\* A context that is shut down, by the user or because init failed, has no live node,
\* whatever user code did in between, but for the nodes it made there (lib/context.js:152).
ShutdownEndsNodes ==
  isShutdown /\ stack = <<>> => \A n \in Nodes \ late : node[n] # "live"

-------------------------------------------------------------------------------
(* The inductive invariant behind the properties.                              *)

\* The handles form a tree of depth one, of objects that are alive.
TreeInv ==
  /\ wrong = {}
  /\ \A h \in Handles : /\ \A x \in children[h] : x \in live \cap Entities /\ base[x] = h
                        /\ parent[h] # None => h \in live /\ parent[h] = base[h]
  /\ \A x \in live : /\ x \notin finalised
                     /\ base[x] # None => /\ x \in Entities /\ base[x] \in live \ Entities
                                          /\ x \in children[base[x]]

\* What belongs to a node goes with it.
OwnerInv ==
  /\ \A n \in Nodes :
       /\ node[n] = "none" => {n, ClockOf[n]} \cap (there \cup finalised) = {}
       /\ n \in live => node[n] = "live"
       /\ node[n] = "destroyed" => rate[n] \notin {"pending", "live"}
  /\ \A e \in Entities \cap live :
       /\ kind[e] # "none"
       /\ kind[e] \in {"child", "action"} => base[e] = owner[e] /\ owner[e] \in Nodes
       /\ kind[e] = "guard" => base[e] = None
       /\ kind[e] = "timer" => base[e] \in Clocks /\ e \in listed
  /\ \A e \in listed : e \in live /\ owner[e] \in Nodes /\ node[owner[e]] = "live"

\* The call at i of a stack is going to destroy n, or a call within it is.
Doomed(n, calls, i) ==
  \/ At(calls[i].rest, n) # {}
  \/ \E j \in 1 .. i - 1 : calls[j].call = "destroy" /\ calls[j].node = n

\* A shutdown() under way is going to destroy every node that it found.
StackInv ==
  /\ \A n \in Nodes : node[n] = "live" => At(nodes, n) # {}
  /\ isShutdown => \A n \in Nodes \ late : node[n] # "live"
  /\ \A i \in 1 .. Len(stack) : stack[i].call = "shutdown" =>
       \A n \in Nodes \ late : node[n] = "live" => Doomed(n, stack, i)

IInv == TreeInv /\ OwnerInv /\ StackInv
================================================================================
