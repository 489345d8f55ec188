---------------------------- MODULE TeardownProofs ----------------------------
(***************************************************************************)
(* Theorems about Teardown for any numbers of nodes, entities and clocks.  *)
(*                                                                         *)
(* The argument: the handles form a tree of depth one whose links go both  *)
(* ways (TreeInv), so whoever is released takes its children along and     *)
(* leaves its parent; what the arrays of a node hold is in this tree below *)
(* the node or its clock (OwnerInv); and each shutdown() under way knows   *)
(* the nodes that are left to destroy (StackInv).                          *)
(***************************************************************************)
EXTENDS Teardown, SequenceTheorems, TLAPS

USE DisjointAssumption, ClockAssumption
    DEF handleVars, contextVars, entityVars, Handles

-------------------------------------------------------------------------------
(* Arrays *)

\* An array from which an element was taken out has the same type.
LEMMA WithoutTyped ==
  ASSUME NEW T, NEW seq \in Seq(T), NEW x
  PROVE  Without(seq, x) \in Seq(T)
<1>1. CASE At(seq, x) = {}
  BY <1>1 DEF Without
<1>2. CASE At(seq, x) # {}
  <2> DEFINE i == CHOOSE i \in At(seq, x) : TRUE
  <2>1. i \in 1 .. Len(seq)
    BY <1>2 DEF At
  <2> HIDE DEF i
  <2>2. SubSeq(seq, 1, i - 1) \o SubSeq(seq, i + 1, Len(seq)) \in Seq(T)
    BY <2>1
  <2> QED
    BY <1>2, <2>2 DEF Without, i
<1> QED
  BY <1>1, <1>2

\* Taking out one element leaves the others in.
LEMMA WithoutKeeps ==
  ASSUME NEW T, NEW seq \in Seq(T), NEW x, NEW y, y # x, At(seq, y) # {}
  PROVE  At(Without(seq, x), y) # {}
<1>1. PICK k \in 1 .. Len(seq) : seq[k] = y
  BY DEF At
<1>2. CASE At(seq, x) = {}
  BY <1>2 DEF Without
<1>3. CASE At(seq, x) # {}
  <2> DEFINE i == CHOOSE i \in At(seq, x) : TRUE
             before == SubSeq(seq, 1, i - 1)
             after == SubSeq(seq, i + 1, Len(seq))
  <2>1. i \in 1 .. Len(seq) /\ seq[i] = x /\ Len(seq) \in Nat
    BY <1>3 DEF At
  <2>2. Without(seq, x) = before \o after
    BY <1>3 DEF Without
  <2> HIDE DEF i
  <2>3. /\ before \in Seq(T) /\ Len(before) = i - 1
        /\ \A j \in 1 .. i - 1 : before[j] = seq[j]
    BY <2>1, SubSeqProperties, ElementOfSeq
  <2>4. /\ after \in Seq(T) /\ Len(after) = Len(seq) - i
        /\ \A j \in 1 .. Len(seq) - i : after[j] = seq[i + j]
    <3>1. \A j \in i + 1 .. Len(seq) : seq[j] \in T
      BY <2>1, ElementOfSeq
    <3>2. /\ Len(after) = IF i + 1 <= Len(seq) THEN Len(seq) - (i + 1) + 1 ELSE 0
          /\ \A j \in 1 .. Len(seq) - (i + 1) + 1 : after[j] = seq[(i + 1) + j - 1]
          /\ after \in Seq(T)
      BY <2>1, <3>1, SubSeqProperties
    <3> QED
      BY <2>1, <3>2
  <2> HIDE DEF before, after
  <2>5. /\ Len(before \o after) = Len(before) + Len(after)
        /\ \A j \in 1 .. Len(before) + Len(after) : (before \o after)[j] =
             IF j <= Len(before) THEN before[j] ELSE after[j - Len(before)]
    <3>1. before \in Seq(T) /\ after \in Seq(T)
      BY <2>3, <2>4
    <3> QED
      BY ONLY <3>1, ConcatProperties
  <2>6. CASE k < i
    <3>1. (before \o after)[k] = y /\ k \in 1 .. Len(before \o after)
      BY <1>1, <2>1, <2>3, <2>4, <2>5, <2>6
    <3> QED
      BY <2>2, <3>1 DEF At
  <2>7. CASE k > i
    <3>1. after[k - i] = y
      BY <1>1, <2>1, <2>4, <2>7, SMTT(30)
    <3>2. (before \o after)[k - 1] = after[k - i] /\ k - 1 \in 1 .. Len(before \o after)
      BY <1>1, <2>1, <2>3, <2>4, <2>5, <2>7, SMTT(30)
    <3> QED
      BY <2>2, <3>1, <3>2 DEF At
  <2> QED
    BY <1>1, <2>1, <2>6, <2>7
<1> QED
  BY <1>2, <1>3

-------------------------------------------------------------------------------
(* Types *)

\* What a reset does to the handles.
LEMMA ResetIs ==
  ASSUME TypeOK, NEW S \in SUBSET Handles, Reset(S)
  PROVE  /\ live' \subseteq live /\ live' \cap S = {}
         /\ finalised' \subseteq Handles /\ wrong' \subseteq Handles
         /\ parent' \in [Handles -> Handles \cup {None}]
         /\ children' \in [Handles -> SUBSET Handles]
  BY DEF Reset, TypeOK

\* What new handles are.
LEMMA InstanceIs ==
  ASSUME TypeOK, NEW S \in SUBSET Handles, NEW p \in Handles \cup {None}, NewInstance(S, p)
  PROVE  /\ there' \subseteq Handles /\ live' \subseteq there'
         /\ finalised' \subseteq Handles /\ wrong' \subseteq Handles
         /\ parent' \in [Handles -> Handles \cup {None}]
         /\ base' \in [Handles -> Handles \cup {None}]
         /\ children' \in [Handles -> SUBSET Handles]
  BY DEF NewInstance, TypeOK

\* What destroy() leaves is typed.
LEMMA FinishTyped ==
  ASSUME TypeOK, NEW n \in Nodes, Finish(n), stack' \in Seq(Frames),
         UNCHANGED <<rcl, pending, isShutdown>>
  PROVE  TypeOK'
<1> DEFINE S == {n} \cup {e \in listed : owner[e] = n /\ kind[e] = "timer"}
<1>1. S \in SUBSET Handles
  BY DEF TypeOK
<1>2. Reset(S)
  BY DEF Finish
<1> HIDE DEF S
<1>3. /\ live' \subseteq live
      /\ finalised' \subseteq Handles /\ wrong' \subseteq Handles
      /\ parent' \in [Handles -> Handles \cup {None}]
      /\ children' \in [Handles -> SUBSET Handles]
  BY <1>1, <1>2, ResetIs
<1>4. nodes' \in Seq(Nodes)
  BY WithoutTyped DEF Finish, TypeOK
<1>5. actions' \in [Nodes -> Seq(Entities)]
  BY DEF Finish, TypeOK
<1>6. Visited(actions[n]) \subseteq Entities
  BY ElementOfSeq DEF Visited, TypeOK
<1> QED
  BY <1>3, <1>4, <1>5, <1>6 DEF Finish, TypeOK

\* A call of destroy() from a place in the stack that is typed.
LEMMA DestroyTyped ==
  ASSUME TypeOK, NEW n \in Nodes, NEW below \in Seq(Frames), Destroy(n, below),
         UNCHANGED <<rcl, pending, isShutdown>>
  PROVE  TypeOK'
<1>1. CASE n \in spinning /\ ~Destroying(n)
  <2> DEFINE frame == [call |-> "destroy", node |-> n, rest |-> <<>>]
  <2>1. frame \in Frames
    BY DEF Frames
  <2>2. stack' = <<frame>> \o below
    BY <1>1 DEF Destroy
  <2> HIDE DEF frame
  <2>3. stack' \in Seq(Frames)
    BY <2>1, <2>2
  <2> QED
    BY <1>1, <2>3 DEF Destroy, TypeOK
<1>2. CASE ~(n \in spinning /\ ~Destroying(n))
  BY <1>2, FinishTyped DEF Destroy
<1> QED
  BY <1>1, <1>2

\* The beginning of shutdown() is typed.
LEMMA BeginTyped ==
  ASSUME TypeOK, Begin
  PROVE  stack' \in Seq(Frames)
<1> DEFINE frame == [call |-> "shutdown", node |-> None, rest |-> nodes]
<1>1. frame \in Frames
  BY DEF Frames, TypeOK
<1>2. stack' = <<frame>> \o stack
  BY DEF Begin
<1> HIDE DEF frame
<1> QED
  BY <1>1, <1>2 DEF TypeOK

\* Every step keeps the types.
LEMMA TypeKept ==
  ASSUME TypeOK, [Next]_vars
  PROVE  TypeOK'
<1>1. ASSUME NEW h \in Handles, Collect(h)
      PROVE  TypeOK'
  <2>1. Reset({h})
    BY <1>1 DEF Collect
  <2>2. /\ live' \subseteq live /\ live' \cap {h} = {}
        /\ finalised' \subseteq Handles /\ wrong' \subseteq Handles
        /\ parent' \in [Handles -> Handles \cup {None}]
        /\ children' \in [Handles -> SUBSET Handles]
    BY <2>1, ResetIs
  <2> QED
    BY <1>1, <2>2 DEF Collect, TypeOK
<1>2. ASSUME NEW e \in Entities, DestroyEntity(e)
      PROVE  TypeOK'
  <2>1. Reset({e})
    BY <1>2 DEF DestroyEntity
  <2>2. /\ live' \subseteq live
        /\ finalised' \subseteq Handles /\ wrong' \subseteq Handles
        /\ parent' \in [Handles -> Handles \cup {None}]
        /\ children' \in [Handles -> SUBSET Handles]
    BY <2>1, ResetIs
  <2>3. \A n \in Nodes : Without(actions[n], e) \in Seq(Entities)
    BY WithoutTyped DEF TypeOK
  <2>4. actions' \in [Nodes -> Seq(Entities)]
    BY <1>2, <2>3 DEF DestroyEntity, TypeOK
  <2> QED
    BY <1>2, <2>2, <2>4 DEF DestroyEntity, TypeOK
<1>3. ASSUME NEW e \in Entities, NEW n \in Nodes,
             NEW k \in {"child", "guard", "action"}, CreateEntity(e, n, k)
      PROVE  TypeOK'
  <2>1. PICK p \in {None, n} : NewInstance({e}, p)
    BY <1>3 DEF CreateEntity
  <2>2. /\ there' \subseteq Handles /\ live' \subseteq there'
        /\ finalised' \subseteq Handles /\ wrong' \subseteq Handles
        /\ parent' \in [Handles -> Handles \cup {None}]
        /\ base' \in [Handles -> Handles \cup {None}]
        /\ children' \in [Handles -> SUBSET Handles]
    BY <2>1, InstanceIs
  <2>3. actions' \in [Nodes -> Seq(Entities)]
    BY <1>3 DEF CreateEntity, TypeOK
  <2> QED
    BY <1>3, <2>2, <2>3 DEF CreateEntity, TypeOK
<1>4. ASSUME NEW e \in Entities, NEW n \in Nodes, NEW c \in Clocks, CreateTimer(e, n, c)
      PROVE  TypeOK'
  <2>1. NewInstance({e}, c)
    BY <1>4 DEF CreateTimer
  <2>2. /\ there' \subseteq Handles /\ live' \subseteq there'
        /\ finalised' \subseteq Handles /\ wrong' \subseteq Handles
        /\ parent' \in [Handles -> Handles \cup {None}]
        /\ base' \in [Handles -> Handles \cup {None}]
        /\ children' \in [Handles -> SUBSET Handles]
    BY <2>1, InstanceIs
  <2> QED
    BY <1>4, <2>2 DEF CreateTimer, TypeOK
<1>5. ASSUME NEW c \in Clocks, CreateClock(c)
      PROVE  TypeOK'
  <2>1. NewInstance({c}, None)
    BY <1>5 DEF CreateClock
  <2>2. /\ there' \subseteq Handles /\ live' \subseteq there'
        /\ finalised' \subseteq Handles /\ wrong' \subseteq Handles
        /\ parent' \in [Handles -> Handles \cup {None}]
        /\ base' \in [Handles -> Handles \cup {None}]
        /\ children' \in [Handles -> SUBSET Handles]
    BY <2>1, InstanceIs
  <2> QED
    BY <1>5, <2>2 DEF CreateClock, TypeOK
<1>6. ASSUME NEW n \in Nodes, CreateNode(n)
      PROVE  TypeOK'
  <2>1. NewInstance({n, ClockOf[n]}, None) /\ {n, ClockOf[n]} \in SUBSET Handles
    BY <1>6 DEF CreateNode
  <2>2. /\ there' \subseteq Handles /\ live' \subseteq there'
        /\ finalised' \subseteq Handles /\ wrong' \subseteq Handles
        /\ parent' \in [Handles -> Handles \cup {None}]
        /\ base' \in [Handles -> Handles \cup {None}]
        /\ children' \in [Handles -> SUBSET Handles]
    BY <2>1, InstanceIs
  <2>3. nodes' \in Seq(Nodes)
    BY <1>6 DEF CreateNode, TypeOK
  <2> QED
    BY <1>6, <2>2, <2>3 DEF CreateNode, TypeOK
<1>7. ASSUME NEW n \in Nodes, Spin(n)
      PROVE  TypeOK'
  BY <1>7 DEF Spin, TypeOK
<1>8. ASSUME NEW n \in Nodes, Stop(n)
      PROVE  TypeOK'
  BY <1>8 DEF Stop, TypeOK
<1>9. ASSUME NEW n \in Nodes, CreateRate(n)
      PROVE  TypeOK'
  BY <1>9 DEF CreateRate, TypeOK
<1>10. ASSUME NEW n \in Nodes, RateReady(n)
      PROVE  TypeOK'
  BY <1>10 DEF RateReady, TypeOK
<1>11. ASSUME NEW n \in Nodes, DestroyNode(n)
      PROVE  TypeOK'
  BY <1>11, DestroyTyped DEF DestroyNode, TypeOK, Destroy, Finish
<1>12. ASSUME StopReturns
      PROVE  TypeOK'
  <2>1. stack[1] \in Frames /\ Tail(stack) \in Seq(Frames)
    BY <1>12 DEF StopReturns, TypeOK
  <2>2. stack[1].node \in Nodes
    BY <1>12, <2>1 DEF StopReturns, Frames
  <2> QED
    BY <1>12, <2>1, <2>2, FinishTyped DEF StopReturns, Finish
<1>13. ASSUME InitContext
      PROVE  TypeOK'
  BY <1>13 DEF InitContext, TypeOK
<1>14. ASSUME InitReturns
      PROVE  TypeOK'
  BY <1>14 DEF InitReturns, TypeOK
<1>15. ASSUME InitFails
      PROVE  TypeOK'
  <2>1. stack' \in Seq(Frames)
    BY <1>15, BeginTyped DEF InitFails, TypeOK
  <2> QED
    BY <1>15, <2>1 DEF InitFails, TypeOK
<1>16. ASSUME Shutdown
      PROVE  TypeOK'
  <2>1. stack' \in Seq(Frames)
    BY <1>16, BeginTyped DEF Shutdown
  <2> QED
    BY <1>16, <2>1 DEF Shutdown, TypeOK
<1>17. ASSUME ShutdownNode
      PROVE  TypeOK'
  <2>1. stack[1] \in Frames /\ Tail(stack) \in Seq(Frames)
    BY <1>17 DEF ShutdownNode, TypeOK
  <2>2. stack[1] \in [call : {"shutdown"}, node : {None}, rest : Seq(Nodes)]
    BY <1>17, <2>1 DEF ShutdownNode, Frames
  <2> DEFINE frame == [stack[1] EXCEPT !.rest = Tail(stack[1].rest)]
  <2>3. frame \in Frames /\ Head(stack[1].rest) \in Nodes
    <3>1. /\ Tail(stack[1].rest) \in Seq(Nodes)
          /\ Head(stack[1].rest) \in Nodes
      BY <1>17, <2>2, HeadTailProperties DEF ShutdownNode
    <3>2. frame \in [call : {"shutdown"}, node : {None}, rest : Seq(Nodes)]
      BY <2>2, <3>1
    <3> QED
      BY <3>1, <3>2 DEF Frames
  <2>4. Destroy(Head(stack[1].rest), <<frame>> \o Tail(stack))
    BY <1>17 DEF ShutdownNode
  <2> HIDE DEF frame
  <2>5. <<frame>> \o Tail(stack) \in Seq(Frames)
    BY <2>1, <2>3
  <2>6. UNCHANGED <<rcl, pending, isShutdown>>
    BY <2>4 DEF Destroy, Finish
  <2> QED
    BY <2>3, <2>4, <2>5, <2>6, DestroyTyped
<1>18. ASSUME ShutdownReturns
      PROVE  TypeOK'
  BY <1>18 DEF ShutdownReturns, TypeOK
<1>19. CASE UNCHANGED vars
  BY <1>19 DEF vars, TypeOK
<1> QED
  BY <1>1, <1>2, <1>3, <1>4, <1>5, <1>6, <1>7, <1>8, <1>9,
     <1>10, <1>11, <1>12, <1>13, <1>14, <1>15, <1>16, <1>17, <1>18, <1>19 DEF Next

\* Every variable keeps its type, in whatever order handles are released.
THEOREM TypeCorrect == Spec => []TypeOK
<1>1. Init => TypeOK
  <2> SUFFICES ASSUME Init
               PROVE  TypeOK
    OBVIOUS
  <2>1. /\ nodes \in Seq(Nodes) /\ stack \in Seq(Frames)
        /\ actions \in [Nodes -> Seq(Entities)]
    BY DEF Init
  <2>2. /\ parent \in [Handles -> Handles \cup {None}]
        /\ base \in [Handles -> Handles \cup {None}]
        /\ children \in [Handles -> SUBSET Handles]
    BY DEF Init
  <2> QED
    BY <2>1, <2>2 DEF Init, TypeOK
<1> QED
  BY <1>1, TypeKept, PTL DEF Spec

-------------------------------------------------------------------------------
(* The tree of handles *)

\* The innermost call is about nodes.
LEMMA StoppedIsNode ==
  ASSUME TypeOK, stack # <<>>, stack[1].call = "destroy"
  PROVE  stack[1].node \in Nodes
<1>1. stack[1] \in Frames
  BY DEF TypeOK
<1> QED
  BY <1>1 DEF Frames

\* And so is what is left to it.
LEMMA NextIsNode ==
  ASSUME TypeOK, stack # <<>>, stack[1].call = "shutdown"
  PROVE  /\ stack[1].rest \in Seq(Nodes)
         /\ stack[1].rest # <<>> => Head(stack[1].rest) \in Nodes
<1>1. stack[1] \in Frames
  BY DEF TypeOK
<1>2. stack[1].rest \in Seq(Nodes)
  BY <1>1 DEF Frames
<1> QED
  BY <1>2

\* A reset keeps the tree, whichever handles it is of.
LEMMA TreeReset ==
  ASSUME TypeOK, TreeInv, NEW S \in SUBSET Handles, Reset(S), UNCHANGED base
  PROVE  TreeInv'
<1> DEFINE X == (S \cap live) \cup UNION {children[h] : h \in S \cap live}
<1>1. /\ live' = live \ X /\ finalised' = finalised \cup X
      /\ wrong' = wrong \cup {x \in X : x \in finalised \/ (base[x] # None /\ base[x] \notin live)}
      /\ children' = [h \in Handles |-> IF h \in X THEN {} ELSE children[h] \ X]
      /\ parent' = [h \in Handles |-> IF h \in X THEN None ELSE parent[h]]
  BY DEF Reset
<1>2. X \subseteq live /\ \A x \in X : x \in S \/ x \in Entities
  BY DEF TreeInv, TypeOK
<1>3. \A h \in X, x \in live : base[x] = h => x \in X
  BY <1>2 DEF TreeInv
<1> HIDE DEF X
<1>4. wrong' = {}
  BY <1>1, <1>2 DEF TreeInv
<1>5. ASSUME NEW h \in Handles
      PROVE  /\ \A x \in children'[h] : x \in live' \cap Entities /\ base[x] = h
             /\ parent'[h] # None => h \in live' /\ parent'[h] = base[h]
  BY <1>1 DEF TreeInv
<1>6. ASSUME NEW x \in live'
      PROVE  /\ x \notin finalised'
             /\ base[x] # None => /\ x \in Entities /\ base[x] \in live' \ Entities
                                  /\ x \in children'[base[x]]
  <2>1. x \in live /\ x \notin X
    BY <1>1, <1>6
  <2>2. base[x] # None => base[x] \in live \ X
    BY <1>3, <2>1 DEF TreeInv
  <2> QED
    BY <1>1, <2>1, <2>2 DEF TreeInv, TypeOK
<1> QED
  BY <1>4, <1>5, <1>6 DEF TreeInv

\* New handles keep it, on their own or below one that is alive.
LEMMA TreeInstance ==
  ASSUME TypeOK, TreeInv, NEW S \in SUBSET Handles, NEW p \in Handles \cup {None},
         NewInstance(S, p), S \cap (there \cup finalised) = {},
         p # None => p \in live \ Entities /\ S \subseteq Entities
  PROVE  TreeInv'
<1>1. \A h \in S : children[h] = {}
  BY DEF TreeInv, TypeOK
<1>2. /\ live' = live \cup S /\ finalised' = finalised /\ wrong' = wrong
      /\ base' = [h \in Handles |-> IF h \in S THEN p ELSE base[h]]
      /\ parent' = [h \in Handles |-> IF h \in S THEN p ELSE parent[h]]
      /\ children' = [h \in Handles |-> IF h = p THEN children[h] \cup S ELSE children[h]]
  BY DEF NewInstance
<1>3. live \cap S = {}
  BY DEF TypeOK
<1>4. ASSUME NEW h \in Handles
      PROVE  /\ \A x \in children'[h] : x \in live' \cap Entities /\ base'[x] = h
             /\ parent'[h] # None => h \in live' /\ parent'[h] = base'[h]
  BY <1>1, <1>2, <1>3 DEF TreeInv
<1>5. ASSUME NEW x \in live'
      PROVE  /\ x \notin finalised'
             /\ base'[x] # None => /\ x \in Entities /\ base'[x] \in live' \ Entities
                                   /\ x \in children'[base'[x]]
  <2>1. CASE x \in S
    BY <1>2, <2>1
  <2>2. CASE x \notin S
    BY <1>2, <2>2 DEF TreeInv, TypeOK
  <2> QED
    BY <2>1, <2>2
<1> QED
  BY <1>2, <1>4, <1>5 DEF TreeInv

\* destroy() keeps the tree, whether it comes to its end or runs the loop first.
LEMMA TreeDestroy ==
  ASSUME TypeOK, TreeInv, NEW n \in Nodes, NEW below, Destroy(n, below) \/ Finish(n)
  PROVE  TreeInv'
<1> DEFINE S == {n} \cup {e \in listed : owner[e] = n /\ kind[e] = "timer"}
<1>1. CASE UNCHANGED handleVars
  BY <1>1 DEF TreeInv
<1>2. CASE Finish(n)
  <2>1. S \in SUBSET Handles
    BY DEF TypeOK
  <2>2. Reset(S) /\ UNCHANGED base
    BY <1>2 DEF Finish
  <2> HIDE DEF S
  <2> QED
    BY <2>1, <2>2, TreeReset
<1> QED
  BY <1>1, <1>2 DEF Destroy

\* Every step keeps the tree.
LEMMA TreeKept ==
  ASSUME TypeOK, TreeInv, OwnerInv, [Next]_vars
  PROVE  TreeInv'
<1>1. ASSUME NEW h \in Handles, Collect(h)
      PROVE  TreeInv'
  BY <1>1, TreeReset DEF Collect
<1>2. ASSUME NEW e \in Entities, DestroyEntity(e)
      PROVE  TreeInv'
  BY <1>2, TreeReset DEF DestroyEntity
<1>3. ASSUME NEW e \in Entities, NEW n \in Nodes,
             NEW k \in {"child", "guard", "action"}, CreateEntity(e, n, k)
      PROVE  TreeInv'
  <2>1. PICK p \in {None, n} : NewInstance({e}, p)
    BY <1>3 DEF CreateEntity
  <2>2. n \in live \ Entities /\ {e} \cap (there \cup finalised) = {}
    BY <1>3 DEF CreateEntity
  <2> QED
    BY <2>1, <2>2, TreeInstance
<1>4. ASSUME NEW e \in Entities, NEW n \in Nodes, NEW c \in Clocks, CreateTimer(e, n, c)
      PROVE  TreeInv'
  <2>1. /\ NewInstance({e}, c) /\ c \in live \ Entities
        /\ {e} \cap (there \cup finalised) = {}
    BY <1>4 DEF CreateTimer
  <2> QED
    BY <2>1, TreeInstance
<1>5. ASSUME NEW c \in Clocks, CreateClock(c)
      PROVE  TreeInv'
  <2>1. NewInstance({c}, None) /\ {c} \cap (there \cup finalised) = {}
    BY <1>5 DEF CreateClock
  <2> QED
    BY <2>1, TreeInstance
<1>6. ASSUME NEW n \in Nodes, CreateNode(n)
      PROVE  TreeInv'
  <2>1. NewInstance({n, ClockOf[n]}, None) /\ {n, ClockOf[n]} \in SUBSET Handles
    BY <1>6 DEF CreateNode
  <2>2. {n, ClockOf[n]} \cap (there \cup finalised) = {}
    BY <1>6 DEF CreateNode, OwnerInv
  <2> QED
    BY <2>1, <2>2, TreeInstance
<1>7. ASSUME NEW n \in Nodes, Spin(n)
      PROVE  TreeInv'
  BY <1>7 DEF Spin, TreeInv
<1>8. ASSUME NEW n \in Nodes, Stop(n)
      PROVE  TreeInv'
  BY <1>8 DEF Stop, TreeInv
<1>9. ASSUME NEW n \in Nodes, CreateRate(n)
      PROVE  TreeInv'
  BY <1>9 DEF CreateRate, TreeInv
<1>10. ASSUME NEW n \in Nodes, RateReady(n)
      PROVE  TreeInv'
  BY <1>10 DEF RateReady, TreeInv
<1>11. ASSUME NEW n \in Nodes, DestroyNode(n)
      PROVE  TreeInv'
  BY <1>11, TreeDestroy DEF DestroyNode
<1>12. ASSUME StopReturns
      PROVE  TreeInv'
  <2>1. stack[1].node \in Nodes
    BY <1>12, StoppedIsNode DEF StopReturns
  <2> QED
    BY <1>12, <2>1, TreeDestroy DEF StopReturns
<1>13. ASSUME InitContext
      PROVE  TreeInv'
  BY <1>13 DEF InitContext, TreeInv
<1>14. ASSUME InitReturns
      PROVE  TreeInv'
  BY <1>14 DEF InitReturns, TreeInv
<1>15. ASSUME InitFails
      PROVE  TreeInv'
  BY <1>15 DEF InitFails, Begin, TreeInv
<1>16. ASSUME Shutdown
      PROVE  TreeInv'
  BY <1>16 DEF Shutdown, Begin, TreeInv
<1>17. ASSUME ShutdownNode
      PROVE  TreeInv'
  <2>1. Head(stack[1].rest) \in Nodes
    BY <1>17, NextIsNode DEF ShutdownNode
  <2> QED
    BY <1>17, <2>1, TreeDestroy DEF ShutdownNode
<1>18. ASSUME ShutdownReturns
      PROVE  TreeInv'
  BY <1>18 DEF ShutdownReturns, TreeInv
<1>19. CASE UNCHANGED vars
  BY <1>19 DEF vars, TreeInv
<1> QED
  BY <1>1, <1>2, <1>3, <1>4, <1>5, <1>6, <1>7, <1>8, <1>9,
     <1>10, <1>11, <1>12, <1>13, <1>14, <1>15, <1>16, <1>17, <1>18, <1>19 DEF Next

-------------------------------------------------------------------------------
(* What belongs to a node *)

\* What a reset takes with it: the handle itself and what was made with it.
LEMMA ReleasedIs ==
  ASSUME TypeOK, TreeInv, NEW S \in SUBSET Handles, Reset(S)
  PROVE  /\ live' \subseteq live
         /\ \A x \in live \ live' : x \in S \/ (base[x] # None /\ base[x] \in S \ Entities)
         /\ \A h \in S \cap live, x \in live : base[x] = h => x \notin live'
         /\ \A x \in Handles : x \in finalised' => x \in finalised \/ x \in live
         /\ live' \cap S = {}
  BY DEF Reset, TypeOK, TreeInv

\* destroy() takes all that belongs to its node.
LEMMA OwnerFinish ==
  ASSUME TypeOK, TreeInv, OwnerInv, NEW n \in Nodes, Finish(n)
  PROVE  OwnerInv'
<1> DEFINE S == {n} \cup {e \in listed : owner[e] = n /\ kind[e] = "timer"}
<1>1. S \in SUBSET Handles /\ S \subseteq {n} \cup Entities
  BY DEF TypeOK
<1>2. Reset(S)
  BY DEF Finish
<1>3. /\ n \in S /\ \A e \in listed : owner[e] = n /\ kind[e] = "timer" => e \in S
      /\ \A e \in S : e # n => owner[e] = n
  BY DEF TypeOK
<1> HIDE DEF S
<1>4. /\ live' \subseteq live
      /\ \A x \in live \ live' : x \in S \/ (base[x] # None /\ base[x] \in S \ Entities)
      /\ \A x \in Handles : x \in finalised' => x \in finalised \/ x \in live
      /\ live' \cap S = {}
  BY <1>1, <1>2, ReleasedIs
<1>5. /\ node' = [node EXCEPT ![n] = "destroyed"] /\ there' = there
      /\ rate' = [rate EXCEPT ![n] = IF @ = "none" THEN "none" ELSE "gone"]
      /\ base' = base /\ owner' = owner /\ kind' = kind
      /\ listed' = {e \in listed : owner[e] # n}
  BY DEF Finish
<1>6. ASSUME NEW m \in Nodes
      PROVE  /\ node'[m] = "none" => {m, ClockOf[m]} \cap (there' \cup finalised') = {}
             /\ m \in live' => node'[m] = "live"
             /\ node'[m] = "destroyed" => rate'[m] \notin {"pending", "live"}
  <2>1. CASE m = n
    BY <1>3, <1>4, <1>5, <2>1 DEF TypeOK
  <2>2. CASE m # n
    <3>1. node'[m] = node[m] /\ rate'[m] = rate[m]
      BY <1>5, <2>2 DEF TypeOK
    <3>2. ASSUME NEW x \in {m, ClockOf[m]}, x \in there' \cup finalised'
          PROVE  x \in there \cup finalised
      BY <1>4, <1>5, <3>2 DEF TypeOK
    <3> QED
      BY <1>4, <3>1, <3>2 DEF OwnerInv
  <2> QED
    BY <2>1, <2>2
<1>7. ASSUME NEW e \in Entities \cap live'
      PROVE  /\ kind'[e] # "none"
             /\ kind'[e] \in {"child", "action"} => base'[e] = owner'[e] /\ owner'[e] \in Nodes
             /\ kind'[e] = "guard" => base'[e] = None
             /\ kind'[e] = "timer" => base'[e] \in Clocks /\ e \in listed'
  BY <1>3, <1>4, <1>5 DEF OwnerInv
<1>8. ASSUME NEW e \in listed'
      PROVE  e \in live' /\ owner'[e] \in Nodes /\ node'[owner'[e]] = "live"
  <2>1. e \in listed /\ owner[e] # n /\ e \in live /\ e \in Entities /\ e # n
    BY <1>5 DEF OwnerInv, TypeOK
  <2>2. e \notin S
    BY <1>3, <2>1
  <2>3. base[e] # n
    BY <2>1 DEF OwnerInv, TypeOK
  <2>4. base[e] \in S => base[e] \in Entities
    BY <1>1, <2>3
  <2>5. e \in live'
    BY <1>4, <2>1, <2>2, <2>4
  <2> QED
    BY <1>5, <2>1, <2>5 DEF OwnerInv, TypeOK
<1> QED
  BY <1>6, <1>7, <1>8 DEF OwnerInv

\* So does a call of destroy(), whether it comes to its end or runs the loop first.
LEMMA OwnerDestroy ==
  ASSUME TypeOK, TreeInv, OwnerInv, NEW n \in Nodes, NEW below, Destroy(n, below)
  PROVE  OwnerInv'
<1>1. CASE Finish(n)
  BY <1>1, OwnerFinish
<1>2. CASE UNCHANGED <<handleVars, node, entityVars, rate>>
  BY <1>2 DEF OwnerInv
<1> QED
  BY <1>1, <1>2 DEF Destroy

\* Every step keeps what belongs to a node with it.
LEMMA OwnerKept ==
  ASSUME TypeOK, TreeInv, OwnerInv, [Next]_vars
  PROVE  OwnerInv'
<1>1. ASSUME NEW h \in Handles, Collect(h)
      PROVE  OwnerInv'
  <2>1. Reset({h}) /\ {h} \in SUBSET Handles
    BY <1>1 DEF Collect
  <2>2. /\ live' \subseteq live
        /\ \A x \in live \ live' : x = h \/ (base[x] = h /\ h \notin Entities)
        /\ \A x \in Handles : x \in finalised' => x \in finalised \/ x \in live
    BY <2>1, ReleasedIs
  <2>3. UNCHANGED <<node, rate, base, owner, kind, listed>> /\ there' = there \ {h}
    BY <1>1 DEF Collect
  <2>4. \A e \in listed : e \in live'
    <3> SUFFICES ASSUME NEW e \in listed, e \notin live'
                 PROVE  FALSE
      OBVIOUS
    <3>1. e \in live /\ e \in Entities /\ owner[e] \in Nodes /\ node[owner[e]] = "live"
      BY DEF OwnerInv, TypeOK
    <3>2. e # h /\ base[e] = h
      BY <1>1, <2>2, <3>1 DEF Collect, Holds
    <3>3. kind[e] \in {"child", "action", "guard", "timer"}
      BY <3>1 DEF OwnerInv, TypeOK
    <3> QED
      BY <1>1, <3>1, <3>2, <3>3 DEF Collect, Holds, OwnerInv
  <2>5. ASSUME NEW n \in Nodes, NEW x \in {n, ClockOf[n]}, x \in there' \cup finalised'
        PROVE  x \in there \cup finalised
    BY <2>2, <2>3, <2>5 DEF TypeOK
  <2> QED
    BY <2>2, <2>3, <2>4, <2>5 DEF OwnerInv
<1>2. ASSUME NEW e \in Entities, DestroyEntity(e)
      PROVE  OwnerInv'
  <2>1. Reset({e}) /\ {e} \in SUBSET Handles
    BY <1>2 DEF DestroyEntity
  <2>2. /\ live' \subseteq live
        /\ \A x \in live \ live' : x = e
        /\ \A x \in Handles : x \in finalised' => x \in finalised \/ x \in live
        /\ e \notin live'
    BY <2>1, ReleasedIs
  <2>3. UNCHANGED <<there, node, rate, base, owner, kind>> /\ listed' = listed \ {e}
    BY <1>2 DEF DestroyEntity
  <2> QED
    BY <2>2, <2>3 DEF OwnerInv, TypeOK
<1>3. ASSUME NEW e \in Entities, NEW n \in Nodes,
             NEW k \in {"child", "guard", "action"}, CreateEntity(e, n, k)
      PROVE  OwnerInv'
  <2> DEFINE p == IF k = "guard" THEN None ELSE n
  <2>1. /\ there' = there \cup {e} /\ live' = live \cup {e} /\ finalised' = finalised
        /\ base' = [h \in Handles |-> IF h \in {e} THEN p ELSE base[h]]
    BY <1>3 DEF CreateEntity, NewInstance
  <2>2. /\ owner' = [owner EXCEPT ![e] = n] /\ kind' = [kind EXCEPT ![e] = k]
        /\ listed' = listed \cup {e} /\ UNCHANGED <<node, rate>>
        /\ n \in live /\ e \notin live
    BY <1>3 DEF CreateEntity, TypeOK
  <2>3. node[n] = "live" /\ e \notin listed
    BY <2>2 DEF OwnerInv
  <2>4. /\ owner'[e] = n /\ kind'[e] = k /\ base'[e] = p
        /\ \A x \in Entities : x # e =>
             owner'[x] = owner[x] /\ kind'[x] = kind[x] /\ base'[x] = base[x]
    BY <2>1, <2>2 DEF TypeOK
  <2>5. ASSUME NEW m \in Nodes
        PROVE  /\ node'[m] = "none" => {m, ClockOf[m]} \cap (there' \cup finalised') = {}
               /\ m \in live' => node'[m] = "live"
               /\ node'[m] = "destroyed" => rate'[m] \notin {"pending", "live"}
    BY <2>1, <2>2 DEF OwnerInv
  <2>6. ASSUME NEW x \in Entities \cap live'
        PROVE  /\ kind'[x] # "none"
               /\ kind'[x] \in {"child", "action"} => base'[x] = owner'[x] /\ owner'[x] \in Nodes
               /\ kind'[x] = "guard" => base'[x] = None
               /\ kind'[x] = "timer" => base'[x] \in Clocks /\ x \in listed'
    BY <2>1, <2>2, <2>4 DEF OwnerInv
  <2>7. ASSUME NEW x \in listed'
        PROVE  x \in live' /\ owner'[x] \in Nodes /\ node'[owner'[x]] = "live"
    BY <2>1, <2>2, <2>3, <2>4 DEF OwnerInv, TypeOK
  <2> QED
    BY <2>5, <2>6, <2>7 DEF OwnerInv
<1>4. ASSUME NEW e \in Entities, NEW n \in Nodes, NEW c \in Clocks, CreateTimer(e, n, c)
      PROVE  OwnerInv'
  <2>1. /\ there' = there \cup {e} /\ live' = live \cup {e} /\ finalised' = finalised
        /\ base' = [h \in Handles |-> IF h \in {e} THEN c ELSE base[h]]
    BY <1>4 DEF CreateTimer, NewInstance
  <2>2. /\ owner' = [owner EXCEPT ![e] = n] /\ kind' = [kind EXCEPT ![e] = "timer"]
        /\ listed' = listed \cup {e} /\ UNCHANGED <<node, rate>>
        /\ n \in live /\ e \notin live
    BY <1>4 DEF CreateTimer, TypeOK
  <2>3. node[n] = "live" /\ e \notin listed
    BY <2>2 DEF OwnerInv
  <2>4. /\ owner'[e] = n /\ kind'[e] = "timer" /\ base'[e] = c
        /\ \A x \in Entities : x # e =>
             owner'[x] = owner[x] /\ kind'[x] = kind[x] /\ base'[x] = base[x]
    BY <2>1, <2>2 DEF TypeOK
  <2>5. ASSUME NEW m \in Nodes
        PROVE  /\ node'[m] = "none" => {m, ClockOf[m]} \cap (there' \cup finalised') = {}
               /\ m \in live' => node'[m] = "live"
               /\ node'[m] = "destroyed" => rate'[m] \notin {"pending", "live"}
    BY <2>1, <2>2 DEF OwnerInv
  <2>6. ASSUME NEW x \in Entities \cap live'
        PROVE  /\ kind'[x] # "none"
               /\ kind'[x] \in {"child", "action"} => base'[x] = owner'[x] /\ owner'[x] \in Nodes
               /\ kind'[x] = "guard" => base'[x] = None
               /\ kind'[x] = "timer" => base'[x] \in Clocks /\ x \in listed'
    BY <2>1, <2>2, <2>4 DEF OwnerInv
  <2>7. ASSUME NEW x \in listed'
        PROVE  x \in live' /\ owner'[x] \in Nodes /\ node'[owner'[x]] = "live"
    BY <2>1, <2>2, <2>3, <2>4 DEF OwnerInv, TypeOK
  <2> QED
    BY <2>5, <2>6, <2>7 DEF OwnerInv
<1>5. ASSUME NEW c \in Clocks, CreateClock(c)
      PROVE  OwnerInv'
  <2>1. /\ there' = there \cup {c} /\ live' = live \cup {c} /\ finalised' = finalised
        /\ base' = [h \in Handles |-> IF h \in {c} THEN None ELSE base[h]]
    BY <1>5 DEF CreateClock, NewInstance
  <2>2. UNCHANGED <<node, rate, owner, kind, listed>> /\ \A n \in Nodes : c # ClockOf[n]
    BY <1>5 DEF CreateClock
  <2> QED
    BY <2>1, <2>2 DEF OwnerInv, TypeOK
<1>6. ASSUME NEW n \in Nodes, CreateNode(n)
      PROVE  OwnerInv'
  <2>1. /\ there' = there \cup {n, ClockOf[n]} /\ live' = live \cup {n, ClockOf[n]}
        /\ finalised' = finalised
        /\ base' = [h \in Handles |-> IF h \in {n, ClockOf[n]} THEN None ELSE base[h]]
    BY <1>6 DEF CreateNode, NewInstance
  <2>2. UNCHANGED <<rate, owner, kind, listed>> /\ node' = [node EXCEPT ![n] = "live"]
    BY <1>6 DEF CreateNode
  <2>3. ASSUME NEW m \in Nodes
        PROVE  /\ node'[m] = "none" => {m, ClockOf[m]} \cap (there' \cup finalised') = {}
               /\ m \in live' => node'[m] = "live"
               /\ node'[m] = "destroyed" => rate'[m] \notin {"pending", "live"}
    <3>1. CASE m = n
      BY <2>2, <3>1 DEF TypeOK
    <3>2. CASE m # n
      BY <2>1, <2>2, <3>2 DEF TypeOK, OwnerInv
    <3> QED
      BY <3>1, <3>2
  <2>4. ASSUME NEW e \in Entities \cap live'
        PROVE  /\ kind'[e] # "none"
               /\ kind'[e] \in {"child", "action"} => base'[e] = owner'[e] /\ owner'[e] \in Nodes
               /\ kind'[e] = "guard" => base'[e] = None
               /\ kind'[e] = "timer" => base'[e] \in Clocks /\ e \in listed'
    BY <2>1, <2>2 DEF OwnerInv
  <2>5. ASSUME NEW e \in listed'
        PROVE  e \in live' /\ owner'[e] \in Nodes /\ node'[owner'[e]] = "live"
    BY <2>1, <2>2 DEF OwnerInv, TypeOK
  <2> QED
    BY <2>3, <2>4, <2>5 DEF OwnerInv
<1>7. ASSUME NEW n \in Nodes, Spin(n)
      PROVE  OwnerInv'
  BY <1>7 DEF Spin, OwnerInv, TypeOK
<1>8. ASSUME NEW n \in Nodes, Stop(n)
      PROVE  OwnerInv'
  BY <1>8 DEF Stop, OwnerInv, TypeOK
<1>9. ASSUME NEW n \in Nodes, CreateRate(n)
      PROVE  OwnerInv'
  BY <1>9 DEF CreateRate, OwnerInv, TypeOK
<1>10. ASSUME NEW n \in Nodes, RateReady(n)
      PROVE  OwnerInv'
  BY <1>10 DEF RateReady, OwnerInv, TypeOK
<1>11. ASSUME NEW n \in Nodes, DestroyNode(n)
      PROVE  OwnerInv'
  BY <1>11, OwnerDestroy DEF DestroyNode
<1>12. ASSUME StopReturns
      PROVE  OwnerInv'
  <2>1. stack[1].node \in Nodes
    BY <1>12, StoppedIsNode DEF StopReturns
  <2> QED
    BY <1>12, <2>1, OwnerFinish DEF StopReturns
<1>13. ASSUME InitContext
      PROVE  OwnerInv'
  BY <1>13 DEF InitContext, OwnerInv, TypeOK
<1>14. ASSUME InitReturns
      PROVE  OwnerInv'
  BY <1>14 DEF InitReturns, OwnerInv, TypeOK
<1>15. ASSUME InitFails
      PROVE  OwnerInv'
  BY <1>15 DEF InitFails, Begin, OwnerInv, TypeOK
<1>16. ASSUME Shutdown
      PROVE  OwnerInv'
  BY <1>16 DEF Shutdown, Begin, OwnerInv, TypeOK
<1>17. ASSUME ShutdownNode
      PROVE  OwnerInv'
  <2>1. Head(stack[1].rest) \in Nodes
    BY <1>17, NextIsNode DEF ShutdownNode
  <2> QED
    BY <1>17, <2>1, OwnerDestroy DEF ShutdownNode
<1>18. ASSUME ShutdownReturns
      PROVE  OwnerInv'
  BY <1>18 DEF ShutdownReturns, OwnerInv, TypeOK
<1>19. CASE UNCHANGED vars
  BY <1>19 DEF vars, OwnerInv
<1> QED
  BY <1>1, <1>2, <1>3, <1>4, <1>5, <1>6, <1>7, <1>8, <1>9,
     <1>10, <1>11, <1>12, <1>13, <1>14, <1>15, <1>16, <1>17, <1>18, <1>19 DEF Next

-------------------------------------------------------------------------------
(* Calls of shutdown() and destroy() *)

\* A stack with one more call.
LEMMA PushIs ==
  ASSUME NEW frame \in Frames, NEW below \in Seq(Frames)
  PROVE  /\ Len(<<frame>> \o below) = Len(below) + 1
         /\ (<<frame>> \o below)[1] = frame
         /\ \A i \in 2 .. Len(below) + 1 : (<<frame>> \o below)[i] = below[i - 1]
  OBVIOUS

\* Who is to be destroyed still is when another call begins.
LEMMA DoomedPush ==
  ASSUME NEW frame \in Frames, NEW below \in Seq(Frames), NEW n \in Nodes,
         NEW i \in 1 .. Len(below), Doomed(n, below, i)
  PROVE  Doomed(n, <<frame>> \o below, i + 1)
<1> DEFINE calls == <<frame>> \o below
<1>1. \A j \in 1 .. Len(below) : calls[j + 1] = below[j]
  BY PushIs
<1> HIDE DEF calls
<1>2. CASE At(below[i].rest, n) # {}
  <2>1. calls[i + 1] = below[i]
    BY <1>1
  <2>2. Doomed(n, calls, i + 1)
    BY <1>2, <2>1 DEF Doomed
  <2> QED
    BY <2>2 DEF calls
<1>3. CASE At(below[i].rest, n) = {}
  <2>1. PICK j \in 1 .. i - 1 : below[j].call = "destroy" /\ below[j].node = n
    BY <1>3 DEF Doomed
  <2>2. calls[j + 1].call = "destroy" /\ calls[j + 1].node = n /\ j + 1 \in 1 .. (i + 1) - 1
    BY <1>1, <2>1
  <2>3. Doomed(n, calls, i + 1)
    BY <2>2 DEF Doomed
  <2> QED
    BY <2>3 DEF calls
<1> QED
  BY <1>2, <1>3 DEF calls

\* The calls of a stack are going to destroy all nodes that they found, but for n.
Rest(calls, n) ==
  \A i \in 1 .. Len(calls) : calls[i].call = "shutdown" =>
    \A m \in Nodes \ late : node[m] = "live" /\ m # n => Doomed(m, calls, i)

\* The end of destroy() leaves its node out.
LEMMA FinishIs ==
  ASSUME TypeOK, StackInv, NEW n \in Nodes, Finish(n), UNCHANGED isShutdown
  PROVE  /\ \A m \in Nodes : node'[m] = "live" => node[m] = "live" /\ m # n
         /\ \A m \in Nodes : node'[m] = "live" => At(nodes', m) # {}
         /\ isShutdown' => \A m \in Nodes \ late' : node'[m] # "live"
         /\ late' = late
<1>1. \A m \in Nodes : node'[m] = "live" => node[m] = "live" /\ m # n
  BY DEF Finish, TypeOK
<1>2. \A m \in Nodes : m # n /\ At(nodes, m) # {} => At(nodes', m) # {}
  BY WithoutKeeps DEF Finish, TypeOK
<1> QED
  BY <1>1, <1>2 DEF Finish, StackInv

\* A call of destroy() takes over its node from the calls below.
LEMMA StackDestroy ==
  ASSUME TypeOK, StackInv, NEW n \in Nodes, NEW below \in Seq(Frames), Rest(below, n),
         Destroy(n, below), UNCHANGED isShutdown
  PROVE  StackInv'
<1>1. CASE n \in spinning /\ ~Destroying(n)
  <2> DEFINE frame == [call |-> "destroy", node |-> n, rest |-> <<>>]
             calls == <<frame>> \o below
  <2>1. frame \in Frames /\ frame.call = "destroy" /\ frame.node = n
    BY DEF Frames
  <2>2. stack' = calls /\ UNCHANGED <<node, nodes, late>>
    BY <1>1 DEF Destroy
  <2> HIDE DEF frame
  <2>3. /\ Len(calls) = Len(below) + 1 /\ calls[1] = frame
        /\ \A i \in 2 .. Len(below) + 1 : calls[i] = below[i - 1]
    BY <2>1, PushIs
  <2>4. ASSUME NEW i \in 1 .. Len(calls), calls[i].call = "shutdown",
               NEW m \in Nodes \ late, node[m] = "live"
        PROVE  Doomed(m, calls, i)
    <3>1. i \in 2 .. Len(below) + 1 /\ Len(below) \in Nat
      BY <2>1, <2>3, <2>4
    <3>2. CASE m = n
      <4>1. 1 \in 1 .. i - 1
        BY <3>1
      <4> QED
        BY <2>1, <2>3, <3>2, <4>1 DEF Doomed
    <3>3. CASE m # n
      <4>1. i - 1 \in 1 .. Len(below) /\ below[i - 1].call = "shutdown"
        BY <2>3, <2>4, <3>1
      <4>2. Doomed(m, below, i - 1)
        BY <2>4, <3>3, <4>1 DEF Rest
      <4>3. Doomed(m, calls, (i - 1) + 1)
        BY <2>1, <4>1, <4>2, DoomedPush
      <4> QED
        BY <3>1, <4>3
    <3> QED
      BY <3>2, <3>3
  <2> HIDE DEF calls
  <2> QED
    BY <2>2, <2>4 DEF StackInv, Doomed
<1>2. CASE ~(n \in spinning /\ ~Destroying(n))
  <2>1. Finish(n) /\ stack' = below
    BY <1>2 DEF Destroy
  <2>2. /\ \A m \in Nodes : node'[m] = "live" => node[m] = "live" /\ m # n
        /\ \A m \in Nodes : node'[m] = "live" => At(nodes', m) # {}
        /\ isShutdown' => \A m \in Nodes \ late' : node'[m] # "live"
        /\ late' = late
    BY <2>1, FinishIs
  <2> QED
    BY <2>1, <2>2 DEF StackInv, Rest, Doomed
<1> QED
  BY <1>1, <1>2

\* shutdown() begins with all nodes.
LEMMA StackBegin ==
  ASSUME TypeOK, StackInv, Begin, UNCHANGED <<isShutdown, node, nodes, late>>
  PROVE  StackInv'
<1> DEFINE frame == [call |-> "shutdown", node |-> None, rest |-> nodes]
           calls == <<frame>> \o stack
<1>1. frame \in Frames /\ frame.rest = nodes
  BY DEF Frames, TypeOK
<1>2. stack' = calls /\ stack \in Seq(Frames)
  BY DEF Begin, TypeOK
<1> HIDE DEF frame
<1>3. /\ Len(calls) = Len(stack) + 1 /\ calls[1] = frame
      /\ \A i \in 2 .. Len(stack) + 1 : calls[i] = stack[i - 1]
  BY <1>1, <1>2, PushIs
<1>4. ASSUME NEW i \in 1 .. Len(calls), calls[i].call = "shutdown",
             NEW m \in Nodes \ late, node[m] = "live"
      PROVE  Doomed(m, calls, i)
  <2>1. CASE i = 1
    BY <1>1, <1>3, <1>4, <2>1 DEF Doomed, StackInv
  <2>2. CASE i # 1
    <3>1. i - 1 \in 1 .. Len(stack) /\ stack[i - 1].call = "shutdown"
      BY <1>2, <1>3, <1>4, <2>2
    <3>2. Doomed(m, stack, i - 1)
      BY <1>4, <3>1 DEF StackInv
    <3>3. Doomed(m, calls, (i - 1) + 1)
      BY <1>1, <1>2, <3>1, <3>2, DoomedPush
    <3> QED
      BY <3>3
  <2> QED
    BY <2>1, <2>2
<1> HIDE DEF calls
<1>5. /\ \A m \in Nodes : node'[m] = "live" => At(nodes', m) # {}
      /\ isShutdown' => \A m \in Nodes \ late' : node'[m] # "live"
  BY DEF StackInv
<1>6. \A i \in 1 .. Len(stack') : stack'[i].call = "shutdown" =>
        \A m \in Nodes \ late' : node'[m] = "live" => Doomed(m, stack', i)
  BY <1>2, <1>4
<1> QED
  BY <1>5, <1>6 DEF StackInv, Doomed

\* Every step keeps the nodes that are left to a shutdown() under way.
LEMMA StackKept ==
  ASSUME TypeOK, StackInv, [Next]_vars
  PROVE  StackInv'
<1>1. ASSUME NEW h \in Handles, Collect(h)
      PROVE  StackInv'
  BY <1>1 DEF Collect, InUserCode, StackInv, Doomed
<1>2. ASSUME NEW e \in Entities, DestroyEntity(e)
      PROVE  StackInv'
  BY <1>2 DEF DestroyEntity, StackInv, Doomed
<1>3. ASSUME NEW e \in Entities, NEW n \in Nodes,
             NEW k \in {"child", "guard", "action"}, CreateEntity(e, n, k)
      PROVE  StackInv'
  BY <1>3 DEF CreateEntity, StackInv, Doomed
<1>4. ASSUME NEW e \in Entities, NEW n \in Nodes, NEW c \in Clocks, CreateTimer(e, n, c)
      PROVE  StackInv'
  BY <1>4 DEF CreateTimer, StackInv, Doomed
<1>5. ASSUME NEW c \in Clocks, CreateClock(c)
      PROVE  StackInv'
  BY <1>5 DEF CreateClock, StackInv, Doomed
<1>6. ASSUME NEW n \in Nodes, CreateNode(n)
      PROVE  StackInv'
  <2>1. /\ node' = [node EXCEPT ![n] = "live"] /\ nodes' = Append(nodes, n)
        /\ late' = IF \E i \in 1 .. Len(stack) : stack[i].call = "shutdown"
                   THEN late \cup {n} ELSE late
        /\ UNCHANGED <<stack, isShutdown>> /\ ~isShutdown
    BY <1>6 DEF CreateNode
  <2>2. \A m \in Nodes : node'[m] = "live" => At(nodes', m) # {}
    <3> SUFFICES ASSUME NEW m \in Nodes, node'[m] = "live"
                 PROVE  \E k \in 1 .. Len(nodes') : nodes'[k] = m
      BY DEF At
    <3>1. /\ Len(nodes') = Len(nodes) + 1 /\ nodes'[Len(nodes) + 1] = n
          /\ \A k \in 1 .. Len(nodes) : nodes'[k] = nodes[k]
          /\ Len(nodes) \in Nat
      BY <2>1 DEF TypeOK
    <3>2. CASE m = n
      BY <3>1, <3>2
    <3>3. CASE m # n
      <4>1. node[m] = "live"
        BY <2>1, <3>3 DEF TypeOK
      <4>2. PICK k \in 1 .. Len(nodes) : nodes[k] = m
        BY <4>1 DEF StackInv, At
      <4> QED
        BY <3>1, <4>2
    <3> QED
      BY <3>2, <3>3
  <2>3. ASSUME NEW i \in 1 .. Len(stack), stack[i].call = "shutdown",
               NEW m \in Nodes \ late', node'[m] = "live"
        PROVE  Doomed(m, stack, i)
    BY <2>1, <2>3 DEF StackInv, TypeOK
  <2> QED
    BY <2>1, <2>2, <2>3 DEF StackInv, Doomed
<1>7. ASSUME NEW n \in Nodes, Spin(n)
      PROVE  StackInv'
  BY <1>7 DEF Spin, StackInv, Doomed
<1>8. ASSUME NEW n \in Nodes, Stop(n)
      PROVE  StackInv'
  BY <1>8 DEF Stop, StackInv, Doomed
<1>9. ASSUME NEW n \in Nodes, CreateRate(n)
      PROVE  StackInv'
  BY <1>9 DEF CreateRate, StackInv, Doomed
<1>10. ASSUME NEW n \in Nodes, RateReady(n)
      PROVE  StackInv'
  BY <1>10 DEF RateReady, StackInv, Doomed
<1>11. ASSUME NEW n \in Nodes, DestroyNode(n)
      PROVE  StackInv'
  <2>1. Destroy(n, stack) /\ stack \in Seq(Frames)
    BY <1>11 DEF DestroyNode, TypeOK
  <2>2. UNCHANGED isShutdown
    BY <2>1 DEF Destroy, Finish
  <2>3. Rest(stack, n)
    BY DEF Rest, StackInv
  <2> QED
    BY <2>1, <2>2, <2>3, StackDestroy
<1>12. ASSUME StopReturns
      PROVE  StackInv'
  <2>1. /\ stack[1].node \in Nodes /\ Finish(stack[1].node) /\ stack[1].call = "destroy"
        /\ stack' = Tail(stack) /\ stack # <<>> /\ stack \in Seq(Frames)
    BY <1>12, StoppedIsNode DEF StopReturns, TypeOK
  <2>2. UNCHANGED isShutdown
    BY <2>1 DEF Finish
  <2>3. /\ \A m \in Nodes : node'[m] = "live" => node[m] = "live" /\ m # stack[1].node
        /\ \A m \in Nodes : node'[m] = "live" => At(nodes', m) # {}
        /\ isShutdown' => \A m \in Nodes \ late' : node'[m] # "live"
        /\ late' = late
    BY <2>1, <2>2, FinishIs
  <2>4. /\ Len(stack') = Len(stack) - 1
        /\ \A i \in 1 .. Len(stack') : stack'[i] = stack[i + 1]
        /\ Len(stack) \in Nat
    BY <2>1, HeadTailProperties
  <2>5. ASSUME NEW i \in 1 .. Len(stack'), stack'[i].call = "shutdown",
               NEW m \in Nodes \ late', node'[m] = "live"
        PROVE  Doomed(m, stack', i)
    <3>1. i + 1 \in 1 .. Len(stack) /\ stack[i + 1].call = "shutdown"
      BY <2>4, <2>5
    <3>2. Doomed(m, stack, i + 1)
      BY <2>3, <2>5, <3>1 DEF StackInv
    <3>3. CASE At(stack[i + 1].rest, m) # {}
      BY <2>4, <3>3 DEF Doomed
    <3>4. CASE At(stack[i + 1].rest, m) = {}
      <4>1. PICK j \in 1 .. (i + 1) - 1 : stack[j].call = "destroy" /\ stack[j].node = m
        BY <3>2, <3>4 DEF Doomed
      <4>2. j # 1
        BY <2>3, <2>5, <4>1
      <4>3. j - 1 \in 1 .. i - 1 /\ j - 1 \in 1 .. Len(stack')
        BY <4>1, <4>2
      <4>4. stack'[j - 1] = stack[j]
        BY <2>4, <4>1, <4>3
      <4> QED
        BY <4>1, <4>3, <4>4 DEF Doomed
    <3> QED
      BY <3>3, <3>4
  <2> QED
    BY <2>3, <2>5 DEF StackInv, Doomed
<1>13. ASSUME InitContext
      PROVE  StackInv'
  BY <1>13 DEF InitContext, StackInv, Doomed
<1>14. ASSUME InitReturns
      PROVE  StackInv'
  BY <1>14 DEF InitReturns, StackInv, Doomed
<1>15. ASSUME InitFails
      PROVE  StackInv'
  <2>1. CASE Begin
    BY <1>15, <2>1, StackBegin DEF InitFails
  <2>2. CASE UNCHANGED stack
    BY <1>15, <2>2 DEF InitFails, StackInv, Doomed
  <2> QED
    BY <1>15, <2>1, <2>2 DEF InitFails
<1>16. ASSUME Shutdown
      PROVE  StackInv'
  BY <1>16, StackBegin DEF Shutdown
<1>17. ASSUME ShutdownNode
      PROVE  StackInv'
  <2> DEFINE frame == [stack[1] EXCEPT !.rest = Tail(stack[1].rest)]
             n == Head(stack[1].rest)
             below == <<frame>> \o Tail(stack)
  <2>1. /\ stack # <<>> /\ stack[1].call = "shutdown" /\ stack[1].rest # <<>>
        /\ Destroy(n, below) /\ stack \in Seq(Frames)
    BY <1>17 DEF ShutdownNode, TypeOK
  <2>2. stack[1].rest \in Seq(Nodes) /\ n \in Nodes
    BY <2>1, NextIsNode
  <2>3. /\ Len(Tail(stack[1].rest)) = Len(stack[1].rest) - 1
        /\ \A k \in 1 .. Len(Tail(stack[1].rest)) : Tail(stack[1].rest)[k] = stack[1].rest[k + 1]
        /\ Tail(stack[1].rest) \in Seq(Nodes) /\ Len(stack[1].rest) \in Nat
        /\ n = stack[1].rest[1]
    BY <2>1, <2>2, HeadTailProperties
  <2>4. /\ Len(Tail(stack)) = Len(stack) - 1 /\ Tail(stack) \in Seq(Frames)
        /\ \A k \in 1 .. Len(Tail(stack)) : Tail(stack)[k] = stack[k + 1]
        /\ Len(stack) \in Nat \ {0}
    BY <2>1, HeadTailProperties
  <2>5. frame \in Frames /\ frame.call = "shutdown" /\ frame.rest = Tail(stack[1].rest)
    <3>1. stack[1] \in Frames
      BY <2>1
    <3>2. stack[1] \in [call : {"shutdown"}, node : {None}, rest : Seq(Nodes)]
      BY <2>1, <3>1 DEF Frames
    <3>3. frame \in [call : {"shutdown"}, node : {None}, rest : Seq(Nodes)]
      BY <2>3, <3>2
    <3> QED
      BY <3>2, <3>3 DEF Frames
  <2>6. \A m \in Nodes : m # n /\ At(stack[1].rest, m) # {} => At(frame.rest, m) # {}
    <3> SUFFICES ASSUME NEW m \in Nodes, m # n, NEW k \in 1 .. Len(stack[1].rest),
                        stack[1].rest[k] = m
                 PROVE  \E l \in 1 .. Len(frame.rest) : frame.rest[l] = m
      BY DEF At
    <3>1. k - 1 \in 1 .. Len(frame.rest)
      BY <2>3, <2>5
    <3>2. frame.rest[k - 1] = m
      BY <2>3, <2>5, <3>1
    <3> QED
      BY <3>1, <3>2
  <2> HIDE DEF frame, n
  <2>7. /\ Len(below) = Len(stack) /\ below[1] = frame /\ below \in Seq(Frames)
        /\ \A k \in 2 .. Len(stack) : below[k] = stack[k]
    <3>1. below \in Seq(Frames) /\ Len(below) = Len(Tail(stack)) + 1 /\ below[1] = frame
      BY <2>4, <2>5
    <3>2. \A k \in 2 .. Len(Tail(stack)) + 1 : below[k] = Tail(stack)[k - 1]
      BY <2>4, <2>5, PushIs
    <3> QED
      BY <2>4, <3>1, <3>2
  <2> HIDE DEF below
  <2>8. Rest(below, n)
    <3> SUFFICES ASSUME NEW i \in 1 .. Len(below), below[i].call = "shutdown",
                        NEW m \in Nodes \ late, node[m] = "live", m # n
                 PROVE  Doomed(m, below, i)
      BY DEF Rest
    <3>1. stack[i].call = "shutdown" /\ i \in 1 .. Len(stack)
      BY <2>1, <2>7
    <3>2. Doomed(m, stack, i)
      BY <3>1 DEF StackInv
    <3>3. CASE At(stack[i].rest, m) # {}
      BY <2>6, <2>7, <3>3 DEF Doomed
    <3>4. CASE At(stack[i].rest, m) = {}
      <4>1. PICK j \in 1 .. i - 1 : stack[j].call = "destroy" /\ stack[j].node = m
        BY <3>2, <3>4 DEF Doomed
      <4>2. j \in 2 .. Len(stack)
        BY <2>1, <2>7, <4>1
      <4> QED
        BY <2>7, <4>1, <4>2 DEF Doomed
    <3> QED
      BY <3>3, <3>4
  <2>9. UNCHANGED isShutdown
    BY <2>1 DEF Destroy, Finish
  <2> QED
    BY <2>1, <2>2, <2>7, <2>8, <2>9, StackDestroy
<1>18. ASSUME ShutdownReturns
      PROVE  StackInv'
  <2>1. /\ stack # <<>> /\ stack[1].call = "shutdown" /\ stack[1].rest = <<>>
        /\ stack \in Seq(Frames) /\ UNCHANGED <<node, nodes, late>>
    BY <1>18 DEF ShutdownReturns, TypeOK
  <2>2. \A m \in Nodes \ late : node[m] # "live"
    <3> SUFFICES ASSUME NEW m \in Nodes \ late, node[m] = "live"
                 PROVE  FALSE
      OBVIOUS
    <3>1. Doomed(m, stack, 1)
      BY <2>1 DEF StackInv
    <3> QED
      BY <2>1, <3>1 DEF Doomed, At
  <2> QED
    BY <2>1, <2>2 DEF StackInv
<1>19. CASE UNCHANGED vars
  BY <1>19 DEF vars, StackInv, Doomed
<1> QED
  BY <1>1, <1>2, <1>3, <1>4, <1>5, <1>6, <1>7, <1>8, <1>9,
     <1>10, <1>11, <1>12, <1>13, <1>14, <1>15, <1>16, <1>17, <1>18, <1>19 DEF Next

-------------------------------------------------------------------------------
(* The theorems *)

\* The invariant holds throughout.
LEMMA Invariance == Spec => []IInv
<1>1. Init => IInv
  BY DEF Init, IInv, TreeInv, OwnerInv, StackInv
<1>2. TypeOK /\ IInv /\ [Next]_vars => IInv'
  BY TreeKept, OwnerKept, StackKept DEF IInv
<1> QED
  BY <1>1, <1>2, TypeCorrect, PTL DEF Spec

\* src/rcl_handle.cpp finalises every native object once, and before the node or clock it
\* was made with, for any number of handles that are released by hand, with their parent or
\* by the garbage collector in any order.
THEOREM FinalisedOnce == Spec => []FinalisedInOrder
<1>1. IInv => FinalisedInOrder
  BY DEF IInv, TreeInv, FinalisedInOrder
<1> QED
  BY <1>1, Invariance, PTL

\* No RclHandle refers to one that has been deleted.
THEOREM LinksHold == Spec => []NoDangling
<1>1. TypeOK /\ IInv => NoDangling
  BY DEF TypeOK, IInv, TreeInv, NoDangling
<1> QED
  BY <1>1, TypeCorrect, Invariance, PTL

\* What a node has in its arrays has a native object, whatever the garbage collector takes.
THEOREM ListedHold == Spec => []ListedAreLive
<1>1. IInv => ListedAreLive
  BY DEF IInv, OwnerInv, ListedAreLive
<1> QED
  BY <1>1, Invariance, PTL

\* Nothing that was made with a node is left when lib/node.js has destroyed it.
THEOREM NodesEndClean == Spec => []NothingOutlivesNode
<1>1. TypeOK /\ IInv => NothingOutlivesNode
  BY DEF TypeOK, IInv, TreeInv, OwnerInv, NothingOutlivesNode
<1> QED
  BY <1>1, TypeCorrect, Invariance, PTL

\* A context that is shut down has no live node but those that user code made meanwhile,
\* however calls of shutdown() and destroy() nest.
THEOREM ContextsEndClean == Spec => []ShutdownEndsNodes
<1>1. IInv => ShutdownEndsNodes
  BY DEF IInv, StackInv, ShutdownEndsNodes
<1> QED
  BY <1>1, Invariance, PTL

===============================================================================
