------------------------------- MODULE NodeProofs -------------------------------
(***************************************************************************)
(* Theorems about a node: its parameters for any names, values,            *)
(* descriptors, callbacks and depth of calls (Parameters), the clocks of   *)
(* its time source (SimTime), and its life cycle (Lifecycle).              *)
(*                                                                         *)
(* The argument: a change that has been validated fits the descriptors     *)
(* until it is assigned, for calls made by callbacks can neither remove    *)
(* nor add a descriptor (Sound); the time source is the last callback and  *)
(* no iteration passes it over (TimeInv).  The time source tells every     *)
(* clock that it has, so with the switch they share the clocks follow the  *)
(* parameter.  A sleep is followed from its first question to its clock:   *)
(* whatever is on its way to it will wake it (SleepInv).  A transition of  *)
(* a managed node is a move from where the call began, told when it ends   *)
(* (LifeInv).                                                              *)
(***************************************************************************)
EXTENDS Parameters, SimTime, Lifecycle, SequenceTheorems, TLAPS

USE NamesAssumption, ValuesAssumption, AtomsAssumption, NoneAssumption, BoundAssumption

-------------------------------------------------------------------------------
(* The stack of calls *)

\* A stack with one more call.
LEMMA PushIs ==
  ASSUME NEW f \in Frames, NEW calls \in Seq(Frames)
  PROVE  /\ <<f>> \o calls \in Seq(Frames)
         /\ Len(<<f>> \o calls) = Len(calls) + 1
         /\ (<<f>> \o calls)[1] = f
         /\ \A i \in 2 .. Len(calls) + 1 : (<<f>> \o calls)[i] = calls[i - 1]
  OBVIOUS

\* And with one less.
LEMMA PopIs ==
  ASSUME NEW calls \in Seq(Frames), calls # <<>>
  PROVE  /\ calls[1] \in Frames /\ Tail(calls) \in Seq(Frames)
         /\ Len(Tail(calls)) = Len(calls) - 1 /\ Len(calls) \in Nat \ {0}
         /\ \A i \in 1 .. Len(Tail(calls)) : Tail(calls)[i] = calls[i + 1]
  BY HeadTailProperties

\* A call that goes on with another list or at another callback.
CheckFrame(list, i) ==
  [Top EXCEPT !.list = list, !.i = i,
              !.at = IF i <= Len(checks) /\ checks[i] # TimeSource THEN "callback" ELSE "checks"]

LEMMA CheckIs ==
  ASSUME TypeOK, stack # <<>>, NEW list \in [Names -> Values \cup {NotSet, None}],
         NEW i \in Nat, Check(list, i)
  PROVE  /\ CheckFrame(list, i) \in Frames
         /\ CheckFrame(list, i).own = Top.own
         /\ CheckFrame(list, i).list = list /\ CheckFrame(list, i).i = i
         /\ CheckFrame(list, i).at = IF i <= Len(checks) /\ checks[i] # TimeSource
                                       THEN "callback" ELSE "checks"
         /\ stack' = <<CheckFrame(list, i)>> \o Tail(stack)
         /\ stack' \in Seq(Frames)
<1>1. Top \in Frames /\ Tail(stack) \in Seq(Frames)
  BY PopIs DEF TypeOK, Top
<1>2. /\ CheckFrame(list, i) \in Frames
      /\ CheckFrame(list, i).own = Top.own
      /\ CheckFrame(list, i).list = list /\ CheckFrame(list, i).i = i
      /\ CheckFrame(list, i).at = IF i <= Len(checks) /\ checks[i] # TimeSource
                                    THEN "callback" ELSE "checks"
  BY <1>1 DEF CheckFrame, Frames
<1>3. stack' = <<CheckFrame(list, i)>> \o Tail(stack)
  BY DEF Check, CheckFrame
<1> HIDE DEF CheckFrame
<1> QED
  BY <1>1, <1>2, <1>3, PushIs

\* A new call.
LEMMA EnterIs ==
  ASSUME TypeOK, NEW list \in Lists, NEW own \in SUBSET Names, Enter(list, own)
  PROVE  /\ [list |-> list, own |-> own, at |-> "pre", i |-> 0] \in Frames
         /\ stack' = <<[list |-> list, own |-> own, at |-> "pre", i |-> 0]>> \o stack
         /\ stack' \in Seq(Frames)
<1> DEFINE f == [list |-> list, own |-> own, at |-> "pre", i |-> 0]
<1>1. f \in Frames
  BY DEF Frames, Lists
<1>2. stack' = <<f>> \o stack
  BY DEF Enter
<1> HIDE DEF f
<1>3. stack' \in Seq(Frames)
  BY <1>1, <1>2, PushIs DEF TypeOK
<1> QED
  BY <1>1, <1>2, <1>3 DEF f

\* A call that only has its post-set callbacks to make.
LEMMA DoneIs == Done \in Frames /\ Done.own = {} /\ Done.at = "post" /\ Done.list = NoList
  BY DEF Done, NoList, Frames

-------------------------------------------------------------------------------
(* Types *)

\* Values and descriptors are told apart.
LEMMA AtomsAre ==
  /\ \A v \in Values : v # None /\ v # NotSet
  /\ \A d \in AllDescriptors : d # None
  /\ Bool(TRUE) \in Values /\ Bool(FALSE) \in Values /\ Bool(TRUE) # Bool(FALSE)
  /\ None # NotSet
  /\ \A v \in Values \cup {NotSet} : FromParameter(v) \in AllDescriptors
<1>1. Bool(TRUE) # Bool(FALSE)
  BY DEF Bool
<1>2. Bool(TRUE) \in Values /\ Bool(FALSE) \in Values
  BY DEF Values
<1> QED
  BY <1>1, <1>2 DEF AllDescriptors

\* A call that returns without success keeps the types.
LEMMA FailsTyped ==
  ASSUME TypeOK, stack # <<>>, Fails
  PROVE  TypeOK'
  BY PopIs DEF TypeOK, Fails

\* Every step keeps the types.
LEMMA TypeKept ==
  ASSUME TypeOK, [Next]_vars
  PROVE  TypeOK'
<1>1. ASSUME NEW l \in Lists, SetParameters(l)
      PROVE  TypeOK'
  BY <1>1, EnterIs DEF SetParameters, TypeOK
<1>2. ASSUME NEW l \in Lists, PreCallbacks(l)
      PROVE  TypeOK'
  <2>1. l \in [Names -> Values \cup {NotSet, None}]
    BY DEF Lists
  <2>2. CASE Fails
    BY <1>2, <2>2, FailsTyped DEF PreCallbacks
  <2>3. CASE Check(l, 1) /\ UNCHANGED <<parameters, descriptors, checks, told, active>>
    <3>1. stack' \in Seq(Frames)
      BY <1>2, <2>1, <2>3, CheckIs DEF PreCallbacks
    <3> QED
      BY <2>3, <3>1 DEF TypeOK
  <2> QED
    BY <1>2, <2>2, <2>3 DEF PreCallbacks
<1>3. ASSUME NEW l \in Lists,
             NEW g \in {None} \cup [Names -> Descriptors], DeclareParameters(l, g)
      PROVE  TypeOK'
  <2>1. Named(l) \in SUBSET Names /\ \A n \in Named(l) : l[n] \in Values \cup {NotSet}
    BY DEF Named, Lists
  <2>2. stack' \in Seq(Frames)
    BY <1>3, <2>1, EnterIs DEF DeclareParameters
  <2>3. \A n \in Named(l) : IF g = None THEN FromParameter(l[n]) \in AllDescriptors
                            ELSE g[n] \in AllDescriptors
    BY <2>1, AtomsAre DEF AllDescriptors
  <2>4. descriptors' \in [Names -> AllDescriptors \cup {None}]
    BY <1>3, <2>1, <2>3 DEF DeclareParameters, TypeOK
  <2> QED
    BY <1>3, <2>2, <2>4 DEF DeclareParameters, TypeOK
<1>4. ASSUME NEW n \in Names, UndeclareParameter(n)
      PROVE  TypeOK'
  BY <1>4 DEF UndeclareParameter, TypeOK
<1>5. ASSUME PreRejects
      PROVE  TypeOK'
  BY <1>5, FailsTyped DEF PreRejects
<1>6. ASSUME CheckAccepts
      PROVE  TypeOK'
  <2>1. Top \in Frames
    BY <1>6, PopIs DEF CheckAccepts, TypeOK, Top
  <2>2. Top.list \in [Names -> Values \cup {NotSet, None}] /\ Top.i + 1 \in Nat
    BY <2>1 DEF Frames
  <2>3. stack' \in Seq(Frames)
    BY <1>6, <2>2, CheckIs DEF CheckAccepts
  <2> QED
    BY <1>6, <2>3 DEF CheckAccepts, TypeOK
<1>7. ASSUME CheckRejects
      PROVE  TypeOK'
  BY <1>7, FailsTyped DEF CheckRejects
<1>8. ASSUME TimeSourceCheck
      PROVE  TypeOK'
  <2>1. Top \in Frames
    BY <1>8, PopIs DEF TimeSourceCheck, TypeOK, Top
  <2>2. Top.list \in [Names -> Values \cup {NotSet, None}] /\ Top.i + 1 \in Nat
    BY <2>1 DEF Frames
  <2>3. stack' \in Seq(Frames)
    BY <1>8, <2>2, CheckIs DEF TimeSourceCheck
  <2>4. active' \in BOOLEAN
    BY <1>8 DEF TimeSourceCheck, TypeOK
  <2> QED
    BY <1>8, <2>3, <2>4 DEF TimeSourceCheck, TypeOK
<1>9. ASSUME Apply
      PROVE  TypeOK'
  <2>1. Top \in Frames /\ Tail(stack) \in Seq(Frames)
    BY <1>9, PopIs DEF Apply, TypeOK, Top
  <2>2. Top.list \in [Names -> Values \cup {NotSet, None}]
    BY <2>1 DEF Frames
  <2>3. stack' \in Seq(Frames)
    BY <1>9, <2>1, DoneIs, PushIs DEF Apply
  <2>4. /\ parameters' \in [Names -> Values \cup {None}]
        /\ told' \in [Names -> Values \cup {None}]
        /\ descriptors' \in [Names -> AllDescriptors \cup {None}]
    BY <1>9, <2>2 DEF Apply, Named, TypeOK
  <2> QED
    BY <1>9, <2>3, <2>4 DEF Apply, TypeOK
<1>10. ASSUME PostCallbacks
      PROVE  TypeOK'
  BY <1>10, PopIs DEF PostCallbacks, TypeOK
<1>11. ASSUME CallbackThrows
      PROVE  TypeOK'
  BY <1>11, PopIs DEF CallbackThrows, TypeOK
<1>12. ASSUME NEW c \in Callbacks, AddOnSetParametersCallback(c)
      PROVE  TypeOK'
  BY <1>12 DEF AddOnSetParametersCallback, TypeOK
<1>13. ASSUME NEW c \in Callbacks, RemoveOnSetParametersCallback(c)
      PROVE  TypeOK'
  <2>1. PICK k \in 1 .. Len(checks) :
          checks' = SubSeq(checks, 1, k - 1) \o SubSeq(checks, k + 1, Len(checks))
    BY <1>13 DEF RemoveOnSetParametersCallback
  <2>2. checks' \in Seq(Callbacks \cup {TimeSource})
    BY <2>1 DEF TypeOK
  <2> QED
    BY <1>13, <2>2 DEF RemoveOnSetParametersCallback, TypeOK
<1>14. CASE UNCHANGED vars
  BY <1>14 DEF vars, TypeOK
<1> QED
  BY <1>1, <1>2, <1>3, <1>4, <1>5, <1>6, <1>7, <1>8,
     <1>9, <1>10, <1>11, <1>12, <1>13, <1>14 DEF Next

\* Every variable keeps its type.
THEOREM TypeCorrect == Spec => []TypeOK
<1>1. Init => TypeOK
  <2> SUFFICES ASSUME NEW b \in BOOLEAN,
                      parameters = [n \in Names |-> IF n = SimTime THEN Bool(b) ELSE None],
                      descriptors = [n \in Names |-> IF n = SimTime THEN FromParameter(Bool(b))
                                                     ELSE None],
                      checks = <<TimeSource>>, stack = <<>>, told = parameters, active = b
               PROVE  TypeOK
    BY DEF Init
  <2>1. Bool(b) \in Values /\ FromParameter(Bool(b)) \in AllDescriptors
    BY AtomsAre
  <2>2. checks \in Seq(Callbacks \cup {TimeSource}) /\ stack \in Seq(Frames)
    OBVIOUS
  <2> QED
    BY <2>1, <2>2 DEF TypeOK
<1> QED
  BY <1>1, TypeKept, PTL DEF Spec

-------------------------------------------------------------------------------
(* Values *)

\* A stack without calls.
LEMMA EmptyIs ==
  ASSUME NEW calls \in Seq(Frames)
  PROVE  Len(calls) \in Nat /\ (calls = <<>> <=> Len(calls) = 0)
  OBVIOUS

\* What is sound stays so when the innermost call returns.
LEMMA SoundTail ==
  ASSUME NEW calls \in Seq(Frames), calls # <<>>, Sound(calls)
  PROVE  /\ Sound(Tail(calls))
         /\ Fits(calls[1])
         /\ \A j \in 1 .. Len(Tail(calls)) : Below(calls[1], Tail(calls)[j])
<1>1. Len(calls) \in Nat \ {0} /\ Len(Tail(calls)) = Len(calls) - 1
  BY PopIs
<1>2. \A i \in 1 .. Len(Tail(calls)) : Tail(calls)[i] = calls[i + 1] /\ i + 1 \in 2 .. Len(calls)
  BY <1>1, PopIs
<1>3. Fits(calls[1]) /\ \A j \in 2 .. Len(calls) : Below(calls[1], calls[j])
  BY <1>1 DEF Sound
<1>4. ASSUME NEW k \in 1 .. Len(Tail(calls))
      PROVE  /\ Fits(Tail(calls)[k])
             /\ \A j \in k + 1 .. Len(Tail(calls)) : Below(Tail(calls)[k], Tail(calls)[j])
  <2>1. /\ Fits(calls[k + 1])
        /\ \A j \in k + 2 .. Len(calls) : Below(calls[k + 1], calls[j])
    BY <1>1 DEF Sound
  <2>2. \A j \in k + 1 .. Len(Tail(calls)) : j \in 1 .. Len(Tail(calls)) /\ j + 1 \in k + 2 .. Len(calls)
    BY <1>1
  <2> QED
    BY <1>2, <2>1, <2>2
<1> QED
  BY <1>2, <1>3, <1>4 DEF Sound

\* And when a call is made that fits and leaves alone what the others declare.
LEMMA SoundPush ==
  ASSUME NEW calls \in Seq(Frames), Sound(calls), NEW f \in Frames, Fits(f),
         \A j \in 1 .. Len(calls) : Below(f, calls[j])
  PROVE  Sound(<<f>> \o calls)
<1> DEFINE new == <<f>> \o calls
<1>1. /\ Len(calls) \in Nat /\ Len(new) = Len(calls) + 1 /\ new[1] = f
      /\ \A i \in 2 .. Len(calls) + 1 : new[i] = calls[i - 1]
  BY PushIs
<1> HIDE DEF new
<1>2. ASSUME NEW k \in 1 .. Len(new)
      PROVE  Fits(new[k]) /\ \A j \in k + 1 .. Len(new) : Below(new[k], new[j])
  <2>1. CASE k = 1
    <3>1. \A j \in 2 .. Len(new) : j - 1 \in 1 .. Len(calls) /\ new[j] = calls[j - 1]
      BY <1>1
    <3> QED
      BY <1>1, <2>1, <3>1
  <2>2. CASE k # 1
    <3>1. k - 1 \in 1 .. Len(calls) /\ new[k] = calls[k - 1]
      BY <1>1, <2>2
    <3>2. Fits(calls[k - 1]) /\ \A j \in k .. Len(calls) : Below(calls[k - 1], calls[j])
      BY <3>1 DEF Sound
    <3>3. \A j \in k + 1 .. Len(new) : j - 1 \in k .. Len(calls) /\ new[j] = calls[j - 1]
      BY <1>1
    <3> QED
      BY <3>1, <3>2, <3>3
  <2> QED
    BY <2>1, <2>2
<1> QED
  BY <1>2 DEF Sound, new

\* A call within which nothing is declared any more fits in every state.
LEMMA LeanFits ==
  ASSUME NEW f, f.own = {}, ~Checking(f)
  PROVE  Fits(f) /\ Fits(f)' /\ \A outer \in Frames : Below(f, outer)
  BY DEF Fits, Below, Checking

\* A call is as sound as the descriptors are and as its own names have no value.
LEMMA FitsStays ==
  ASSUME descriptors' = descriptors, NEW f, Fits(f), \A n \in f.own : parameters'[n] = None
  PROVE  Fits(f)'
  BY DEF Fits, Checking, DescriptorOf

\* A stack of calls stays sound when descriptors do and no name being declared is given a
\* value.
LEMMA SoundStays ==
  ASSUME descriptors' = descriptors, NEW calls \in Seq(Frames), stack' = calls, Sound(calls),
         \A k \in 1 .. Len(calls) : \A n \in calls[k].own : parameters'[n] = None
  PROVE  Sound(stack)'
<1>1. \A k \in 1 .. Len(calls) : Fits(calls[k])'
  BY FitsStays DEF Sound
<1>2. \A k \in 1 .. Len(calls) : \A j \in k + 1 .. Len(calls) : Below(calls[k], calls[j])
  BY DEF Sound
<1> QED
  BY <1>1, <1>2 DEF Sound, Below, Checking

\* In particular when nothing changes but the calls.
LEMMA OnlyCalls ==
  ASSUME ValueInv, UNCHANGED <<parameters, descriptors, told>>,
         NEW calls \in Seq(Frames), stack' = calls, Sound(calls)
  PROVE  ValueInv'
<1>1. \A k \in 1 .. Len(calls) : \A n \in calls[k].own : parameters'[n] = None
  BY DEF Sound, Fits
<1>2. Sound(stack)'
  BY <1>1, SoundStays
<1> QED
  BY <1>2 DEF ValueInv, Described, EventsTell

\* A call that returns.
LEMMA Returns ==
  ASSUME TypeOK, ValueInv, stack # <<>>, stack' = Tail(stack),
         UNCHANGED <<parameters, descriptors, told>>
  PROVE  ValueInv'
<1>1. Tail(stack) \in Seq(Frames) /\ Sound(Tail(stack))
  BY PopIs, SoundTail DEF TypeOK, ValueInv
<1> QED
  BY <1>1, OnlyCalls

\* What a declaration takes back when it fails has no value.
LEMMA FailsKept ==
  ASSUME TypeOK, ValueInv, stack # <<>>, Fails
  PROVE  ValueInv'
<1>1. /\ Tail(stack) \in Seq(Frames) /\ Sound(Tail(stack)) /\ Fits(Top)
      /\ \A j \in 1 .. Len(Tail(stack)) : Below(Top, Tail(stack)[j])
  BY PopIs, SoundTail DEF TypeOK, ValueInv, Top
<1>2. CASE Top.own = {}
  <2>1. descriptors' = descriptors
    BY <1>2 DEF Fails, TypeOK
  <2> QED
    BY <2>1, Returns DEF Fails
<1>3. CASE Top.own # {}
  <2>1. Len(Tail(stack)) = 0
    <3>1. Len(Tail(stack)) \in Nat
      BY <1>1, EmptyIs
    <3>2. \A j \in 1 .. Len(Tail(stack)) : FALSE
      BY <1>1, <1>3 DEF Below
    <3>3. \A n \in Nat : n # 0 => 1 \in 1 .. n
      OBVIOUS
    <3> QED
      BY <3>1, <3>2, <3>3, Zenon
  <2>2. \A n \in Names : parameters[n] # None => n \notin Top.own
    BY <1>1 DEF Fits
  <2>3. Described' /\ EventsTell'
    BY <2>2 DEF Fails, ValueInv, Described, EventsTell, TypeOK
  <2>4. Sound(stack)'
    <3>1. Len(stack') = 0
      BY <2>1 DEF Fails
    <3> QED
      BY <3>1 DEF Sound
  <2> QED
    BY <2>3, <2>4 DEF ValueInv
<1> QED
  BY <1>2, <1>3

\* A call that goes on to the next on-set callback.
LEMMA GoesOn ==
  ASSUME TypeOK, ValueInv, stack # <<>>, Checking(Top), Check(Top.list, Top.i + 1),
         UNCHANGED <<parameters, descriptors, told>>
  PROVE  ValueInv'
<1>1. /\ Top \in Frames /\ Tail(stack) \in Seq(Frames) /\ Sound(Tail(stack)) /\ Fits(Top)
      /\ \A j \in 1 .. Len(Tail(stack)) : Below(Top, Tail(stack)[j])
  BY PopIs, SoundTail DEF TypeOK, ValueInv, Top
<1>2. Top.list \in [Names -> Values \cup {NotSet, None}] /\ Top.i + 1 \in Nat
  BY <1>1 DEF Frames
<1> DEFINE f == CheckFrame(Top.list, Top.i + 1)
<1>3. /\ f \in Frames /\ f.own = Top.own /\ f.list = Top.list
      /\ stack' = <<f>> \o Tail(stack) /\ stack' \in Seq(Frames)
  BY <1>2, CheckIs
<1> HIDE DEF f
<1>4. Fits(f) /\ \A j \in 1 .. Len(Tail(stack)) : Below(f, Tail(stack)[j])
  BY <1>1, <1>3 DEF Fits, Below
<1>5. Sound(<<f>> \o Tail(stack))
  BY <1>1, <1>3, <1>4, SoundPush
<1> QED
  BY <1>3, <1>5, OnlyCalls

\* What has been validated fits.
LEMMA ValidFits ==
  ASSUME NEW l \in Lists, NEW declaring \in BOOLEAN, Validates(declaring, l), NEW n \in Named(l)
  PROVE  /\ l[n] # NotSet => descriptors[n] # None /\ Accepts(descriptors[n], l[n])
         /\ declaring \/ ~DescriptorOf(n).readOnly
<1>1. l[n] # NotSet => l[n] \in Values
  BY DEF Named, Lists
<1>2. l[n] # NotSet => Accepts(DescriptorOf(n), l[n])
  BY DEF Validates
<1>3. FromParameter(NotSet).type = "not_set"
  BY DEF FromParameter
<1> QED
  BY <1>1, <1>2, <1>3 DEF Validates, DescriptorOf, Accepts

\* Every step keeps the invariant.
LEMMA ValueKept ==
  ASSUME TypeOK, ValueInv, [Next]_vars
  PROVE  ValueInv'
<1>1. ASSUME NEW l \in Lists, SetParameters(l)
      PROVE  ValueInv'
  <2> DEFINE f == [list |-> l, own |-> {}, at |-> "pre", i |-> 0]
  <2>1. f \in Frames /\ stack' = <<f>> \o stack /\ stack' \in Seq(Frames)
    BY <1>1, EnterIs DEF SetParameters
  <2>2. f.own = {} /\ ~Checking(f)
    BY DEF Checking
  <2> HIDE DEF f
  <2>3. Fits(f) /\ \A j \in 1 .. Len(stack) : Below(f, stack[j])
    BY <2>2, LeanFits DEF TypeOK
  <2>4. Sound(<<f>> \o stack)
    BY <2>1, <2>3, SoundPush DEF ValueInv, TypeOK
  <2> QED
    BY <1>1, <2>1, <2>4, OnlyCalls DEF SetParameters
<1>2. ASSUME NEW l \in Lists, PreCallbacks(l)
      PROVE  ValueInv'
  <2>1. CASE Fails
    BY <1>2, <2>1, FailsKept DEF PreCallbacks
  <2>2. CASE /\ Validates(Top.own # {}, l) /\ Check(l, 1)
             /\ UNCHANGED <<parameters, descriptors, checks, told, active>>
    <3>1. /\ Top \in Frames /\ Tail(stack) \in Seq(Frames) /\ Sound(Tail(stack)) /\ Fits(Top)
          /\ \A j \in 1 .. Len(Tail(stack)) : Below(Top, Tail(stack)[j])
      BY <1>2, PopIs, SoundTail DEF TypeOK, ValueInv, Top, PreCallbacks
    <3>2. l \in [Names -> Values \cup {NotSet, None}]
      BY DEF Lists
    <3> DEFINE f == CheckFrame(l, 1)
    <3>3. /\ f \in Frames /\ f.own = Top.own /\ f.list = l
          /\ stack' = <<f>> \o Tail(stack) /\ stack' \in Seq(Frames)
      BY <1>2, <2>2, <3>2, CheckIs DEF PreCallbacks
    <3> HIDE DEF f
    <3>4. \A n \in Named(l) :
            /\ l[n] # NotSet => descriptors[n] # None /\ Accepts(descriptors[n], l[n])
            /\ Top.own # {} \/ ~DescriptorOf(n).readOnly
      BY <2>2, ValidFits
    <3>5. Fits(f)
      BY <1>2, <3>1, <3>3, <3>4 DEF Fits, PreCallbacks
    <3>6. ASSUME NEW j \in 1 .. Len(Tail(stack))
          PROVE  Below(f, Tail(stack)[j])
      <4>1. Tail(stack) # <<>>
        BY <3>1, EmptyIs
      <4>2. \A n \in Named(l) : l[n] # NotSet /\ n \notin Tail(stack)[j].own
        BY <1>2, <4>1 DEF PreCallbacks, Plain
      <4> QED
        BY <3>1, <3>3, <4>2 DEF Below
    <3>7. Sound(<<f>> \o Tail(stack))
      BY <3>1, <3>3, <3>5, <3>6, SoundPush
    <3> QED
      BY <2>2, <3>3, <3>7, OnlyCalls
  <2> QED
    BY <1>2, <2>1, <2>2 DEF PreCallbacks
<1>3. ASSUME NEW l \in Lists,
             NEW g \in {None} \cup [Names -> Descriptors], DeclareParameters(l, g)
      PROVE  ValueInv'
  <2> DEFINE f == [list |-> l, own |-> Named(l), at |-> "pre", i |-> 0]
  <2>1. f \in Frames /\ stack' = <<f>> \o stack
    BY <1>3, EnterIs DEF DeclareParameters, Named
  <2>2. f.own = Named(l) /\ ~Checking(f)
    BY DEF Checking
  <2> HIDE DEF f
  <2>3. stack' = <<f>>
    BY <1>3, <2>1 DEF DeclareParameters
  <2>4. \A n \in Names : parameters[n] # None => descriptors'[n] = descriptors[n]
    BY <1>3 DEF DeclareParameters, TypeOK
  <2>5. parameters' = parameters /\ told' = told /\ \A n \in Named(l) : parameters'[n] = None
    BY <1>3 DEF DeclareParameters, Named
  <2>6. Described' /\ EventsTell'
    BY <2>4, <2>5 DEF ValueInv, Described, EventsTell
  <2>7. Fits(f)'
    BY <2>2, <2>5 DEF Fits, Checking
  <2>8. Sound(stack)'
    BY <2>3, <2>7 DEF Sound
  <2> QED
    BY <2>6, <2>8 DEF ValueInv
<1>4. ASSUME NEW n \in Names, UndeclareParameter(n)
      PROVE  ValueInv'
  <2>1. Described' /\ EventsTell'
    BY <1>4 DEF UndeclareParameter, ValueInv, Described, EventsTell, TypeOK
  <2>2. Sound(stack)'
    BY <1>4 DEF UndeclareParameter, Sound
  <2> QED
    BY <2>1, <2>2 DEF ValueInv
<1>5. ASSUME PreRejects
      PROVE  ValueInv'
  BY <1>5, FailsKept DEF PreRejects
<1>6. ASSUME CheckAccepts
      PROVE  ValueInv'
  BY <1>6, GoesOn DEF CheckAccepts, Checking
<1>7. ASSUME CheckRejects
      PROVE  ValueInv'
  BY <1>7, FailsKept DEF CheckRejects
<1>8. ASSUME TimeSourceCheck
      PROVE  ValueInv'
  BY <1>8, GoesOn DEF TimeSourceCheck, Checking
<1>9. ASSUME Apply
      PROVE  ValueInv'
  <2> DEFINE list == Top.list
             outer == Tail(stack)
  <2>1. /\ Top \in Frames /\ outer \in Seq(Frames) /\ Sound(outer) /\ Fits(Top)
        /\ \A j \in 1 .. Len(outer) : Below(Top, outer[j])
    BY <1>9, PopIs, SoundTail DEF TypeOK, ValueInv, Top, Apply
  <2>2. list \in [Names -> Values \cup {NotSet, None}] /\ Checking(Top)
    BY <1>9, <2>1 DEF Frames, Apply, Checking
  <2>3. \A n \in Named(list) : list[n] # NotSet =>
          descriptors[n] # None /\ Accepts(descriptors[n], list[n])
    BY <2>1, <2>2 DEF Fits
  <2>4. \A n \in Names :
          /\ n \in Named(list) => parameters'[n] = told'[n]
          /\ n \in Named(list) /\ list[n] # NotSet => parameters'[n] = list[n]
          /\ n \in Named(list) /\ list[n] = NotSet => parameters'[n] = None
          /\ n \notin Named(list) => parameters'[n] = parameters[n] /\ told'[n] = told[n]
          /\ list[n] # NotSet => descriptors'[n] = descriptors[n]
    BY <1>9 DEF Apply
  <2>5. \A n \in Names : n \notin Named(list) => list[n] # NotSet
    BY AtomsAre DEF Named
  <2>6. Described'
    BY <2>3, <2>4, <2>5 DEF ValueInv, Described
  <2>7. EventsTell'
    BY <2>4 DEF ValueInv, EventsTell
  <2>8. Fits(Done) /\ Fits(Done)' /\ \A f \in Frames : Below(Done, f)
    BY DoneIs, LeanFits DEF Checking
  <2>9. stack' = <<Done>> \o outer
    BY <1>9 DEF Apply
  <2>10. Sound(stack)'
    <3>1. CASE outer = <<>>
      <4>1. Len(stack') = 1 /\ stack'[1] = Done
        <5>1. Len(outer) = 0
          <6> HIDE DEF outer
          <6> QED
            BY <2>1, <3>1, EmptyIs
        <5> HIDE DEF outer
        <5> QED
          BY <2>1, <2>9, <5>1, DoneIs, PushIs
      <4> QED
        BY <2>8, <4>1 DEF Sound
    <3>2. CASE outer # <<>>
      <4>1. \A j \in 1 .. Len(outer) : \A n \in Named(list) : list[n] # NotSet /\ n \notin outer[j].own
        BY <2>1, <2>2 DEF Below
      <4>2. 1 \in 1 .. Len(outer)
        BY <2>1, <3>2
      <4>3. descriptors' = descriptors
        <5>1. \A n \in Names : list[n] # NotSet
          BY <2>5, <4>1, <4>2
        <5>2. descriptors' \in [Names -> AllDescriptors \cup {None}]
          BY <1>9, TypeKept DEF TypeOK, Next
        <5> QED
          BY <2>4, <5>1, <5>2 DEF TypeOK
      <4>4. /\ <<Done>> \o outer \in Seq(Frames) /\ Len(<<Done>> \o outer) = Len(outer) + 1
            /\ (<<Done>> \o outer)[1] = Done
            /\ \A i \in 2 .. Len(outer) + 1 : (<<Done>> \o outer)[i] = outer[i - 1]
        BY <2>1, DoneIs, PushIs
      <4>5. Sound(<<Done>> \o outer)
        <5> HIDE DEF outer
        <5>1. \A j \in 1 .. Len(outer) : Below(Done, outer[j])
          BY <2>1, <2>8
        <5> QED
          BY <2>1, <2>8, <5>1, DoneIs, SoundPush
      <4>6. \A k \in 1 .. Len(outer) : \A n \in outer[k].own : parameters'[n] = None
        <5>1. \A k \in 1 .. Len(outer) : \A n \in outer[k].own : parameters[n] = None /\ n \in Names
          <6> HIDE DEF outer
          <6>1. \A k \in 1 .. Len(outer) : outer[k] \in Frames /\ Fits(outer[k])
            BY <2>1 DEF Sound
          <6>2. \A k \in 1 .. Len(outer) : outer[k].own \in SUBSET Names
            BY <6>1 DEF Frames
          <6> QED
            BY <6>1, <6>2 DEF Fits
        <5> QED
          BY <2>4, <4>1, <5>1
      <4>7. \A k \in 1 .. Len(outer) + 1 :
              \A n \in (<<Done>> \o outer)[k].own : parameters'[n] = None
        <5> TAKE k \in 1 .. Len(outer) + 1
        <5> HIDE DEF outer
        <5>1. CASE k = 1
          BY <4>4, <5>1, DoneIs
        <5>2. CASE k # 1
          <6>1. k \in 2 .. Len(outer) + 1 /\ k - 1 \in 1 .. Len(outer)
            BY <2>1, <5>2
          <6> QED
            BY <4>4, <4>6, <6>1
        <5> QED
          BY <5>1, <5>2
      <4> QED
        BY <2>9, <4>3, <4>4, <4>5, <4>7, SoundStays
    <3> QED
      BY <3>1, <3>2
  <2> QED
    BY <2>6, <2>7, <2>10 DEF ValueInv
<1>10. ASSUME PostCallbacks
      PROVE  ValueInv'
  BY <1>10, Returns DEF PostCallbacks
<1>11. ASSUME CallbackThrows
      PROVE  ValueInv'
  BY <1>11, Returns DEF CallbackThrows
<1>12. ASSUME NEW c \in Callbacks, AddOnSetParametersCallback(c)
      PROVE  ValueInv'
  BY <1>12, OnlyCalls DEF AddOnSetParametersCallback, ValueInv, TypeOK
<1>13. ASSUME NEW c \in Callbacks, RemoveOnSetParametersCallback(c)
      PROVE  ValueInv'
  BY <1>13, OnlyCalls DEF RemoveOnSetParametersCallback, ValueInv, TypeOK
<1>14. CASE UNCHANGED vars
  BY <1>14 DEF vars, ValueInv, Described, EventsTell, Sound, Fits, Below, DescriptorOf
<1> QED
  BY <1>1, <1>2, <1>3, <1>4, <1>5, <1>6, <1>7, <1>8,
     <1>9, <1>10, <1>11, <1>12, <1>13, <1>14 DEF Next

\* The invariant holds at the start.
LEMMA ValueInit == Init => ValueInv
<1> SUFFICES ASSUME NEW b \in BOOLEAN,
                    parameters = [n \in Names |-> IF n = SimTime THEN Bool(b) ELSE None],
                    descriptors = [n \in Names |-> IF n = SimTime THEN FromParameter(Bool(b))
                                                   ELSE None],
                    stack = <<>>, told = parameters
             PROVE  ValueInv
  BY DEF Init
<1>1. FromParameter(Bool(b)).type = Bool(b).type /\ FromParameter(Bool(b)).range = None
  BY AtomsAre DEF FromParameter
<1>2. FromParameter(Bool(b)) # None
  BY AtomsAre
<1> QED
  BY <1>1, <1>2 DEF ValueInv, Described, EventsTell, Sound, Accepts

\* The value of every parameter fits its descriptor.
THEOREM ValuesDescribed == Spec => []Described
<1> QED
  BY ValueInit, ValueKept, TypeCorrect, PTL DEF Spec, ValueInv

\* Whoever follows /parameter_events knows every value.
THEOREM EventsComplete == Spec => []EventsTell
<1> QED
  BY ValueInit, ValueKept, TypeCorrect, PTL DEF Spec, ValueInv

\* A read-only parameter keeps its value.
THEOREM ReadOnlyHeld == Spec => ReadOnlyKept
<1> DEFINE Kept == \A n \in Names :
                     parameters[n] # None /\ descriptors[n] # None /\ descriptors[n].readOnly
                       => parameters'[n] = parameters[n]
<1>1. ASSUME TypeOK, ValueInv, [Next]_vars
      PROVE  [Kept]_vars
  <2>1. CASE UNCHANGED parameters
    BY <2>1
  <2>2. ASSUME NEW m \in Names, UndeclareParameter(m)
        PROVE  Kept
    BY <2>2 DEF UndeclareParameter, TypeOK, DescriptorOf
  <2>3. CASE Apply
    <3>1. Top \in Frames /\ Fits(Top) /\ Checking(Top)
      <4>1. stack # <<>> /\ stack \in Seq(Frames) /\ Sound(stack) /\ Top.at = "checks"
        BY <1>1, <2>3 DEF TypeOK, ValueInv, Apply
      <4>2. stack[1] \in Frames /\ Fits(stack[1])
        BY <4>1, PopIs, SoundTail
      <4> QED
        BY <4>1, <4>2 DEF Top, Checking
    <3>2. \A n \in Named(Top.list) : parameters[n] # None => ~DescriptorOf(n).readOnly
      BY <3>1 DEF Fits
    <3>3. \A n \in Names : n \notin Named(Top.list) => parameters'[n] = parameters[n]
      BY <2>3 DEF Apply
    <3> QED
      BY <3>2, <3>3 DEF DescriptorOf
  <2> QED
    BY <1>1, <2>1, <2>2, <2>3 DEF Next, vars, SetParameters, PreCallbacks, DeclareParameters,
       PreRejects, CheckAccepts, CheckRejects, Fails, TimeSourceCheck, PostCallbacks,
       CallbackThrows, AddOnSetParametersCallback, RemoveOnSetParametersCallback
<1> QED
  BY <1>1, ValueInit, ValueKept, TypeCorrect, PTL DEF Spec, ReadOnlyKept

-------------------------------------------------------------------------------
(* The time source *)

\* While no call is past the callbacks of user code, the time source follows the parameter.
LEMMA TimeOf ==
  ASSUME TypeOK, TimeInv, InUserCode
  PROVE  /\ Follows(parameters[SimTime])
         /\ \A k \in 1 .. Len(stack) : stack[k].at # "checks"
<1>1. \A k \in 1 .. Len(stack) : stack[k].at = "checks" => k = 1
  BY DEF TimeInv
<1>2. stack # <<>> => Top.at # "checks"
  BY DEF InUserCode
<1>3. 1 \in 1 .. Len(stack) => stack # <<>>
  BY EmptyIs DEF TypeOK
<1>4. \A k \in 1 .. Len(stack) : stack[k].at # "checks"
  BY <1>1, <1>2, <1>3 DEF Top
<1> QED
  BY <1>2, <1>4 DEF TimeInv, Seen

\* And the other way round.
LEMMA TimeSettled ==
  ASSUME TypeOK, TypeOK', TimeInv, UNCHANGED checks, Follows(parameters[SimTime])',
         \A k \in 1 .. Len(stack') :
           /\ stack'[k].at # "checks"
           /\ stack'[k].at = "callback" => stack'[k].i \in 1 .. Len(checks) - 1
  PROVE  TimeInv'
<1>1. stack' # <<>> => 1 \in 1 .. Len(stack')
  BY EmptyIs DEF TypeOK
<1>2. stack' # <<>> => stack'[1].at # "checks"
  BY <1>1
<1> QED
  BY <1>2 DEF TimeInv, Seen, Top

\* What a call leaves behind when it returns.
LEMMA Popped ==
  ASSUME TypeOK, TimeInv, stack # <<>>, NEW calls, calls = Tail(stack)
  PROVE  \A k \in 1 .. Len(calls) :
           /\ calls[k].at # "checks"
           /\ calls[k].at = "callback" => calls[k].i \in 1 .. Len(checks) - 1
<1>1. /\ Len(stack) \in Nat \ {0} /\ Len(calls) = Len(stack) - 1
      /\ \A i \in 1 .. Len(calls) : calls[i] = stack[i + 1]
  BY PopIs DEF TypeOK
<1>2. \A k \in 1 .. Len(calls) : k + 1 \in 1 .. Len(stack) /\ k + 1 # 1
  BY <1>1
<1> QED
  BY <1>1, <1>2 DEF TimeInv

\* And what is there when one has been made.
LEMMA Pushed ==
  ASSUME NEW f \in Frames, NEW calls \in Seq(Frames), NEW new, new = <<f>> \o calls,
         f.at # "checks",
         f.at = "callback" => f.i \in 1 .. Len(checks) - 1,
         \A k \in 1 .. Len(calls) :
           /\ calls[k].at # "checks"
           /\ calls[k].at = "callback" => calls[k].i \in 1 .. Len(checks) - 1
  PROVE  \A k \in 1 .. Len(new) :
           /\ new[k].at # "checks"
           /\ new[k].at = "callback" => new[k].i \in 1 .. Len(checks) - 1
<1>1. /\ Len(calls) \in Nat /\ Len(new) = Len(calls) + 1 /\ new[1] = f
      /\ \A i \in 2 .. Len(calls) + 1 : new[i] = calls[i - 1]
  BY PushIs, EmptyIs
<1>2. \A k \in 1 .. Len(new) : k = 1 \/ (k \in 2 .. Len(calls) + 1 /\ k - 1 \in 1 .. Len(calls))
  BY <1>1
<1> QED
  BY <1>1, <1>2

\* A call in user code that returns.
LEMMA TimeReturns ==
  ASSUME TypeOK, TypeOK', TimeInv, stack # <<>>, InUserCode, stack' = Tail(stack),
         UNCHANGED <<parameters, checks, active>>
  PROVE  TimeInv'
<1>1. Follows(parameters[SimTime])'
  BY TimeOf DEF Follows
<1>2. \A k \in 1 .. Len(stack') :
        /\ stack'[k].at # "checks"
        /\ stack'[k].at = "callback" => stack'[k].i \in 1 .. Len(checks) - 1
  BY Popped
<1> QED
  BY <1>1, <1>2, TimeSettled

\* A call that fails does so in user code.
LEMMA TimeFails ==
  ASSUME TypeOK, TypeOK', TimeInv, stack # <<>>, Top.at \in {"pre", "callback"}, Fails
  PROVE  TimeInv'
<1>1. InUserCode
  BY DEF InUserCode
<1> QED
  BY <1>1, TimeReturns DEF Fails

\* A new call.
LEMMA TimeEnters ==
  ASSUME TypeOK, TypeOK', TimeInv, InUserCode, NEW list \in Lists, NEW own \in SUBSET Names,
         Enter(list, own), UNCHANGED <<parameters, checks, active>>
  PROVE  TimeInv'
<1> DEFINE f == [list |-> list, own |-> own, at |-> "pre", i |-> 0]
<1>1. f \in Frames /\ stack' = <<f>> \o stack
  BY EnterIs
<1>2. f.at = "pre"
  OBVIOUS
<1> HIDE DEF f
<1>3. \A k \in 1 .. Len(stack) :
        /\ stack[k].at # "checks"
        /\ stack[k].at = "callback" => stack[k].i \in 1 .. Len(checks) - 1
  BY TimeOf DEF TimeInv
<1>4. \A k \in 1 .. Len(stack') :
        /\ stack'[k].at # "checks"
        /\ stack'[k].at = "callback" => stack'[k].i \in 1 .. Len(checks) - 1
  BY <1>1, <1>2, <1>3, Pushed DEF TypeOK
<1>5. Follows(parameters[SimTime])'
  BY TimeOf DEF Follows
<1> QED
  BY <1>4, <1>5, TimeSettled

\* A call whose iteration comes to an index.
LEMMA TimeChecks ==
  ASSUME TypeOK, TypeOK', TimeInv, stack # <<>>,
         NEW list \in [Names -> Values \cup {NotSet, None}], NEW i \in 1 .. Len(checks) + 1,
         Check(list, i), UNCHANGED <<parameters, checks>>,
         IF i = Len(checks) + 1 /\ list[SimTime] \in {Bool(TRUE), Bool(FALSE)}
           THEN Follows(list[SimTime])' ELSE Follows(parameters[SimTime])'
  PROVE  TimeInv'
<1> DEFINE f == CheckFrame(list, i)
<1>1. /\ f \in Frames /\ stack' = <<f>> \o Tail(stack) /\ f.list = list /\ f.i = i
      /\ f.at = IF i <= Len(checks) /\ checks[i] # TimeSource THEN "callback" ELSE "checks"
  BY CheckIs
<1> HIDE DEF f
<1>2. /\ Len(checks) \in Nat \ {0} /\ checks[Len(checks)] = TimeSource
      /\ \A k \in 1 .. Len(checks) - 1 : checks[k] # TimeSource
  BY DEF TimeInv, TypeOK
<1>3. /\ f.at = "callback" => f.i \in 1 .. Len(checks) - 1
      /\ f.at = "checks" => f.i \in Len(checks) .. Len(checks) + 1
  BY <1>1, <1>2
<1>4. /\ Len(stack') = Len(Tail(stack)) + 1 /\ Len(Tail(stack)) \in Nat /\ stack'[1] = f
      /\ \A k \in 2 .. Len(Tail(stack)) + 1 : stack'[k] = Tail(stack)[k - 1]
  <2>1. Tail(stack) \in Seq(Frames)
    BY PopIs DEF TypeOK
  <2> QED
    BY <1>1, <2>1, PushIs, EmptyIs
<1>5. \A k \in 1 .. Len(Tail(stack)) :
        /\ Tail(stack)[k].at # "checks"
        /\ Tail(stack)[k].at = "callback" => Tail(stack)[k].i \in 1 .. Len(checks) - 1
  BY Popped
<1>6. \A k \in 1 .. Len(stack') :
        /\ stack'[k].at = "callback" => stack'[k].i \in 1 .. Len(checks) - 1
        /\ stack'[k].at = "checks" => k = 1 /\ stack'[k].i \in Len(checks) .. Len(checks) + 1
  <2> TAKE k \in 1 .. Len(stack')
  <2>1. CASE k = 1
    BY <1>3, <1>4, <2>1
  <2>2. CASE k # 1
    <3>1. k \in 2 .. Len(Tail(stack)) + 1 /\ k - 1 \in 1 .. Len(Tail(stack))
      BY <1>4, <2>2
    <3> QED
      BY <1>4, <1>5, <3>1
  <2> QED
    BY <2>1, <2>2
<1>7. f.at = "checks" /\ f.i = Len(checks) + 1 <=> i = Len(checks) + 1
  BY <1>1, <1>2
<1>8. stack' # <<>>
  BY <1>4, EmptyIs DEF TypeOK
<1> QED
  BY <1>1, <1>2, <1>4, <1>6, <1>7, <1>8 DEF TimeInv, Seen, Top

\* Removing an element that is not the last.
LEMMA SpliceIs ==
  ASSUME NEW S, NEW s \in Seq(S), NEW k \in 1 .. Len(s) - 1,
         NEW t, t = SubSeq(s, 1, k - 1) \o SubSeq(s, k + 1, Len(s))
  PROVE  /\ Len(t) = Len(s) - 1
         /\ \A i \in 1 .. k - 1 : t[i] = s[i]
         /\ \A i \in k .. Len(s) - 1 : t[i] = s[i + 1]
  OBVIOUS

\* Every step keeps the invariant, provided that callbacks are not removed while they are called.
LEMMA TimeKept ==
  ASSUME ~RemoveWithin, TypeOK, TimeInv, [Next]_vars
  PROVE  TimeInv'
<1>0. TypeOK'
  BY TypeKept
<1>1. ASSUME NEW l \in Lists, SetParameters(l)
      PROVE  TimeInv'
  BY <1>1, <1>0, TimeEnters DEF SetParameters
<1>2. ASSUME NEW l \in Lists, PreCallbacks(l)
      PROVE  TimeInv'
  <2>1. CASE Fails
    BY <1>2, <1>0, <2>1, TimeFails DEF PreCallbacks
  <2>2. CASE Check(l, 1) /\ UNCHANGED <<parameters, descriptors, checks, told, active>>
    <3>1. InUserCode
      BY <1>2 DEF PreCallbacks, InUserCode
    <3>2. Follows(parameters[SimTime])'
      BY <2>2, <3>1, TimeOf DEF Follows
    <3>3. l \in [Names -> Values \cup {NotSet, None}]
      BY DEF Lists
    <3>4. 1 \in 1 .. Len(checks) + 1 /\ 1 # Len(checks) + 1
      BY DEF TimeInv, TypeOK
    <3> QED
      BY <1>2, <1>0, <2>2, <3>2, <3>3, <3>4, TimeChecks DEF PreCallbacks
  <2> QED
    BY <1>2, <2>1, <2>2 DEF PreCallbacks
<1>3. ASSUME NEW l \in Lists,
             NEW g \in {None} \cup [Names -> Descriptors], DeclareParameters(l, g)
      PROVE  TimeInv'
  <2>1. InUserCode /\ Named(l) \in SUBSET Names
    BY <1>3 DEF DeclareParameters, InUserCode, Named
  <2> QED
    BY <1>3, <1>0, <2>1, TimeEnters DEF DeclareParameters
<1>4. ASSUME NEW n \in Names, UndeclareParameter(n)
      PROVE  TimeInv'
  <2>1. stack = <<>> /\ stack' = stack /\ InUserCode
    BY <1>4 DEF UndeclareParameter, InUserCode
  <2>2. parameters'[SimTime] = parameters[SimTime] \/ parameters'[SimTime] = None
    BY <1>4 DEF UndeclareParameter, TypeOK
  <2>3. Follows(parameters[SimTime])'
    BY <1>4, <2>1, <2>2, TimeOf, AtomsAre DEF Follows, UndeclareParameter
  <2> QED
    BY <1>4, <1>0, <2>1, <2>3, TimeSettled DEF UndeclareParameter
<1>5. ASSUME PreRejects
      PROVE  TimeInv'
  BY <1>5, <1>0, TimeFails DEF PreRejects
<1>6. ASSUME CheckAccepts
      PROVE  TimeInv'
  <2>1. Top \in Frames /\ 1 \in 1 .. Len(stack)
    BY <1>6, PopIs DEF CheckAccepts, TypeOK, Top
  <2>2. Top.list \in [Names -> Values \cup {NotSet, None}]
    BY <2>1 DEF Frames
  <2>3. Top.i + 1 \in 1 .. Len(checks)
    BY <1>6, <2>1 DEF CheckAccepts, TimeInv, TypeOK, Top
  <2>4. InUserCode
    BY <1>6 DEF CheckAccepts, InUserCode
  <2>5. Follows(parameters[SimTime])'
    BY <1>6, <2>4, TimeOf DEF Follows, CheckAccepts
  <2>6. Top.i + 1 \in 1 .. Len(checks) + 1 /\ Top.i + 1 # Len(checks) + 1
    BY <2>3
  <2> QED
    BY <1>6, <1>0, <2>2, <2>5, <2>6, TimeChecks DEF CheckAccepts
<1>7. ASSUME CheckRejects
      PROVE  TimeInv'
  BY <1>7, <1>0, TimeFails DEF CheckRejects
<1>8. ASSUME TimeSourceCheck
      PROVE  TimeInv'
  <2>1. Top \in Frames /\ 1 \in 1 .. Len(stack)
    BY <1>8, PopIs DEF TimeSourceCheck, TypeOK, Top
  <2>2. Top.list \in [Names -> Values \cup {NotSet, None}]
    BY <2>1 DEF Frames
  <2>3. Top.i = Len(checks) /\ Len(checks) \in Nat \ {0}
    BY <1>8, <2>1 DEF TimeSourceCheck, TimeInv, TypeOK, Top
  <2>4. ~Seen(Top)
    BY <2>3 DEF Seen
  <2>5. Follows(parameters[SimTime])
    BY <2>4 DEF TimeInv
  <2>6. IF Top.list[SimTime] \in {Bool(TRUE), Bool(FALSE)}
          THEN active' = (Top.list[SimTime] = Bool(TRUE)) ELSE active' = active
    BY <1>8, AtomsAre DEF TimeSourceCheck
  <2>7. IF Top.list[SimTime] \in {Bool(TRUE), Bool(FALSE)}
          THEN Top.list[SimTime] \in {Bool(TRUE), Bool(FALSE)}
                 => (active' <=> Top.list[SimTime] = Bool(TRUE))
          ELSE Follows(parameters[SimTime])'
    BY <1>8, <2>5, <2>6 DEF Follows, TimeSourceCheck
  <2>8. Top.i + 1 \in 1 .. Len(checks) + 1 /\ Top.i + 1 = Len(checks) + 1
    BY <2>3
  <2> QED
    BY <1>8, <1>0, <2>2, <2>7, <2>8, TimeChecks DEF TimeSourceCheck, Follows
<1>9. ASSUME Apply
      PROVE  TimeInv'
  <2>1. /\ Top \in Frames /\ Tail(stack) \in Seq(Frames) /\ 1 \in 1 .. Len(stack)
    BY <1>9, PopIs DEF Apply, TypeOK, Top
  <2>2. Top.list \in [Names -> Values \cup {NotSet, None}] /\ Top.i \in Nat
    BY <2>1 DEF Frames
  <2>3. Top.i \in Len(checks) .. Len(checks) + 1 /\ Top.i > Len(checks)
    BY <1>9, <2>1 DEF Apply, TimeInv, Top
  <2>4. Seen(Top)
    BY <1>9, <2>3 DEF Seen, Apply, TypeOK
  <2>5. IF Top.list[SimTime] \in {Bool(TRUE), Bool(FALSE)}
          THEN Follows(Top.list[SimTime]) ELSE Follows(parameters[SimTime])
    BY <1>9, <2>4 DEF TimeInv, Apply
  <2>6. /\ Top.list[SimTime] = None => parameters'[SimTime] = parameters[SimTime]
        /\ Top.list[SimTime] = NotSet => parameters'[SimTime] = None
        /\ Top.list[SimTime] \notin {None, NotSet} => parameters'[SimTime] = Top.list[SimTime]
    BY <1>9, <2>2, AtomsAre DEF Apply, Named
  <2>7. Follows(parameters[SimTime])'
    BY <1>9, <2>5, <2>6, AtomsAre DEF Follows, Apply
  <2>8. stack' = <<Done>> \o Tail(stack)
    BY <1>9 DEF Apply
  <2>9. \A k \in 1 .. Len(stack') :
          /\ stack'[k].at # "checks"
          /\ stack'[k].at = "callback" => stack'[k].i \in 1 .. Len(checks) - 1
    <3>1. \A k \in 1 .. Len(Tail(stack)) :
            /\ Tail(stack)[k].at # "checks"
            /\ Tail(stack)[k].at = "callback" => Tail(stack)[k].i \in 1 .. Len(checks) - 1
      BY <1>9, Popped DEF Apply
    <3>2. Done \in Frames /\ Done.at # "checks" /\ Done.at # "callback"
      BY DoneIs
    <3> DEFINE outer == Tail(stack)
    <3>3. outer \in Seq(Frames) /\ stack' = <<Done>> \o outer
      BY <2>1, <2>8
    <3>4. \A k \in 1 .. Len(outer) :
            /\ outer[k].at # "checks"
            /\ outer[k].at = "callback" => outer[k].i \in 1 .. Len(checks) - 1
      BY <3>1
    <3> HIDE DEF outer
    <3> QED
      BY <3>2, <3>3, <3>4, Pushed
  <2> QED
    BY <1>9, <1>0, <2>7, <2>9, TimeSettled DEF Apply
<1>10. ASSUME PostCallbacks
      PROVE  TimeInv'
  BY <1>10, <1>0, TimeReturns DEF PostCallbacks, InUserCode
<1>11. ASSUME CallbackThrows
      PROVE  TimeInv'
  BY <1>11, <1>0, TimeReturns DEF CallbackThrows
<1>12. ASSUME NEW c \in Callbacks, AddOnSetParametersCallback(c)
      PROVE  TimeInv'
  <2>1. /\ Follows(parameters[SimTime])' /\ \A k \in 1 .. Len(stack) : stack[k].at # "checks"
    BY <1>12, TimeOf DEF AddOnSetParametersCallback, Follows
  <2>2. /\ Len(checks) \in Nat \ {0} /\ checks[Len(checks)] = TimeSource
        /\ \A k \in 1 .. Len(checks) - 1 : checks[k] # TimeSource
    BY DEF TimeInv, TypeOK
  <2>3. /\ Len(checks') = Len(checks) + 1 /\ checks'[1] = c
        /\ \A k \in 2 .. Len(checks) + 1 : checks'[k] = checks[k - 1]
    BY <1>12 DEF AddOnSetParametersCallback, TypeOK
  <2>4. /\ Len(checks') > 0 /\ checks'[Len(checks')] = TimeSource
        /\ \A k \in 1 .. Len(checks') - 1 : checks'[k] # TimeSource
    BY <2>2, <2>3
  <2>5. \A k \in 1 .. Len(stack) :
          stack[k].at = "callback" => stack[k].i \in 1 .. Len(checks') - 1
    BY <2>2, <2>3 DEF TimeInv
  <2>6. stack' = stack /\ (stack # <<>> => Top.at # "checks")
    BY <1>12 DEF AddOnSetParametersCallback, InUserCode
  <2> QED
    BY <2>1, <2>4, <2>5, <2>6 DEF TimeInv, Seen, Top
<1>13. ASSUME NEW c \in Callbacks, RemoveOnSetParametersCallback(c)
      PROVE  TimeInv'
  <2>1. /\ Follows(parameters[SimTime])' /\ \A k \in 1 .. Len(stack) : stack[k].at # "checks"
    BY <1>13, TimeOf DEF RemoveOnSetParametersCallback, Follows
  <2>2. /\ Len(checks) \in Nat \ {0} /\ checks[Len(checks)] = TimeSource
        /\ \A k \in 1 .. Len(checks) - 1 : checks[k] # TimeSource
    BY DEF TimeInv, TypeOK
  <2>3. PICK k \in 1 .. Len(checks) :
          /\ checks[k] = c
          /\ checks' = SubSeq(checks, 1, k - 1) \o SubSeq(checks, k + 1, Len(checks))
    BY <1>13 DEF RemoveOnSetParametersCallback
  <2>4. k \in 1 .. Len(checks) - 1
    BY <2>2, <2>3
  <2>5. /\ Len(checks') = Len(checks) - 1
        /\ \A i \in 1 .. k - 1 : checks'[i] = checks[i]
        /\ \A i \in k .. Len(checks) - 1 : checks'[i] = checks[i + 1]
    BY <2>3, <2>4, SpliceIs DEF TypeOK
  <2>6. /\ Len(checks') > 0 /\ checks'[Len(checks')] = TimeSource
        /\ \A i \in 1 .. Len(checks') - 1 : checks'[i] # TimeSource
    BY <2>2, <2>4, <2>5
  <2>7. \A i \in 1 .. Len(stack) : stack[i].at # "callback"
    BY <1>13 DEF RemoveOnSetParametersCallback
  <2>8. stack' = stack /\ (stack # <<>> => Top.at # "checks")
    BY <1>13 DEF RemoveOnSetParametersCallback, InUserCode
  <2> QED
    BY <2>1, <2>6, <2>7, <2>8 DEF TimeInv, Seen, Top
<1>14. CASE UNCHANGED vars
  BY <1>14 DEF vars, TimeInv, Follows, Seen, Top
<1> QED
  BY <1>1, <1>2, <1>3, <1>4, <1>5, <1>6, <1>7, <1>8,
     <1>9, <1>10, <1>11, <1>12, <1>13, <1>14 DEF Next

\* Between calls the time source runs on simulated time if and only if the parameter says
\* so, when user code removes no on-set callback while these are called.
THEOREM TimeFollows == ~RemoveWithin => (Spec => []TimeFollowsParameter)
<1> SUFFICES ASSUME ~RemoveWithin
             PROVE  Spec => []TimeFollowsParameter
  OBVIOUS
<1>1. Init => TimeInv
  <2> SUFFICES ASSUME NEW b \in BOOLEAN,
                      parameters = [n \in Names |-> IF n = SimTime THEN Bool(b) ELSE None],
                      checks = <<TimeSource>>, stack = <<>>, active = b
               PROVE  TimeInv
    BY DEF Init
  <2>1. parameters[SimTime] = Bool(b)
    OBVIOUS
  <2>2. Follows(parameters[SimTime])
    BY <2>1, AtomsAre DEF Follows
  <2> QED
    BY <2>2 DEF TimeInv
<1>2. TypeOK /\ TimeInv /\ [Next]_vars => TimeInv'
  BY TimeKept
<1>3. TypeOK /\ TimeInv => TimeFollowsParameter
  <2> SUFFICES ASSUME TypeOK, TimeInv, stack = <<>>
               PROVE  Follows(parameters[SimTime])
    BY DEF TimeFollowsParameter, Follows
  <2> QED
    BY TimeOf DEF InUserCode
<1> QED
  BY <1>1, <1>2, <1>3, TypeCorrect, PTL DEF Spec

-------------------------------------------------------------------------------
(* The clocks of the time source (SimTime)                                     *)

\* What the sleeps do leaves source and clocks alone, and so does the passing of time.
LEMMA SleepsKeep ==
  ASSUME SourceInv, UNCHANGED <<sourceVars, clockVars>>
  PROVE  SourceInv'
BY DEF SourceInv, SourceOK, ClocksAgree, sourceVars, clockVars

\* The setter tells every attached clock.
LEMMA SwitchKeeps ==
  ASSUME SourceInv, NEW b \in BOOLEAN, SetRosTimeActive(b)
  PROVE  SourceInv'
<1>1. /\ active' = b /\ attached' = attached /\ lastTime' = lastTime /\ onNode' = onNode
      /\ rosTime' = rosTime
      /\ subscribed' = IF b THEN subscribed \/ onNode ELSE subscribed /\ ~onNode
      /\ override' = [c \in Clocks |-> IF c \in attached THEN b ELSE override[c]]
  BY DEF SetRosTimeActive, SetActive
<1>2. SourceOK /\ ClocksAgree /\ (subscribed <=> active /\ onNode) /\ active # b
  BY DEF SourceInv, SetRosTimeActive
<1>3. override' \in [Clocks -> BOOLEAN] /\ subscribed' \in BOOLEAN
  BY <1>1, <1>2, Zenon DEF SourceOK
<1>4. SourceOK'
  BY <1>1, <1>2, <1>3 DEF SourceOK
<1>5. \A c \in attached' : override'[c] = active' /\ rosTime'[c] = lastTime'
  BY <1>1, <1>2 DEF SourceOK, ClocksAgree
<1>6. subscribed' <=> active' /\ onNode'
  BY <1>1, <1>2 DEF SourceOK
<1> QED
  BY <1>4, <1>5, <1>6 DEF SourceInv, ClocksAgree

\* A clock gets the time, and is switched as the source is.
LEMMA AttachKeeps ==
  ASSUME SourceInv, NEW k \in Clocks, AttachClock(k)
  PROVE  SourceInv'
<1>1. /\ UNCHANGED <<active, lastTime, onNode, subscribed>>
      /\ attached' = attached \cup {k} /\ rosTime' = [rosTime EXCEPT ![k] = lastTime]
      /\ override' = [c \in Clocks |-> IF c \in {k} THEN active ELSE override[c]]
  BY DEF AttachClock, SetActive
<1>2. SourceOK'
  BY <1>1 DEF SourceInv, SourceOK
<1>3. \A c \in attached' : override'[c] = active' /\ rosTime'[c] = lastTime'
  BY <1>1 DEF SourceInv, SourceOK, ClocksAgree
<1> QED
  BY <1>1, <1>2, <1>3 DEF SourceInv, ClocksAgree

\* Every step of source, clocks and sleeps keeps the invariant.
LEMMA SourceStep == SourceInv /\ [TimeNext]_timeVars => SourceInv'
<1> SUFFICES ASSUME SourceInv, [TimeNext]_timeVars
             PROVE  SourceInv'
  OBVIOUS
<1>1. ASSUME NEW b \in BOOLEAN, AttachNode(b)
      PROVE  SourceInv'
  BY <1>1 DEF AttachNode, SourceInv, SourceOK, ClocksAgree, clockVars
<1>2. CASE DetachNode
  BY <1>2 DEF DetachNode, SourceInv, SourceOK, ClocksAgree, clockVars
<1>3. ASSUME NEW t \in Times, ClockMessage(t)
      PROVE  SourceInv'
  <2>1. /\ UNCHANGED <<active, attached, onNode, subscribed, override>> /\ lastTime' = t
        /\ rosTime' = [c \in Clocks |-> IF c \in attached THEN t ELSE rosTime[c]]
    BY <1>3 DEF ClockMessage, SetTime
  <2>2. SourceOK'
    BY <2>1 DEF SourceInv, SourceOK
  <2> QED
    BY <2>1, <2>2 DEF SourceInv, SourceOK, ClocksAgree
<1>4. ASSUME NEW s \in Sleepers,
             \/ \E c \in Clocks, t \in Times : SleepUntil(s, c, t)
             \/ Worker(s) \/ PostCallback(s) \/ SleepReturns(s)
      PROVE  SourceInv'
  BY <1>4, SleepsKeep DEF SleepUntil, Worker, ReadOverride, ReadNow, Wake, PostCallback,
     SleepReturns, sleepRest
<1>5. ASSUME Tick \/ Shutdown \/ UNCHANGED timeVars
      PROVE  SourceInv'
  BY <1>5, SleepsKeep DEF Tick, Shutdown, timeVars
<1> QED
  BY <1>1, <1>2, <1>3, <1>4, <1>5, SwitchKeeps, AttachKeeps DEF TimeNext

LEMMA SourceInit == TimeInit => SourceInv
<1> SUFFICES ASSUME TimeInit
             PROVE  SourceInv
  OBVIOUS
<1>1. /\ active \in BOOLEAN /\ subscribed = active /\ onNode = TRUE
      /\ attached = {} /\ lastTime = 0 /\ 0 \in Times
      /\ override = [c \in Clocks |-> FALSE] /\ rosTime = [c \in Clocks |-> 0]
  BY TimeBounds DEF TimeInit, Times
<1>2. override \in [Clocks -> BOOLEAN] /\ rosTime \in [Clocks -> Times]
  BY <1>1
<1> QED
  BY <1>1, <1>2 DEF SourceInv, SourceOK, ClocksAgree

\* attachClock, the setter of isRosTimeActive and _clockCallback: all clocks of a time
\* source show what it shows, whatever the order of these calls.
THEOREM ClocksShowTheSource == TimeSpec => []ClocksAgree
<1>1. SourceInv => ClocksAgree
  BY DEF SourceInv
<1> QED
  BY <1>1, SourceInit, SourceStep, PTL DEF TimeSpec

\* The time source has its subscription of /clock just while it is on a node and active:
\* no second one is made and none is left behind.
THEOREM ListensWhileActive == TimeSpec => [](subscribed <=> active /\ onNode)
<1>1. SourceInv => (subscribed <=> active /\ onNode)
  BY DEF SourceInv
<1> QED
  BY <1>1, SourceInit, SourceStep, PTL DEF TimeSpec

\* Parameters and clocks together, which share the switch of the time source: between
\* calls every attached clock runs on simulated time if and only if use_sim_time says so.
THEOREM ClocksFollowParameter ==
  ASSUME ~RemoveWithin
  PROVE  Spec /\ TimeSpec =>
           [](stack = <<>> /\ parameters[SimTime] \in {Bool(TRUE), Bool(FALSE)} =>
                \A c \in attached : override[c] <=> parameters[SimTime] = Bool(TRUE))
<1>1. ASSUME TimeFollowsParameter, SourceInv, stack = <<>>,
             parameters[SimTime] \in {Bool(TRUE), Bool(FALSE)}, NEW c \in attached
      PROVE  override[c] <=> parameters[SimTime] = Bool(TRUE)
  <2>1. active <=> parameters[SimTime] = Bool(TRUE)
    BY <1>1, Zenon DEF TimeFollowsParameter
  <2>2. override[c] = active
    BY <1>1, Zenon DEF SourceInv, ClocksAgree
  <2> QED
    BY <2>1, <2>2, Zenon
<1>2. TimeFollowsParameter /\ SourceInv =>
        (stack = <<>> /\ parameters[SimTime] \in {Bool(TRUE), Bool(FALSE)} =>
           \A c \in attached : override[c] <=> parameters[SimTime] = Bool(TRUE))
  BY <1>1, Zenon
<1> QED
  BY <1>2, TimeFollows, SourceInit, SourceStep, PTL DEF TimeSpec

-------------------------------------------------------------------------------
(* The sleeps on these clocks                                                  *)

\* Appending to the queue of a sleep.
LEMMA Queued ==
  ASSUME NEW q \in Seq(BOOLEAN), NEW b \in BOOLEAN
  PROVE  /\ Append(q, b) \in Seq(BOOLEAN) /\ Append(q, b) # <<>>
         /\ Len(Append(q, b)) = Len(q) + 1 /\ Append(q, b)[Len(q) + 1] = b
         /\ \A i \in 1 .. Len(q) : Append(q, b)[i] = q[i]
<1>1. Append(q, b) \in Seq(BOOLEAN) /\ Len(Append(q, b)) = Len(q) + 1
  BY AppendProperties
<1>2. Append(q, b)[Len(q) + 1] = b /\ \A i \in 1 .. Len(q) : Append(q, b)[i] = q[i]
  BY AppendProperties
<1>3. Append(q, b) # <<>>
  BY AppendProperties
<1> QED
  BY <1>1, <1>2, <1>3

\* A jump of the clocks cs: everybody who listens has a call in the queue then, and a change
\* of the source is there or noted as dropped; nothing that was there goes.
LEMMA JumpIs ==
  ASSUME SleepsOK, NEW cs \in SUBSET Clocks, NEW change \in BOOLEAN, Jump(cs, change)
  PROVE  /\ UNCHANGED <<at, clock, until, set, deadline, changed, future, result>>
         /\ queue' \in [Sleepers -> Seq(BOOLEAN)] /\ missed' \in [Sleepers -> BOOLEAN]
         /\ \A s \in Sleepers : /\ Alerted(s) => Alerted(s)'
                                /\ queue[s] # <<>> => queue'[s] # <<>>
                                /\ Asleep(s) /\ clock[s] \in cs =>
                                     queue'[s] # <<>> /\ (change => Alerted(s)')
<1> DEFINE heard == UNION {Listening(c) : c \in cs}
           full == {s \in heard : Len(queue[s]) = QueueSize}
<1>1. /\ UNCHANGED <<at, clock, until, set, deadline, changed, future, result>>
      /\ queue' = [s \in Sleepers |-> IF s \in heard \ full THEN Append(queue[s], change)
                                        ELSE queue[s]]
      /\ missed' = [s \in Sleepers |-> missed[s] \/ (change /\ s \in full)]
  BY Zenon DEF Jump
<1>2. \A s \in Sleepers : s \in heard <=> Asleep(s) /\ clock[s] \in cs
  <2>1. \A s \in Sleepers, c \in cs : s \in Listening(c) <=> Asleep(s) /\ clock[s] = c
    BY Zenon DEF Listening, Asleep
  <2>2. \A s : s \in heard <=> \E c \in cs : s \in Listening(c)
    BY Zenon
  <2> QED
    BY <2>1, <2>2, Zenon
<1>3. \A s \in Sleepers : queue[s] \in Seq(BOOLEAN) /\ Len(queue[s]) \in Nat
  BY DEF SleepsOK
<1> HIDE DEF heard
<1>4. queue' \in [Sleepers -> Seq(BOOLEAN)]
  <2>1. \A s \in Sleepers : (IF s \in heard \ full THEN Append(queue[s], change)
                              ELSE queue[s]) \in Seq(BOOLEAN)
    BY <1>3, Queued
  <2> QED
    BY <1>1, <2>1, Zenon
<1>5. missed' \in [Sleepers -> BOOLEAN]
  BY <1>1, Zenon
<1>6. ASSUME NEW s \in Sleepers
      PROVE  /\ Alerted(s) => Alerted(s)'
             /\ queue[s] # <<>> => queue'[s] # <<>>
             /\ s \in heard => queue'[s] # <<>> /\ (change => Alerted(s)')
  <2>1. /\ queue'[s] = IF s \in heard \ full THEN Append(queue[s], change) ELSE queue[s]
        /\ missed'[s] = (missed[s] \/ (change /\ s \in full))
        /\ set'[s] = set[s]
    BY <1>1, Zenon
  <2>2. CASE s \in heard \ full
    <3>1. /\ queue'[s] # <<>> /\ Len(queue'[s]) = Len(queue[s]) + 1
          /\ queue'[s][Len(queue[s]) + 1] = change
          /\ \A i \in 1 .. Len(queue[s]) : queue'[s][i] = queue[s][i]
      BY <2>1, <2>2, <1>3, Queued
    <3>2. Alerted(s) => Alerted(s)'
      <4>1. ASSUME NEW i \in 1 .. Len(queue[s]), queue[s][i]
            PROVE  \E j \in 1 .. Len(queue'[s]) : queue'[s][j]
        <5>1. i \in 1 .. Len(queue'[s]) /\ queue'[s][i]
          BY <3>1, <4>1, <1>3
        <5> QED
          BY <5>1
      <4> QED
        BY <4>1, <2>1, Zenon DEF Alerted
    <3>3. change => Alerted(s)'
      <4>1. Len(queue[s]) + 1 \in 1 .. Len(queue'[s])
        BY <3>1, <1>3
      <4> QED
        BY <4>1, <3>1, Zenon DEF Alerted
    <3> QED
      BY <3>1, <3>2, <3>3
  <2>3. CASE s \notin heard \ full
    <3>1. queue'[s] = queue[s]
      BY <2>1, <2>3, Zenon
    <3>2. Alerted(s) => Alerted(s)'
      BY <3>1, <2>1, Zenon DEF Alerted
    <3>3. s \in heard => Len(queue[s]) = QueueSize
      BY <2>3
    <3>4. s \in heard => queue[s] # <<>>
      BY <3>3, TimeBounds
    <3>5. s \in heard /\ change => missed'[s]
      BY <2>1, <2>3, <3>3, Zenon
    <3> QED
      BY <3>1, <3>2, <3>4, <3>5, Zenon DEF Alerted
  <2> QED
    BY <2>2, <2>3
<1> QED
  BY <1>1, <1>2, <1>4, <1>5, <1>6

\* What a jump leaves: a sleep whose clock was switched is told of the change, one whose
\* clock went on has a call in its queue.
LEMMA JumpKeeps ==
  ASSUME SourceOK, SleepInv, NEW cs \in SUBSET Clocks, NEW change \in BOOLEAN, Jump(cs, change),
         system' = system, SourceOK', \A c \in Clocks \ attached' : ~override'[c],
         \A c \in Clocks : override'[c] = override[c] \/ (change /\ c \in cs),
         \A c \in Clocks : c \in cs \/ ~override'[c] \/ rosTime'[c] <= rosTime[c]
  PROVE  SleepInv'
<1>1. SleepsOK /\ \A s \in Sleepers : (changed[s] => set[s]) /\ (future[s] /\ ~Alerted(s) => OnItsWay(s))
  BY DEF SleepInv
<1>2. /\ at' = at /\ clock' = clock /\ until' = until /\ set' = set /\ deadline' = deadline
      /\ changed' = changed /\ future' = future
      /\ queue' \in [Sleepers -> Seq(BOOLEAN)] /\ missed' \in [Sleepers -> BOOLEAN]
      /\ \A s \in Sleepers : /\ Alerted(s) => Alerted(s)'
                             /\ queue[s] # <<>> => queue'[s] # <<>>
                             /\ Asleep(s) /\ clock[s] \in cs =>
                                  queue'[s] # <<>> /\ (change => Alerted(s)')
  BY <1>1, JumpIs
<1>3. SleepsOK'
  BY <1>1, <1>2, Zenon DEF SleepsOK, Asleep
<1>4. ASSUME NEW s \in Sleepers, future'[s], ~Alerted(s)'
      PROVE  OnItsWay(s)'
  <2>1. future[s] /\ ~Alerted(s) /\ OnItsWay(s)
    BY <1>1, <1>2, <1>4, Zenon DEF Alerted
  <2> DEFINE c == clock[s]
  <2>2. CASE ~Asleep(s)
    BY <2>2, <1>2 DEF OnItsWay, Asleep
  <2>3. CASE Asleep(s)
    <3>1. c \in Clocks /\ c' = c /\ at'[s] = at[s] /\ until'[s] = until[s] /\ deadline'[s] = deadline[s]
      BY <1>1, <1>2, <2>3 DEF SleepsOK
    <3>2. override'[c] = override[c] /\ ~(c \in cs /\ change)
      BY <3>1, <1>2, <1>4, <2>3, Zenon DEF Alerted, Asleep
    <3>3. /\ override[c] \in BOOLEAN /\ rosTime[c] \in Nat /\ rosTime'[c] \in Nat
          /\ until[s] \in Nat
      BY <3>1, <1>1 DEF SourceOK, SleepsOK, Times
    <3>4. (at[s] \in {"queued", "waiting"} /\ override'[c] /\ rosTime'[c] >= until[s])
            => queue'[s] # <<>>
      <4>1. c \in cs => queue'[s] # <<>>
        BY <1>2, <2>3, Zenon DEF Asleep
      <4>2. c \notin cs /\ override'[c] => rosTime'[c] <= rosTime[c]
        BY <3>1
      <4>3. (at[s] \in {"queued", "waiting"} /\ override[c] /\ rosTime[c] >= until[s])
              => queue'[s] # <<>>
        BY <2>1, <1>2, Zenon DEF OnItsWay
      <4> QED
        BY <4>1, <4>2, <4>3, <3>2, <3>3
    <3> QED
      BY <3>1, <3>2, <3>4, <2>1 DEF OnItsWay
  <2> QED
    BY <2>2, <2>3
<1>5. \A s \in Sleepers : changed'[s] => set'[s]
  BY <1>1, <1>2
<1> QED
  BY <1>3, <1>4, <1>5 DEF SleepInv

\* The setter, attachClock and _clockCallback jump where they have to.
LEMMA SourceJumps ==
  ASSUME SourceInv, SourceInv', SleepInv,
         \/ \E b \in BOOLEAN : SetRosTimeActive(b)
         \/ \E c \in Clocks : AttachClock(c)
         \/ \E t \in Times : ClockMessage(t)
  PROVE  SleepInv'
<1>1. SourceOK /\ SourceOK' /\ ClocksAgree /\ ClocksAgree'
      /\ \A c \in Clocks \ attached : ~override[c]
  BY DEF SourceInv, SleepInv
<1>2. ASSUME NEW b \in BOOLEAN, SetRosTimeActive(b)
      PROVE  SleepInv'
  <2> DEFINE cs == {c \in attached : override[c] # b}
  <2>1. /\ Jump(cs, TRUE) /\ UNCHANGED <<system, attached, rosTime>> /\ active # b
        /\ override' = [c \in Clocks |-> IF c \in attached THEN b ELSE override[c]]
    BY <1>2 DEF SetRosTimeActive, SetActive
  <2>2. cs \in SUBSET Clocks
    BY <1>1 DEF SourceOK
  <2>3. \A c \in Clocks : override'[c] = override[c] \/ c \in cs
    BY <2>1
  <2>4. \A c \in Clocks \ attached' : ~override'[c]
    BY <2>1, <1>1
  <2>5. \A c \in Clocks : rosTime'[c] <= rosTime[c]
    BY <2>1, <1>1 DEF SourceOK, Times
  <2> HIDE DEF cs
  <2> QED
    BY <1>1, <2>1, <2>2, <2>3, <2>4, <2>5, JumpKeeps
<1>3. ASSUME NEW k \in Clocks, AttachClock(k)
      PROVE  SleepInv'
  <2> DEFINE cs == {c \in {k} : override[c] # active}
  <2>1. /\ Jump(cs, TRUE) /\ UNCHANGED <<system, active>> /\ k \notin attached
        /\ attached' = attached \cup {k} /\ rosTime' = [rosTime EXCEPT ![k] = lastTime]
        /\ override' = [c \in Clocks |-> IF c \in {k} THEN active ELSE override[c]]
    BY <1>3 DEF AttachClock, SetActive
  <2>2. cs \in SUBSET Clocks
    OBVIOUS
  <2>3. \A c \in Clocks : override'[c] = override[c] \/ c \in cs
    BY <2>1
  <2>4. \A c \in Clocks \ attached' : ~override'[c]
    BY <2>1, <1>1
  <2>5. \A c \in Clocks : c \in cs \/ ~override'[c] \/ rosTime'[c] <= rosTime[c]
    <3>1. \A c \in Clocks \ {k} : rosTime'[c] <= rosTime[c]
      BY <2>1, <1>1 DEF SourceOK, Times
    <3>2. k \in cs \/ ~override'[k]
      BY <2>1, <1>1 DEF SourceOK
    <3> QED
      BY <3>1, <3>2
  <2> HIDE DEF cs
  <2> QED
    BY <1>1, <2>1, <2>2, <2>3, <2>4, <2>5, JumpKeeps
<1>4. ASSUME NEW t \in Times, ClockMessage(t)
      PROVE  SleepInv'
  <2> DEFINE cs == {c \in attached : override[c] /\ t > rosTime[c]}
  <2>1. /\ Jump(cs, FALSE) /\ UNCHANGED <<system, attached, override>>
        /\ rosTime' = [c \in Clocks |-> IF c \in attached THEN t ELSE rosTime[c]]
    BY <1>4 DEF ClockMessage, SetTime
  <2>2. cs \in SUBSET Clocks
    BY <1>1 DEF SourceOK
  <2>3. \A c \in Clocks : override'[c] = override[c]
    BY <2>1
  <2>4. \A c \in Clocks \ attached' : ~override'[c]
    BY <2>1, <1>1
  <2>5. \A c \in Clocks : c \in cs \/ ~override'[c] \/ rosTime'[c] <= rosTime[c]
    BY <2>1, <1>1 DEF SourceOK, Times
  <2> HIDE DEF cs
  <2> QED
    BY <1>1, <2>1, <2>2, <2>3, <2>4, <2>5, JumpKeeps
<1> QED
  BY <1>2, <1>3, <1>4

\* A step that leaves the sleeps, the clocks and both times alone.
LEMMA SleepsRest ==
  ASSUME SleepInv, UNCHANGED <<attached, clockVars, system, sleepVars>>
  PROVE  SleepInv'
BY DEF SleepInv, SleepsOK, Asleep, Alerted, OnItsWay, clockVars, sleepVars

\* As system time passes, a deadline can only come.
LEMMA TickKeeps ==
  ASSUME SleepInv, Tick
  PROVE  SleepInv'
<1>1. /\ UNCHANGED <<attached, override, rosTime, at, clock, until, set, deadline, queue>>
      /\ UNCHANGED <<changed, missed, future>> /\ system' = system + 1 /\ system < MaxTime
  BY DEF Tick, sourceVars, clockVars, sleepVars
<1>2. SleepsOK'
  <2>1. system' \in Times
    BY <1>1, TimeBounds DEF SleepInv, SleepsOK, Times
  <2> QED
    BY <1>1, <2>1 DEF SleepInv, SleepsOK, Asleep
<1>3. ASSUME NEW s \in Sleepers, future[s], ~Alerted(s), OnItsWay(s)
      PROVE  OnItsWay(s)'
  BY <1>1, <1>3, ClocksAssumption DEF SleepInv, SleepsOK, OnItsWay, Times
<1>4. ASSUME NEW s \in Sleepers, future'[s], ~Alerted(s)'
      PROVE  OnItsWay(s)'
  <2>1. future[s] /\ ~Alerted(s)
    BY <1>1, <1>4 DEF Alerted
  <2> QED
    BY <2>1, <1>3 DEF SleepInv
<1> QED
  BY <1>1, <1>2, <1>4 DEF SleepInv

\* The steps of a sleep and its worker leave the other sleeps alone.
LEMMA OneSleep ==
  ASSUME SleepInv, SleepsOK', UNCHANGED <<attached, override, rosTime, system>>, NEW s \in Sleepers,
         \A r \in Sleepers \ {s} :
            /\ at'[r] = at[r] /\ clock'[r] = clock[r] /\ until'[r] = until[r]
            /\ set'[r] = set[r] /\ deadline'[r] = deadline[r] /\ queue'[r] = queue[r]
            /\ changed'[r] = changed[r] /\ missed'[r] = missed[r] /\ future'[r] = future[r],
         changed'[s] => set'[s],
         future'[s] /\ ~Alerted(s)' => OnItsWay(s)'
  PROVE  SleepInv'
<1>1. ASSUME NEW r \in Sleepers \ {s}, future'[r], ~Alerted(r)'
      PROVE  OnItsWay(r)'
  <2>1. future[r] /\ ~Alerted(r)
    BY <1>1 DEF Alerted
  <2>2. OnItsWay(r)
    BY <2>1 DEF SleepInv
  <2> QED
    BY <2>2 DEF OnItsWay
<1>2. \A r \in Sleepers \ {s} : changed'[r] => set'[r]
  BY DEF SleepInv
<1>3. \A r \in Sleepers : future'[r] /\ ~Alerted(r)' => OnItsWay(r)'
  BY <1>1
<1>4. \A c \in Clocks \ attached' : ~override'[c]
  BY DEF SleepInv
<1> QED
  BY <1>2, <1>3, <1>4 DEF SleepInv

\* sleepUntil, and the worker up to its wait.
LEMMA SleepBegins ==
  ASSUME SourceOK, SleepInv, NEW s \in Sleepers, NEW k \in Clocks, NEW t \in Times, SleepUntil(s, k, t)
  PROVE  SleepInv'
<1>1. /\ UNCHANGED <<attached, override, rosTime, system, set, deadline, queue, changed, missed>>
      /\ at' = [at EXCEPT ![s] = "queued"] /\ clock' = [clock EXCEPT ![s] = k]
      /\ until' = [until EXCEPT ![s] = t] /\ future' = [future EXCEPT ![s] = Now(k) < t]
  BY DEF SleepUntil, sleepRest, clockVars, sourceVars
<1>2. SleepsOK
  BY DEF SleepInv
<1>3. (Now(k) < t) \in BOOLEAN
  BY DEF Now
<1>4. SleepsOK'
  BY <1>1, <1>2, <1>3 DEF SleepsOK, Asleep
<1>5. ASSUME future'[s]
      PROVE  OnItsWay(s)'
  <2>1. Now(k) < t /\ at'[s] = "queued" /\ clock'[s] = k /\ until'[s] = t
    BY <1>1, <1>2, <1>5 DEF SleepsOK
  <2>2. override[k] => rosTime[k] < t
    BY <2>1 DEF Now
  <2>3. rosTime[k] \in Nat /\ t \in Nat
    BY DEF SourceOK, Times
  <2> QED
    BY <1>1, <2>1, <2>2, <2>3 DEF OnItsWay
<1>6. changed'[s] => set'[s]
  BY <1>1 DEF SleepInv
<1>7. \A r \in Sleepers \ {s} :
         /\ at'[r] = at[r] /\ clock'[r] = clock[r] /\ until'[r] = until[r]
         /\ set'[r] = set[r] /\ deadline'[r] = deadline[r] /\ queue'[r] = queue[r]
         /\ changed'[r] = changed[r] /\ missed'[r] = missed[r] /\ future'[r] = future[r]
  BY <1>1, <1>2 DEF SleepsOK
<1>8. UNCHANGED <<attached, override, rosTime, system>>
  BY <1>1
<1> QED
  BY <1>4, <1>5, <1>6, <1>7, <1>8, OneSleep

LEMMA WorkerKeeps ==
  ASSUME SourceOK, SleepInv, NEW s \in Sleepers, Worker(s) \/ SleepReturns(s)
  PROVE  SleepInv'
<1>1. SleepsOK /\ (changed[s] => set[s]) /\ (future[s] /\ ~Alerted(s) => OnItsWay(s))
  BY DEF SleepInv
<1>2. /\ UNCHANGED <<attached, override, rosTime, system>>
      /\ UNCHANGED <<clock, until, set, queue, changed, missed, future>>
      /\ at[s] \in {"queued", "deciding", "waiting", "woken"}
      /\ \E a \in {"deciding", "waiting", "woken", "done"} : at' = [at EXCEPT ![s] = a]
  BY DEF Worker, ReadOverride, ReadNow, Wake, SleepReturns, sleepRest, clockVars, sourceVars
<1>3. PICK a \in {"deciding", "waiting", "woken", "done"} : at' = [at EXCEPT ![s] = a]
  BY <1>2
<1>4. clock[s] \in Clocks /\ at'[s] = a
  BY <1>1, <1>2, <1>3 DEF SleepsOK, Asleep
<1>5. /\ system \in Nat /\ until[s] \in Nat /\ rosTime[clock[s]] \in Nat
      /\ override[clock[s]] \in BOOLEAN
  BY <1>1, <1>4 DEF SourceOK, SleepsOK, Times
<1>6. Now(clock[s]) \in Nat /\ (~override[clock[s]] => Now(clock[s]) = system)
  BY <1>5 DEF Now
<1>7. ASSUME ReadNow(s)
      PROVE  /\ at[s] = "deciding" /\ a = "waiting" /\ deadline'[s] \in Nat
             /\ deadline' = [deadline EXCEPT ![s] = deadline'[s]]
             /\ ~override[clock[s]] => deadline'[s] <= until[s] \/ deadline'[s] <= system
  <2> DEFINE d == IF until[s] <= Now(clock[s]) THEN system
                  ELSE system + (until[s] - Now(clock[s]))
  <2>1. at[s] = "deciding" /\ at' = [at EXCEPT ![s] = "waiting"] /\ deadline' = [deadline EXCEPT ![s] = d]
    BY <1>7 DEF ReadNow
  <2>2. d \in Nat
    BY <1>5, <1>6
  <2>3. ~override[clock[s]] => d <= until[s] \/ d <= system
    BY <1>5, <1>6
  <2> HIDE DEF d
  <2>4. deadline'[s] = d /\ a = "waiting"
    BY <2>1, <1>1, <1>4 DEF SleepsOK
  <2> QED
    BY <2>1, <2>2, <2>3, <2>4
<1>8. ASSUME ~ReadNow(s)
      PROVE  deadline' = deadline
  BY <1>8 DEF Worker, ReadOverride, Wake, SleepReturns
<1>9. deadline' \in [Sleepers -> Nat \cup {None}]
      /\ \A r \in Sleepers \ {s} : deadline'[r] = deadline[r]
  <2>1. CASE ReadNow(s)
    BY <2>1, <1>7, <1>1 DEF SleepsOK
  <2>2. CASE ~ReadNow(s)
    BY <2>2, <1>8, <1>1 DEF SleepsOK
  <2> QED
    BY <2>1, <2>2
<1>10. SleepsOK'
  BY <1>1, <1>2, <1>3, <1>4, <1>9 DEF SleepsOK, Asleep
<1>11. ASSUME future'[s], ~Alerted(s)'
       PROVE  OnItsWay(s)'
  <2>1. OnItsWay(s)
    BY <1>1, <1>2, <1>11 DEF Alerted
  <2>2. CASE ReadOverride(s)
    <3>1. at[s] = "queued" /\ a = (IF override[clock[s]] THEN "waiting" ELSE "deciding")
      BY <2>2, <1>1, <1>4 DEF ReadOverride, SleepsOK
    <3> QED
      BY <3>1, <2>1, <1>2, <1>4 DEF OnItsWay
  <2>3. CASE ReadNow(s)
    BY <2>3, <2>1, <1>2, <1>4, <1>7, ClocksAssumption DEF OnItsWay
  <2>4. CASE Wake(s) \/ SleepReturns(s)
    <3>1. a \in {"woken", "done"}
      BY <2>4, <1>1, <1>4 DEF Wake, SleepReturns, SleepsOK
    <3> QED
      BY <3>1, <1>4 DEF OnItsWay
  <2> QED
    BY <2>2, <2>3, <2>4 DEF Worker
<1>12. \A r \in Sleepers \ {s} :
         /\ at'[r] = at[r] /\ clock'[r] = clock[r] /\ until'[r] = until[r]
         /\ set'[r] = set[r] /\ deadline'[r] = deadline[r] /\ queue'[r] = queue[r]
         /\ changed'[r] = changed[r] /\ missed'[r] = missed[r] /\ future'[r] = future[r]
  BY <1>1, <1>2, <1>3, <1>9 DEF SleepsOK
<1>13. (changed'[s] => set'[s]) /\ UNCHANGED <<attached, override, rosTime, system>>
  BY <1>1, <1>2
<1> QED
  BY <1>10, <1>11, <1>12, <1>13, OneSleep

\* _post_callback: what it takes from the queue is in the event then, if it matters.
LEMMA PostKeeps ==
  ASSUME SourceOK, SleepInv, NEW s \in Sleepers, PostCallback(s)
  PROVE  SleepInv'
<1> DEFINE q == queue[s]
           news == changed[s] \/ Head(q)
           e == set[s] \/ news \/ Now(clock[s]) >= until[s]
<1>1. SleepsOK /\ (changed[s] => set[s]) /\ (future[s] /\ ~Alerted(s) => OnItsWay(s))
  BY DEF SleepInv
<1>2. /\ UNCHANGED <<attached, override, rosTime, system>>
      /\ UNCHANGED <<at, clock, until, deadline, missed, future>>
      /\ q # <<>> /\ queue' = [queue EXCEPT ![s] = Tail(q)]
      /\ changed' = [changed EXCEPT ![s] = news]
      /\ set' = [set EXCEPT ![s] = set[s] \/ changed'[s] \/ Now(clock[s]) >= until[s]]
  BY DEF PostCallback, sleepRest, clockVars, sourceVars
<1>3. q \in Seq(BOOLEAN)
  BY <1>1 DEF SleepsOK
<1>4. /\ Head(q) \in BOOLEAN /\ Head(q) = q[1] /\ Tail(q) \in Seq(BOOLEAN)
      /\ Len(Tail(q)) = Len(q) - 1 /\ Len(q) \in Nat \ {0}
      /\ \A i \in 1 .. Len(Tail(q)) : Tail(q)[i] = q[i + 1]
  <2>1. q # <<>>
    BY <1>2
  <2> HIDE DEF q
  <2>2. /\ Head(q) = q[1] /\ Head(q) \in BOOLEAN /\ Tail(q) \in Seq(BOOLEAN)
        /\ Len(Tail(q)) = Len(q) - 1 /\ \A i \in 1 .. Len(Tail(q)) : Tail(q)[i] = q[i + 1]
    BY <2>1, <1>3, HeadTailProperties
  <2>3. Len(q) \in Nat \ {0}
    BY <2>1, <1>3
  <2> QED
    BY <2>2, <2>3
<1>5. changed'[s] = news /\ set'[s] = e /\ queue'[s] = Tail(q) /\ e \in BOOLEAN
  BY <1>1, <1>2, Zenon DEF SleepsOK
<1> HIDE DEF news, e
<1>6. SleepsOK'
  <2>1. news \in BOOLEAN
    BY <1>4, <1>1 DEF news, SleepsOK
  <2>2. set' = [set EXCEPT ![s] = e]
    BY <1>2, <1>5 DEF e
  <2> HIDE DEF q
  <2> QED
    BY <1>1, <1>2, <1>4, <1>5, <2>1, <2>2 DEF SleepsOK, Asleep
<1>7. changed'[s] => set'[s]
  BY <1>5 DEF e
<1>8. ASSUME future'[s], ~Alerted(s)'
      PROVE  OnItsWay(s)'
  <2>1. ~e /\ ~missed[s] /\ \A i \in 1 .. Len(Tail(q)) : ~Tail(q)[i]
    BY <1>2, <1>5, <1>8 DEF Alerted
  <2>2. ~set[s] /\ ~Head(q) /\ ~(Now(clock[s]) >= until[s])
    BY <2>1 DEF e, news
  <2>3. ASSUME NEW i \in 1 .. Len(q)
        PROVE  ~q[i]
    <3>1. CASE i = 1
      BY <3>1, <2>2, <1>4
    <3>2. CASE i # 1
      <4>1. i - 1 \in 1 .. Len(Tail(q)) /\ (i - 1) + 1 = i
        BY <3>2, <1>4
      <4>2. Tail(q)[i - 1] = q[i]
        BY <4>1, <1>4
      <4> QED
        BY <4>1, <4>2, <2>1
    <3> QED
      BY <3>1, <3>2
  <2>4. OnItsWay(s)
    BY <1>1, <1>2, <1>8, <2>1, <2>2, <2>3, Zenon DEF Alerted
  <2> QED
    BY <2>4, <2>2, <1>2 DEF OnItsWay, Now
<1>9. \A r \in Sleepers \ {s} :
         /\ at'[r] = at[r] /\ clock'[r] = clock[r] /\ until'[r] = until[r]
         /\ set'[r] = set[r] /\ deadline'[r] = deadline[r] /\ queue'[r] = queue[r]
         /\ changed'[r] = changed[r] /\ missed'[r] = missed[r] /\ future'[r] = future[r]
  BY <1>1, <1>2 DEF SleepsOK
<1>10. UNCHANGED <<attached, override, rosTime, system>>
  BY <1>2
<1> QED
  BY <1>6, <1>7, <1>8, <1>9, <1>10, OneSleep

LEMMA SleepStep == SourceInv /\ SleepInv /\ [TimeNext]_timeVars => (SourceInv /\ SleepInv)'
<1> SUFFICES ASSUME SourceInv, SleepInv, [TimeNext]_timeVars
             PROVE  (SourceInv /\ SleepInv)'
  OBVIOUS
<1>1. SourceInv' /\ SourceOK
  BY SourceStep DEF SourceInv
<1>2. ASSUME \/ \E b \in BOOLEAN : AttachNode(b)
             \/ DetachNode \/ Shutdown \/ UNCHANGED timeVars
      PROVE  SleepInv'
  BY <1>2, SleepsRest DEF AttachNode, DetachNode, Shutdown, timeVars, sourceVars
<1>3. CASE \/ \E b \in BOOLEAN : SetRosTimeActive(b)
           \/ \E c \in Clocks : AttachClock(c)
           \/ \E t \in Times : ClockMessage(t)
  BY <1>1, <1>3, SourceJumps
<1>4. ASSUME NEW s \in Sleepers,
             \/ \E c \in Clocks, t \in Times : SleepUntil(s, c, t)
             \/ Worker(s) \/ PostCallback(s) \/ SleepReturns(s)
      PROVE  SleepInv'
  BY <1>1, <1>4, SleepBegins, WorkerKeeps, PostKeeps
<1>5. CASE Tick
  BY <1>1, <1>5, TickKeeps
<1> QED
  BY <1>1, <1>2, <1>3, <1>4, <1>5 DEF TimeNext

LEMMA SleepStart == TimeInit => SourceInv /\ SleepInv
<1> SUFFICES ASSUME TimeInit
             PROVE  SleepInv
  BY SourceInit
<1>1. SleepsOK
  <2>1. <<>> \in Seq(BOOLEAN) /\ 0 \in Times
    BY EmptySeq, TimeBounds DEF Times
  <2> QED
    BY <2>1 DEF TimeInit, SleepsOK, Asleep
<1>2. \A s \in Sleepers : at[s] = "idle" /\ ~changed[s] /\ ~future[s]
  BY DEF TimeInit
<1>3. \A c \in Clocks : ~override[c]
  BY DEF TimeInit
<1> QED
  BY <1>1, <1>2, <1>3 DEF SleepInv

\* A jump is not lost between the worker's questions and its wait (src/clock_event.cpp:71):
\* who waits for a target that lay ahead and that the clock has reached has been woken, has
\* a jump in its queue or has a deadline that has passed, unless a change of the time source
\* was dropped for it.  The sleep is woken for that, on whatever time its clock began.
THEOREM JumpsAreNotLost == TimeSpec => []NoJumpIsLost
<1>1. ASSUME SourceInv, SleepInv, NEW s \in Sleepers, at[s] = "waiting", ~missed[s],
             future[s], Reached(s)
      PROVE  Stirs(s)
  <2>1. clock[s] \in Clocks /\ queue[s] \in Seq(BOOLEAN) /\ Now(clock[s]) >= until[s]
    BY <1>1 DEF SleepInv, SleepsOK, Asleep, Reached
  <2>2. CASE Alerted(s)
    <3>1. (\E i \in 1 .. Len(queue[s]) : queue[s][i]) => queue[s] # <<>>
      BY <2>1
    <3> QED
      BY <2>2, <3>1, <1>1, Zenon DEF Alerted, Stirs
  <2>3. CASE ~Alerted(s)
    <3>1. OnItsWay(s)
      BY <2>3, <1>1 DEF SleepInv
    <3>2. CASE override[clock[s]]
      BY <3>1, <3>2, <2>1, <1>1 DEF OnItsWay, Now, Stirs
    <3>3. CASE ~override[clock[s]]
      <4>1. /\ deadline[s] # None /\ (deadline[s] <= until[s] \/ deadline[s] <= system)
            /\ system >= until[s]
        BY <3>1, <3>3, <2>1, <1>1 DEF OnItsWay, Now
      <4>2. deadline[s] \in Nat /\ system \in Nat /\ until[s] \in Nat
        BY <4>1, <1>1 DEF SleepInv, SleepsOK, Times
      <4> QED
        BY <4>1, <4>2 DEF Stirs
    <3> QED
      BY <3>2, <3>3
  <2> QED
    BY <2>2, <2>3
<1>2. SourceInv /\ SleepInv => NoJumpIsLost
  BY <1>1 DEF NoJumpIsLost, SleepInv
<1> QED
  BY <1>2, SleepStart, SleepStep, PTL DEF TimeSpec

-------------------------------------------------------------------------------
(* The life cycle of a managed node (Lifecycle)                                *)

\* From a transition state the machine of rcl comes to rest, or to the processing of an
\* error, and from there to rest; never back into a transition.
LEMMA LeavesToRest ==
  /\ \A s \in Busy, code \in Codes \ {"ERROR"} : Leaves(s, code) \in Primary
  /\ \A s \in Busy : Leaves(s, "ERROR") = "errorprocessing"
  /\ \A code \in Codes : Leaves("errorprocessing", code) \in {"unconfigured", "finalized"}
  /\ Leaves("errorprocessing", "SUCCESS") = "unconfigured"
<1>1. ASSUME NEW s \in Busy, NEW code \in Codes \ {"ERROR"}
      PROVE  Leaves(s, code) \in Primary
  BY DEF Leaves, Busy, Codes, Primary
<1>2. ASSUME NEW s \in Busy
      PROVE  Leaves(s, "ERROR") = "errorprocessing"
  BY DEF Leaves, Busy
<1>3. ASSUME NEW code \in Codes
      PROVE  Leaves("errorprocessing", code) \in {"unconfigured", "finalized"}
  BY DEF Leaves
<1>4. Leaves("errorprocessing", "SUCCESS") = "unconfigured"
  BY DEF Leaves
<1> QED
  BY <1>1, <1>2, <1>3, <1>4

\* Where a transition leads, by its code, for the two specifications.
LEMMA LeavesAsMoves ==
  ASSUME NEW from \in Primary, NEW label \in Available(from)
  PROVE  /\ label \in Labels /\ Enters(label) \in Busy
         /\ label \in AsManagedNode!Moves /\ from \in AsManagedNode!Starts(label)
         /\ Leaves(Enters(label), "SUCCESS") = AsManagedNode!Leads(label)
         /\ Leaves(Enters(label), "FAILURE") \in {from, "finalized"}
BY DEF Primary, Available, Labels, Enters, Busy, Leaves, AsManagedNode!Moves,
       AsManagedNode!Starts, AsManagedNode!Leads

\* What answering somebody does.
LEMMA FinishIs ==
  ASSUME LifeOK, NEW who \in Requests \cup {Local}, NEW code \in Codes, Finish(who, code)
  PROVE  /\ phase' = "idle"
         /\ answer' \in [Requests -> {"none", "lost", "success", "failure"}]
         /\ who = Local => answer' = answer
         /\ who \in Requests =>
              answer' = [answer EXCEPT ![who] = IF code = "SUCCESS" THEN "success" ELSE "failure"]
BY LocalAssumption DEF Finish, LifeOK

\* The rest of a transition keeps the invariant, wherever it begins.
LEMMA ProceedKeeps ==
  ASSUME LifeOK, NEW from \in Primary, NEW label \in Available(from), start' = from,
         NEW who \in Requests \cup {Local}, caller' = who, UNCHANGED callbacks,
         who \in Requests => answer[who] = "none",
         NEW code \in Codes, Proceed(Enters(label), who, code)
  PROVE  LifeInv'
<1>1. Enters(label) \in Busy
  BY LeavesAsMoves
<1>2. CASE code # "ERROR"
  <2>1. state' = Leaves(Enters(label), code) /\ Finish(who, code)
    BY <1>2 DEF Proceed
  <2>2. state' \in Primary
    BY <1>1, <1>2, <2>1, LeavesToRest
  <2>3. /\ phase' = "idle"
        /\ answer' \in [Requests -> {"none", "lost", "success", "failure"}]
    BY <2>1, FinishIs
  <2> QED
    BY <2>2, <2>3 DEF LifeInv, LifeOK
<1>3. CASE code = "ERROR" /\ "errorprocessing" \in callbacks
  <2>1. state' = "errorprocessing" /\ phase' = "error" /\ answer' = answer
    BY <1>1, <1>3, LeavesToRest DEF Proceed
  <2> QED
    BY <2>1 DEF LifeInv, LifeOK
<1>4. CASE code = "ERROR" /\ "errorprocessing" \notin callbacks
  <2>1. state' = "unconfigured" /\ Finish(who, "SUCCESS")
    BY <1>1, <1>4, LeavesToRest DEF Proceed
  <2>2. /\ phase' = "idle"
        /\ answer' \in [Requests -> {"none", "lost", "success", "failure"}]
    BY <2>1, FinishIs DEF Codes
  <2> QED
    BY <2>1, <2>2 DEF LifeInv, LifeOK, Primary
<1> QED
  BY <1>2, <1>3, <1>4

\* From outside it is a move, of somebody who is told how it went, or nothing yet.
LEMMA ProceedAsMove ==
  ASSUME LifeOK, NEW from \in Primary, NEW label \in Available(from), start' = from,
         NEW who \in Requests \cup {Local},
         who \in Requests => answer[who] = "none",
         NEW code \in Codes, Proceed(Enters(label), who, code),
         (IF phase = "idle" THEN state ELSE start) = from
  PROVE  \/ AsManagedNode!Next
         \/ UNCHANGED <<IF phase = "idle" THEN state ELSE start, answer>>
<1> DEFINE rest == IF phase = "idle" THEN state ELSE start
<1>1. /\ label \in AsManagedNode!Moves /\ rest \in AsManagedNode!Starts(label)
      /\ Enters(label) \in Busy
      /\ Leaves(Enters(label), "SUCCESS") = AsManagedNode!Leads(label)
      /\ Leaves(Enters(label), "FAILURE") \in {rest, "finalized"}
  BY LeavesAsMoves
<1>2. ASSUME NEW verdict \in Codes, Finish(who, verdict), phase' = "idle",
             verdict = "SUCCESS" => state' \in {AsManagedNode!Leads(label), "unconfigured"},
             verdict # "SUCCESS" => state' \in {rest, "finalized"}
      PROVE  AsManagedNode!Next
  <2>1. rest' = state'
    BY <1>2
  <2>2. /\ verdict = "SUCCESS" => AsManagedNode!Succeeds(label)
        /\ verdict # "SUCCESS" => AsManagedNode!Fails(label)
    BY <1>2, <2>1 DEF AsManagedNode!Succeeds, AsManagedNode!Fails
  <2>3. CASE who = Local
    BY <1>1, <1>2, <2>2, <2>3, FinishIs DEF AsManagedNode!Next, AsManagedNode!Move
  <2>4. CASE who \in Requests
    BY <1>1, <1>2, <2>2, <2>4, FinishIs DEF AsManagedNode!Next, AsManagedNode!Asked
  <2> QED
    BY <2>3, <2>4
<1>3. CASE code # "ERROR"
  <2>1. state' = Leaves(Enters(label), code) /\ Finish(who, code) /\ phase' = "idle"
    BY <1>3 DEF Proceed, Finish
  <2>2. code \in {"SUCCESS", "FAILURE"}
    BY <1>3 DEF Codes
  <2> QED
    BY <1>1, <1>2, <2>1, <2>2
<1>4. CASE code = "ERROR" /\ "errorprocessing" \in callbacks
  <2>1. phase' = "error" /\ answer' = answer
    BY <1>1, <1>4, LeavesToRest DEF Proceed
  <2> QED
    BY <2>1
<1>5. CASE code = "ERROR" /\ "errorprocessing" \notin callbacks
  <2>1. state' = "unconfigured" /\ Finish(who, "SUCCESS") /\ phase' = "idle"
    BY <1>1, <1>5, LeavesToRest DEF Proceed, Finish
  <2> QED
    BY <1>2, <2>1 DEF Codes
<1> QED
  BY <1>3, <1>4, <1>5

\* Nothing can be asked for where nothing can start.
LEMMA AvailableWhere ==
  \A s : Available(s) # {} => s \in {"unconfigured", "inactive", "active"}
BY DEF Available

\* The call begins: with its first callback, or with all of it.
LEMMA ChangeKeeps ==
  ASSUME LifeInv, NEW who \in Requests \cup {Local}, NEW label \in Labels,
         ChangeState(who, label), who \in Requests => answer[who] = "none"
  PROVE  /\ LifeInv'
         /\ \/ AsManagedNode!Next
            \/ UNCHANGED <<IF phase = "idle" THEN state ELSE start, answer>>
<1>1. /\ phase = "idle" /\ label \in Available(state) /\ start' = state /\ caller' = who
      /\ state \in Primary /\ UNCHANGED callbacks /\ LifeOK
  BY DEF ChangeState, LifeInv
<1>2. CASE Enters(label) \in callbacks
  <2>1. state' = Enters(label) /\ phase' = "callback" /\ answer' = answer
    BY <1>2 DEF ChangeState
  <2>2. Enters(label) \in Busy
    BY <1>1, LeavesAsMoves
  <2>3. LifeInv'
    BY <1>1, <2>1, <2>2 DEF LifeInv, LifeOK
  <2> QED
    BY <1>1, <2>1, <2>3
<1>3. CASE Enters(label) \notin callbacks
  <2>1. Proceed(Enters(label), who, "SUCCESS") /\ "SUCCESS" \in Codes
    BY <1>3 DEF ChangeState, Codes
  <2>2. LifeInv'
    BY <1>1, <2>1, ProceedKeeps
  <2>3. \/ AsManagedNode!Next
        \/ UNCHANGED <<IF phase = "idle" THEN state ELSE start, answer>>
    BY <1>1, <2>1, ProceedAsMove
  <2> QED
    BY <2>2, <2>3
<1> QED
  BY <1>2, <1>3

\* The first callback is back.
LEMMA CallbackKeeps ==
  ASSUME LifeInv, NEW code \in Codes, CallbackReturns(code)
  PROVE  /\ LifeInv'
         /\ \/ AsManagedNode!Next
            \/ UNCHANGED <<IF phase = "idle" THEN state ELSE start, answer>>
<1>1. /\ phase = "callback" /\ UNCHANGED <<callbacks, start, caller>> /\ LifeOK
      /\ start \in Primary /\ caller \in Requests \cup {Local}
      /\ caller \in Requests => answer[caller] = "none"
  BY DEF CallbackReturns, LifeInv, LifeOK
<1>2. PICK label \in Available(start) : state = Enters(label)
  BY <1>1 DEF LifeInv
<1>3. Proceed(Enters(label), caller, code) /\ start' = start /\ caller' = caller
  BY <1>1, <1>2 DEF CallbackReturns
<1>4. LifeInv'
  BY <1>1, <1>3, ProceedKeeps
<1>5. \/ AsManagedNode!Next
      \/ UNCHANGED <<IF phase = "idle" THEN state ELSE start, answer>>
  BY <1>1, <1>3, ProceedAsMove
<1> QED
  BY <1>4, <1>5

\* The callback that processes an error is back: the node starts again, which is a success
\* of any move, or is done, which is a failure of any.
LEMMA ErrorCallbackKeeps ==
  ASSUME LifeInv, NEW code \in Codes, ErrorCallbackReturns(code)
  PROVE  LifeInv' /\ AsManagedNode!Next
<1>1. /\ phase = "error" /\ state = "errorprocessing" /\ Available(start) # {}
      /\ UNCHANGED <<callbacks, start, caller>> /\ LifeOK
      /\ state' = Leaves("errorprocessing", code) /\ Finish(caller, code)
      /\ start \in Primary /\ caller \in Requests \cup {Local}
      /\ caller \in Requests => answer[caller] = "none"
  BY DEF ErrorCallbackReturns, LifeInv, LifeOK
<1>2. /\ phase' = "idle"
      /\ answer' \in [Requests -> {"none", "lost", "success", "failure"}]
      /\ caller = Local => answer' = answer
      /\ caller \in Requests =>
           answer' = [answer EXCEPT ![caller] = IF code = "SUCCESS" THEN "success" ELSE "failure"]
  BY <1>1, FinishIs
<1>3. state' = IF code = "SUCCESS" THEN "unconfigured" ELSE "finalized"
  BY <1>1 DEF Leaves
<1>4. LifeInv'
  BY <1>1, <1>2, <1>3 DEF LifeInv, LifeOK, Primary
<1> DEFINE rest == IF phase = "idle" THEN state ELSE start
<1>5. rest = start /\ rest' = state'
  BY <1>1, <1>2
<1>6. PICK move \in AsManagedNode!Moves : rest \in AsManagedNode!Starts(move)
  <2>1. PICK label \in Available(start) : TRUE
    BY <1>1
  <2> QED
    BY <1>1, <1>5, <2>1, LeavesAsMoves
<1>7. /\ code = "SUCCESS" => AsManagedNode!Succeeds(move)
      /\ code # "SUCCESS" => AsManagedNode!Fails(move)
  BY <1>3, <1>5 DEF AsManagedNode!Succeeds, AsManagedNode!Fails
<1>8. AsManagedNode!Next
  <2>1. CASE caller = Local
    BY <2>1, <1>2, <1>6, <1>7 DEF AsManagedNode!Next, AsManagedNode!Move
  <2>2. CASE caller \in Requests
    BY <2>2, <1>1, <1>2, <1>6, <1>7 DEF AsManagedNode!Next, AsManagedNode!Asked
  <2> QED
    BY <2>1, <2>2, <1>1
<1> QED
  BY <1>4, <1>8

\* A request that is refused, or lost.
LEMMA RefusedKeeps ==
  ASSUME LifeInv, NEW q \in Requests, NEW label \in Labels, NEW b \in BOOLEAN,
         OnChangeStateRefused(q, label, b)
  PROVE  LifeInv' /\ AsManagedNode!Next
<1>1. PICK outcome \in {"failure", "lost"} : answer' = [answer EXCEPT ![q] = outcome]
  BY Zenon DEF OnChangeStateRefused
<1>2. /\ phase = "idle" /\ answer[q] = "none"
      /\ UNCHANGED <<state, callbacks, phase, start, caller>>
  BY DEF OnChangeStateRefused
<1>3. LifeInv'
  BY <1>1, <1>2 DEF LifeInv, LifeOK
<1>4. AsManagedNode!Refuse(q, outcome)
  BY <1>1, <1>2 DEF AsManagedNode!Refuse
<1> QED
  BY <1>3, <1>4 DEF AsManagedNode!Next

\* Every step keeps the invariant, and is from outside a step of the abstract node or none.
LEMMA LifeStep ==
  ASSUME LifeInv, [LifeNext]_lifeVars
  PROVE  /\ LifeInv'
         /\ \/ AsManagedNode!Next
            \/ UNCHANGED <<IF phase = "idle" THEN state ELSE start, answer>>
<1>1. ASSUME NEW label \in Labels, Call(label)
      PROVE  /\ LifeInv'
             /\ \/ AsManagedNode!Next
                \/ UNCHANGED <<IF phase = "idle" THEN state ELSE start, answer>>
  BY <1>1, ChangeKeeps, LocalAssumption DEF Call
<1>2. ASSUME NEW label \in Labels, NEW q \in Requests, OnChangeState(q, label)
      PROVE  /\ LifeInv'
             /\ \/ AsManagedNode!Next
                \/ UNCHANGED <<IF phase = "idle" THEN state ELSE start, answer>>
  BY <1>2, ChangeKeeps DEF OnChangeState
<1>3. ASSUME NEW s \in Busy \cup {"errorprocessing"}, Register(s)
      PROVE  /\ LifeInv'
             /\ UNCHANGED <<IF phase = "idle" THEN state ELSE start, answer>>
  BY <1>3 DEF Register, LifeInv, LifeOK
<1>4. ASSUME UNCHANGED lifeVars
      PROVE  /\ LifeInv'
             /\ UNCHANGED <<IF phase = "idle" THEN state ELSE start, answer>>
  BY <1>4 DEF lifeVars, LifeInv, LifeOK
<1> QED
  BY <1>1, <1>2, <1>3, <1>4, CallbackKeeps, ErrorCallbackKeeps, RefusedKeeps DEF LifeNext

LEMMA LifeStart ==
  ASSUME LifeInit
  PROVE  LifeInv /\ AsManagedNode!Init
BY DEF LifeInit, LifeInv, LifeOK, Primary, AsManagedNode!Init

\* Between transitions the node rests in one of the four primary states, and in a
\* callback in the transition that was asked for, whatever the callbacks return.
THEOREM NodeRests == LifeSpec => []LifeInv
<1> QED
  BY LifeStart, LifeStep, PTL DEF LifeSpec

\* _changeState and _onChangeState implement a managed node for any number of requests:
\* a transition is one move, told to whoever asked in the moment that it ends.
THEOREM IsAManagedNode == LifeSpec => IsManagedNode
<1>1. LifeInit => AsManagedNode!Init
  BY LifeStart
<1>2. LifeInv /\ [LifeNext]_lifeVars =>
        [AsManagedNode!Next]_<<IF phase = "idle" THEN state ELSE start, answer>>
  BY LifeStep
<1> QED
  BY <1>1, <1>2, NodeRests, PTL DEF LifeSpec, IsManagedNode, AsManagedNode!Spec
================================================================================
