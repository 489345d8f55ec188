------------------------------ MODULE Parameters ------------------------------
(***************************************************************************)
(* The parameters of a node: declareParameters, setParameters(Atomically), *)
(* undeclareParameter of lib/node.js and ParameterDescriptor of            *)
(* lib/parameter.js, with the callbacks that user code registers around a  *)
(* change.  Callbacks may call back into the node, so calls form a stack.  *)
(* The time source (lib/time_source.js) is one of the on-set callbacks.    *)
(*                                                                         *)
(* What is asked of user code, and said in the README: a callback changes  *)
(* parameters only by setting plain values of names that are not being     *)
(* declared, and a pre-set callback adds nothing to a declaration.  A list *)
(* names a parameter once, and a descriptor bears the name of its          *)
(* parameter.                                                              *)
(***************************************************************************)
EXTENDS TimeSwitch, Integers, Sequences

CONSTANTS
  Names,          \* names of parameters
  SimTime,        \* use_sim_time, one of them
  ValuesOf,       \* the values, [type, val], that a name is given
  Descriptors,    \* descriptors user code gives: [type, readOnly, range]
  Callbacks,      \* on-set callbacks of user code
  TimeSource,     \* the one of the time source
  NotSet,
  MaxDepth,       \* bound: calls within callbacks of calls
  RemoveWithin    \* may user code remove on-set callbacks while they are called?

Bool(b) == [type |-> "bool", val |-> IF b THEN 1 ELSE 0]

ASSUME NamesAssumption == SimTime \in Names
Values == UNION {ValuesOf[n] : n \in Names}

ASSUME ValuesAssumption ==
  /\ \A v \in Values : v.type # "not_set"
  /\ {Bool(TRUE), Bool(FALSE)} \subseteq ValuesOf[SimTime]
ASSUME AtomsAssumption ==
  /\ TimeSource \notin Callbacks
  /\ NotSet \notin Values \cup {None}
ASSUME BoundAssumption == MaxDepth \in Nat /\ RemoveWithin \in BOOLEAN

VARIABLES
  parameters,     \* _parameters: a value or None
  descriptors,    \* _parameterDescriptors: a descriptor or None
  checks,         \* _setParametersCallbacks
  stack,          \* calls of _setParametersAtomically under way, innermost first
  told            \* what /parameter_events has said of each name

vars == <<parameters, descriptors, checks, stack, told, active>>

\* The lists a call may be given: a value or NotSet for some names, None for the others.
Named(list) == {n \in Names : list[n] # None}
Lists == {l \in [Names -> Values \cup {NotSet, None}] :
            Named(l) # {} /\ \A n \in Names : l[n] \in ValuesOf[n] \cup {NotSet, None}}
NoList == [n \in Names |-> None]

-------------------------------------------------------------------------------
(* Descriptors *)

\* IntegerRange.inRange; a range is from, to and a step, 0 for any value.
InRange(range, value) ==
  /\ range.from <= value
  /\ value <= range.to
  /\ range.step # 0 => (value - range.from) % range.step = 0

\* validateParameter
Accepts(descriptor, value) ==
  /\ descriptor.type = value.type
  /\ descriptor.range # None => InRange(descriptor.range, value.val)

\* ParameterDescriptor.fromParameter, and what getParameterDescriptor makes up for
\* a name it does not know.
FromParameter(value) ==
  [type |-> IF value = NotSet THEN "not_set" ELSE value.type,
   readOnly |-> FALSE, range |-> None]

\* What user code and FromParameter may give.
AllDescriptors == Descriptors \cup {FromParameter(v) : v \in Values \cup {NotSet}}

ASSUME NoneAssumption == None \notin Values \cup AllDescriptors

DescriptorOf(n) ==
  IF descriptors[n] = None THEN FromParameter(NotSet) ELSE descriptors[n]

\* _validateParameters.  That a name is undeclared never shows here: NotSet of an
\* undeclared name is valid.
Validates(declaring, list) ==
  \A n \in Named(list) :
    /\ declaring \/ ~DescriptorOf(n).readOnly
    /\ list[n] # NotSet => Accepts(DescriptorOf(n), list[n])

-------------------------------------------------------------------------------
(* The calls *)

Top == stack[1]

\* User code runs: no call is under way, or the innermost one is in a callback.
InUserCode ==
  stack # <<>> => Top.at \in {"pre", "callback", "post"}

\* What a call may set inside the callbacks of the calls "outer": no name that a
\* declaration among them has registered a descriptor for, and nothing is undeclared.
Plain(list, outer) ==
  outer # <<>> =>
    \A n \in Named(list) :
      list[n] # NotSet /\ \A k \in 1 .. Len(outer) : n \notin outer[k].own

Enter(list, own) ==
  stack' = <<[list |-> list, own |-> own, at |-> "pre", i |-> 0]>> \o stack

\* The iteration over the on-set callbacks comes to index i: a callback of user code is
\* entered at once.
Check(list, i) ==
  stack' = <<[Top EXCEPT !.list = list, !.i = i,
                         !.at = IF i <= Len(checks) /\ checks[i] # TimeSource
                                  THEN "callback" ELSE "checks"]>> \o Tail(stack)

\* setParametersAtomically, once for each element of setParameters.
SetParameters(list) ==
  /\ InUserCode
  /\ Len(stack) < MaxDepth
  /\ Plain(list, stack)
  /\ Enter(list, {})
  /\ UNCHANGED <<parameters, descriptors, checks, told, active>>

\* declareParameters: the descriptors, given or made up, are registered before the
\* values are set; "own" are their names.
DeclareParameters(list, given) ==
  /\ stack = <<>>
  /\ \A n \in Named(list) : parameters[n] = None
  /\ descriptors' = [n \in Names |-> IF n \notin Named(list) THEN descriptors[n]
                                    ELSE IF given = None THEN FromParameter(list[n])
                                    ELSE given[n]]
  /\ Enter(list, Named(list))
  /\ UNCHANGED <<parameters, checks, told, active>>

\* undeclareParameter: it tells nobody.
UndeclareParameter(n) ==
  /\ stack = <<>>
  /\ parameters[n] # None
  /\ ~DescriptorOf(n).readOnly
  /\ parameters' = [parameters EXCEPT ![n] = None]
  /\ descriptors' = [descriptors EXCEPT ![n] = None]
  /\ UNCHANGED <<checks, stack, told, active>>

\* Mutant: a call that fails drops the descriptors of every name in its list.
DropDescriptors ==
  /\ stack' = Tail(stack)
  /\ descriptors' = [n \in Names |-> IF n \in Named(Top.list) THEN None ELSE descriptors[n]]
  /\ UNCHANGED <<parameters, checks, told, active>>

\* The call returns without success; a declaration takes its descriptors back.
Fails ==
  /\ stack' = Tail(stack)
  /\ descriptors' = [n \in Names |-> IF n \in Top.own THEN None ELSE descriptors[n]]
  /\ UNCHANGED <<parameters, checks, told, active>>

\* Mutant: the list is validated before the pre-set callbacks see it.
ValidateFirst(list) ==
  /\ stack # <<>>
  /\ Top.at = "pre"
  /\ Plain(list, Tail(stack))
  /\ Top.own # {} => Named(list) \subseteq Top.own
  /\ IF Validates(Top.own # {}, Top.list)
       THEN /\ Check(list, 1)
            /\ UNCHANGED <<parameters, descriptors, checks, told, active>>
       ELSE Fails

\* Mutant: the event is published before the on-set callbacks run.
TellFirst(list) ==
  /\ stack # <<>>
  /\ Top.at = "pre"
  /\ Plain(list, Tail(stack))
  /\ Top.own # {} => Named(list) \subseteq Top.own
  /\ IF Validates(Top.own # {}, list)
       THEN /\ Check(list, 1)
            /\ told' = [n \in Names |-> IF n \in Named(list) /\ list[n] # NotSet
                                          THEN list[n] ELSE told[n]]
            /\ UNCHANGED <<parameters, descriptors, checks, active>>
       ELSE Fails

\* The pre-set callbacks have made "list" of the parameters; what it holds is
\* validated, and the on-set callbacks begin.
PreCallbacks(list) ==
  /\ stack # <<>>
  /\ Top.at = "pre"
  /\ Plain(list, Tail(stack))
  /\ Top.own # {} => Named(list) \subseteq Top.own
  /\ IF Validates(Top.own # {}, list)
       THEN /\ Check(list, 1)
            /\ UNCHANGED <<parameters, descriptors, checks, told, active>>
       ELSE Fails

\* They return an empty list, or none.
PreRejects ==
  /\ stack # <<>>
  /\ Top.at = "pre"
  /\ Fails

\* An on-set callback of user code accepts; the index is that of the iteration over
\* the array, which the callback may have changed.
CheckAccepts ==
  /\ stack # <<>>
  /\ Top.at = "callback"
  /\ Check(Top.list, Top.i + 1)
  /\ UNCHANGED <<parameters, descriptors, checks, told, active>>

CheckRejects ==
  /\ stack # <<>>
  /\ Top.at = "callback"
  /\ Fails

\* onParameterEvent of the time source
TimeSourceCheck ==
  /\ stack # <<>>
  /\ Top.at = "checks"
  /\ Top.i <= Len(checks)
  /\ checks[Top.i] = TimeSource
  /\ active' = IF Top.list[SimTime] = Bool(TRUE) THEN TRUE
               ELSE IF Top.list[SimTime] = Bool(FALSE) THEN FALSE
               ELSE active
  /\ Check(Top.list, Top.i + 1)
  /\ UNCHANGED <<parameters, descriptors, checks, told>>

\* A call that has only its post-set callbacks to make; what they are given is left out.
Done == [list |-> NoList, own |-> {}, at |-> "post", i |-> 0]

\* All have accepted: the values change and the event is published.
Apply ==
  LET list == Top.list
      Becomes(f) == [n \in Names |-> IF n \notin Named(list) THEN f[n]
                                     ELSE IF list[n] = NotSet THEN None ELSE list[n]]
  IN /\ stack # <<>>
     /\ Top.at = "checks"
     /\ Top.i > Len(checks)
     /\ parameters' = Becomes(parameters)
     /\ descriptors' = [n \in Names |->
                          IF list[n] = NotSet /\ parameters[n] # None
                            THEN None ELSE descriptors[n]]
     /\ told' = Becomes(told)
     /\ stack' = <<Done>> \o Tail(stack)
     /\ UNCHANGED <<checks, active>>

\* The post-set callbacks are through; nobody looks at what they return.
PostCallbacks ==
  /\ stack # <<>>
  /\ Top.at = "post"
  /\ stack' = Tail(stack)
  /\ UNCHANGED <<parameters, descriptors, checks, told, active>>

\* A callback throws: the call is left as it is, its descriptors included.
CallbackThrows ==
  /\ stack # <<>>
  /\ InUserCode
  /\ stack' = Tail(stack)
  /\ UNCHANGED <<parameters, descriptors, checks, told, active>>

\* Mutant: a new callback goes to the end of the array.
AddBehind(c) ==
  /\ InUserCode
  /\ \A k \in 1 .. Len(checks) : checks[k] # c
  /\ checks' = checks \o <<c>>
  /\ UNCHANGED <<parameters, descriptors, stack, told, active>>

\* addOnSetParametersCallback: to the front.
AddOnSetParametersCallback(c) ==
  /\ InUserCode
  /\ \A k \in 1 .. Len(checks) : checks[k] # c
  /\ checks' = <<c>> \o checks
  /\ UNCHANGED <<parameters, descriptors, stack, told, active>>

RemoveOnSetParametersCallback(c) ==
  /\ InUserCode
  /\ RemoveWithin \/ \A k \in 1 .. Len(stack) : stack[k].at # "callback"
  /\ \E k \in 1 .. Len(checks) :
       /\ checks[k] = c
       /\ checks' = SubSeq(checks, 1, k - 1) \o SubSeq(checks, k + 1, Len(checks))
  /\ UNCHANGED <<parameters, descriptors, stack, told, active>>

-------------------------------------------------------------------------------
\* A new node has declared use_sim_time, false or as it was overridden, for its
\* time source.
Init ==
  \E b \in BOOLEAN :
    /\ parameters = [n \in Names |-> IF n = SimTime THEN Bool(b) ELSE None]
    /\ descriptors = [n \in Names |-> IF n = SimTime THEN FromParameter(Bool(b)) ELSE None]
    /\ checks = <<TimeSource>>
    /\ stack = <<>>
    /\ told = parameters
    /\ active = b

Next ==
  \/ \E list \in Lists : \/ SetParameters(list)
                         \/ PreCallbacks(list)
                         \/ \E given \in {None} \cup [Names -> Descriptors] :
                              DeclareParameters(list, given)
  \/ \E n \in Names : UndeclareParameter(n)
  \/ PreRejects \/ CheckAccepts \/ CheckRejects \/ TimeSourceCheck \/ Apply
  \/ PostCallbacks \/ CallbackThrows
  \/ \E c \in Callbacks : AddOnSetParametersCallback(c) \/ RemoveOnSetParametersCallback(c)

Spec == Init /\ [][Next]_vars

-------------------------------------------------------------------------------
(* Properties *)

Frames == [list : [Names -> Values \cup {NotSet, None}], own : SUBSET Names,
           at : {"pre", "checks", "callback", "post"}, i : Nat]

\* The type of every variable.
TypeOK ==
  /\ parameters \in [Names -> Values \cup {None}]
  /\ descriptors \in [Names -> AllDescriptors \cup {None}]
  /\ checks \in Seq(Callbacks \cup {TimeSource})
  /\ stack \in Seq(Frames)
  /\ told \in [Names -> Values \cup {None}]
  /\ active \in BOOLEAN

\* The value of every parameter fits its descriptor, whatever callbacks did between
\* validation and assignment (lib/node.js:2230, 2250).
Described ==
  \A n \in Names : parameters[n] # None =>
    descriptors[n] # None /\ Accepts(descriptors[n], parameters[n])

\* A read-only parameter keeps its value and stays declared, whatever pre-set
\* callbacks make of a list (lib/node.js:2210, 2504).
ReadOnlyKept ==
  [][\A n \in Names :
       parameters[n] # None /\ descriptors[n] # None /\ descriptors[n].readOnly
         => parameters'[n] = parameters[n]]_vars

\* Whoever follows /parameter_events knows the value of every declared parameter,
\* though calls nest and some fail (lib/node.js:2297).
EventsTell == \A n \in Names : parameters[n] # None => told[n] = parameters[n]

\* Between calls the time source runs on simulated time if and only if the
\* parameter says so: a change that a callback turned down has not reached it
\* (lib/node.js:2236, lib/time_source.js:188).
TimeFollowsParameter ==
  stack = <<>> /\ parameters[SimTime] \in {Bool(TRUE), Bool(FALSE)}
    => (active <=> parameters[SimTime] = Bool(TRUE))

-------------------------------------------------------------------------------
(* The inductive invariants behind the properties.                             *)

\* What a call is about to assign has been validated against the descriptors, which are
\* still those, and the names of a declaration have no value yet.
Checking(call) == call.at \in {"checks", "callback"}
Fits(call) ==
  /\ \A n \in call.own : parameters[n] = None
  /\ Checking(call) => \A n \in Named(call.list) :
       /\ call.list[n] # NotSet => descriptors[n] # None /\ Accepts(descriptors[n], call.list[n])
       /\ IF call.own = {} THEN ~DescriptorOf(n).readOnly ELSE n \in call.own

\* A call within another one declares nothing and leaves alone what that declares.
Below(call, outer) ==
  /\ call.own = {}
  /\ Checking(call) =>
       \A n \in Named(call.list) : call.list[n] # NotSet /\ n \notin outer.own

Sound(calls) ==
  \A k \in 1 .. Len(calls) :
    Fits(calls[k]) /\ \A j \in k + 1 .. Len(calls) : Below(calls[k], calls[j])

ValueInv == Described /\ EventsTell /\ Sound(stack)

\* The time source is the last of the callbacks; no iteration passes it over, and a change
\* that it has seen is assigned next.
Follows(value) == value \in {Bool(TRUE), Bool(FALSE)} => (active <=> value = Bool(TRUE))
Seen(call) == call.at = "checks" /\ call.i = Len(checks) + 1

TimeInv ==
  /\ Len(checks) > 0 /\ checks[Len(checks)] = TimeSource
  /\ \A k \in 1 .. Len(checks) - 1 : checks[k] # TimeSource
  /\ \A k \in 1 .. Len(stack) :
       /\ stack[k].at = "callback" => stack[k].i \in 1 .. Len(checks) - 1
       /\ stack[k].at = "checks" => k = 1 /\ stack[k].i \in Len(checks) .. Len(checks) + 1
  /\ IF stack # <<>> /\ Seen(Top) /\ Top.list[SimTime] \in {Bool(TRUE), Bool(FALSE)}
       THEN Follows(Top.list[SimTime])
       ELSE Follows(parameters[SimTime])
================================================================================
