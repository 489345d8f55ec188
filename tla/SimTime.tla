------------------------------- MODULE SimTime -------------------------------
(***************************************************************************)
(* Simulated time: a time source (lib/time_source.js), the ROS clocks it   *)
(* drives, and sleepUntil of a clock (lib/clock.js), whose wait runs on a  *)
(* worker thread (src/clock_event.cpp) and is cut short by jump callbacks  *)
(* (src/rcl_time_point_bindings.cpp).                                      *)
(*                                                                         *)
(* rcl calls a jump callback where the clock jumps, on the main thread; it *)
(* only queues a call of the JavaScript function, which runs in a later    *)
(* turn, or is dropped when the queue is full.                             *)
(***************************************************************************)
EXTENDS TimeSwitch, Naturals, Sequences

CONSTANTS
  Clocks,     \* ROS clocks
  Sleepers,   \* calls of sleepUntil
  MaxTime,    \* bound: last instant of either time
  QueueSize   \* of a queue of calls (10 in the code)

ASSUME ClocksAssumption == None \notin Clocks \cup Nat
ASSUME TimeBounds == MaxTime \in Nat /\ QueueSize \in Nat \ {0}

Times == 0 .. MaxTime

VARIABLES
  attached,    \* _associatedClocks
  lastTime,    \* _lastTimeSet
  onNode,      \* is the time source on its node?
  subscribed,  \* _clockSubscription
  override,    \* of a clock: is the ROS time override enabled?
  rosTime,     \* of a clock: the override
  system,      \* system time
  valid,       \* is the context valid?
  at,          \* where a sleep is
  clock,       \* its clock
  until,       \* its target
  set,         \* state_ of its ClockEvent
  deadline,    \* of its worker: system time, or None without timeout
  queue,       \* its queue of calls: is each for a change of the time source?
  changed,     \* timeSourceChanged
  missed,      \* was a change of the time source dropped?
  future,      \* was its target ahead of the clock when it began?
  result       \* what it returned

sourceVars == <<active, attached, lastTime, onNode, subscribed>>
clockVars == <<override, rosTime>>
sleepVars == <<at, clock, until, set, deadline, queue, changed, missed, future, result>>
timeVars == <<sourceVars, clockVars, system, valid, sleepVars>>

\* rcl_clock_get_now
Now(c) == IF override[c] THEN rosTime[c] ELSE system

-------------------------------------------------------------------------------
(* Jumps of the clocks *)

\* The sleeps that have a jump callback on clock c.
Listening(c) == {s \in Sleepers : clock[s] = c /\ at[s] \in {"queued", "deciding", "waiting", "woken"}}

\* _rclnodejs_on_time_jump on each of the clocks cs: one more call for everybody who listens,
\* unless the queue is full.
Jump(cs, change) ==
  LET heard == UNION {Listening(c) : c \in cs}
      full == {s \in heard : Len(queue[s]) = QueueSize}
  IN /\ queue' = [s \in Sleepers |-> IF s \in heard \ full THEN Append(queue[s], change)
                                      ELSE queue[s]]
     /\ missed' = [s \in Sleepers |-> missed[s] \/ (change /\ s \in full)]
     /\ UNCHANGED <<at, clock, until, set, deadline, changed, future, result>>

\* set isRosTimeActive of the clocks: rcl jumps where that changes something.
SetActive(b, cs) ==
  /\ override' = [c \in Clocks |-> IF c \in cs THEN b ELSE override[c]]
  /\ Jump({c \in cs : override[c] # b}, TRUE)

\* set rosTimeOverride of the clocks: a jump where the override is on and time moves forward
\* (the threshold for steps back is off).
SetTime(t, cs) ==
  /\ rosTime' = [c \in Clocks |-> IF c \in cs THEN t ELSE rosTime[c]]
  /\ Jump({c \in cs : override[c] /\ t > rosTime[c]}, FALSE)

-------------------------------------------------------------------------------
(* The time source *)

\* The setter isRosTimeActive, which the on-set callback of the parameter uses.
SetRosTimeActive(b) ==
  /\ active # b
  /\ active' = b
  /\ SetActive(b, attached)
  /\ subscribed' = IF b THEN subscribed \/ onNode ELSE subscribed /\ ~onNode
  /\ UNCHANGED <<attached, lastTime, onNode, rosTime, system, valid>>

\* Mutant: the clock is not switched over.
AttachUnswitched(c) ==
  /\ c \notin attached
  /\ attached' = attached \cup {c}
  /\ rosTime' = [rosTime EXCEPT ![c] = lastTime]
  /\ UNCHANGED <<active, lastTime, onNode, subscribed, override, system, valid, sleepVars>>

\* attachClock: first the time, then the switch.
AttachClock(c) ==
  /\ c \notin attached
  /\ attached' = attached \cup {c}
  /\ rosTime' = [rosTime EXCEPT ![c] = lastTime]
  /\ SetActive(active, {c})
  /\ UNCHANGED <<active, lastTime, onNode, subscribed, system, valid>>

\* _clockCallback; time may jump back, as when a recording starts again.
ClockMessage(t) ==
  /\ subscribed
  /\ lastTime' = t
  /\ SetTime(t, attached)
  /\ UNCHANGED <<active, attached, onNode, subscribed, override, system, valid>>

DetachNode ==
  /\ onNode
  /\ onNode' = FALSE
  /\ subscribed' = FALSE
  /\ UNCHANGED <<active, attached, lastTime, clockVars, system, valid, sleepVars>>

\* attachNode reads the parameter into _isRosTimeActive past the setter: the clocks that are
\* attached are not told, so a node is taken here whose parameter is as it was.
AttachNode(b) ==
  /\ ~onNode
  /\ attached # {} => b = active
  /\ onNode' = TRUE
  /\ active' = b
  /\ subscribed' = b
  /\ UNCHANGED <<attached, lastTime, clockVars, system, valid, sleepVars>>

-------------------------------------------------------------------------------
(* A sleep *)

sleepRest == <<sourceVars, clockVars, system, valid>>

\* sleepUntil up to its await: the jump callback is registered, the worker queued.
SleepUntil(s, c, t) ==
  /\ at[s] = "idle"
  /\ valid
  /\ at' = [at EXCEPT ![s] = "queued"]
  /\ clock' = [clock EXCEPT ![s] = c]
  /\ until' = [until EXCEPT ![s] = t]
  /\ future' = [future EXCEPT ![s] = Now(c) < t]
  /\ UNCHANGED <<sleepRest, set, deadline, queue, changed, missed, result>>

\* Mutant: the event is cleared when the wait begins.
WaitAnew(s) ==
  /\ at[s] = "queued"
  /\ at' = [at EXCEPT ![s] = IF override[clock[s]] THEN "waiting" ELSE "deciding"]
  /\ set' = [set EXCEPT ![s] = FALSE]
  /\ UNCHANGED <<sleepRest, clock, until, deadline, queue, changed, missed, future, result>>

\* The worker asks whether the override is on: then it waits for the event alone.
ReadOverride(s) ==
  /\ at[s] = "queued"
  /\ at' = [at EXCEPT ![s] = IF override[clock[s]] THEN "waiting" ELSE "deciding"]
  /\ UNCHANGED <<sleepRest, clock, until, set, deadline, queue, changed, missed,
                 future, result>>

\* Otherwise it turns the target into an instant of system time, from what the clock shows now.
ReadNow(s) ==
  /\ at[s] = "deciding"
  /\ at' = [at EXCEPT ![s] = "waiting"]
  /\ deadline' = [deadline EXCEPT ![s] = IF until[s] <= Now(clock[s]) THEN system
                                         ELSE system + (until[s] - Now(clock[s]))]
  /\ UNCHANGED <<sleepRest, clock, until, set, queue, changed, missed, future, result>>

\* The wait ends, by the event or by the clock of the system.
Wake(s) ==
  /\ at[s] = "waiting"
  /\ set[s] \/ (deadline[s] # None /\ system >= deadline[s])
  /\ at' = [at EXCEPT ![s] = "woken"]
  /\ UNCHANGED <<sleepRest, clock, until, set, deadline, queue, changed, missed,
                 future, result>>

\* Mutant: the target itself is not late enough.
PostCallbackAfter(s) ==
  /\ queue[s] # <<>>
  /\ queue' = [queue EXCEPT ![s] = Tail(@)]
  /\ changed' = [changed EXCEPT ![s] = @ \/ Head(queue[s])]
  /\ set' = [set EXCEPT ![s] = @ \/ changed'[s] \/ Now(clock[s]) > until[s]]
  /\ UNCHANGED <<sleepRest, at, clock, until, deadline, missed, future, result>>

\* _post_callback, once.
PostCallback(s) ==
  /\ queue[s] # <<>>
  /\ queue' = [queue EXCEPT ![s] = Tail(@)]
  /\ changed' = [changed EXCEPT ![s] = @ \/ Head(queue[s])]
  /\ set' = [set EXCEPT ![s] = @ \/ changed'[s] \/ Now(clock[s]) >= until[s]]
  /\ UNCHANGED <<sleepRest, at, clock, until, deadline, missed, future, result>>

\* The rest of sleepUntil: the jump callback goes, and the outcome is told.
SleepReturns(s) ==
  /\ at[s] = "woken"
  /\ at' = [at EXCEPT ![s] = "done"]
  /\ result' = [result EXCEPT ![s] = valid /\ ~changed[s] /\ Now(clock[s]) >= until[s]]
  /\ UNCHANGED <<sleepRest, clock, until, set, deadline, queue, changed, missed, future>>

-------------------------------------------------------------------------------
\* System time passes; the context is shut down, which wakes nobody.
Tick ==
  /\ system < MaxTime
  /\ system' = system + 1
  /\ UNCHANGED <<sourceVars, clockVars, valid, sleepVars>>

Shutdown ==
  /\ valid
  /\ valid' = FALSE
  /\ UNCHANGED <<sourceVars, clockVars, system, sleepVars>>

TimeInit ==
  /\ active \in BOOLEAN /\ subscribed = active /\ onNode = TRUE
  /\ attached = {} /\ lastTime = 0
  /\ override = [c \in Clocks |-> FALSE] /\ rosTime = [c \in Clocks |-> 0]
  /\ system = 0 /\ valid = TRUE
  /\ at = [s \in Sleepers |-> "idle"] /\ clock = [s \in Sleepers |-> None]
  /\ until = [s \in Sleepers |-> 0] /\ deadline = [s \in Sleepers |-> None]
  /\ set = [s \in Sleepers |-> FALSE] /\ queue = [s \in Sleepers |-> <<>>]
  /\ changed = [s \in Sleepers |-> FALSE]
  /\ missed = [s \in Sleepers |-> FALSE] /\ future = [s \in Sleepers |-> FALSE]
  /\ result = [s \in Sleepers |-> FALSE]

Worker(s) == ReadOverride(s) \/ ReadNow(s) \/ Wake(s)

TimeNext ==
  \/ \E b \in BOOLEAN : SetRosTimeActive(b) \/ AttachNode(b)
  \/ DetachNode
  \/ \E c \in Clocks : AttachClock(c)
  \/ \E t \in Times : ClockMessage(t)
  \/ \E s \in Sleepers : \/ \E c \in Clocks, t \in Times : SleepUntil(s, c, t)
                         \/ Worker(s) \/ PostCallback(s) \/ SleepReturns(s)
  \/ Tick \/ Shutdown

TimeSpec == TimeInit /\ [][TimeNext]_timeVars

\* The worker has a thread of libuv's pool (four by default, so for that many sleeps at
\* once), queued calls and continuations run.  Neither time has to pass.
FairSpec ==
  /\ TimeSpec
  /\ \A s \in Sleepers :
       WF_timeVars(Worker(s)) /\ WF_timeVars(PostCallback(s)) /\ WF_timeVars(SleepReturns(s))

-------------------------------------------------------------------------------
(* Properties *)

\* All clocks of a time source show what it shows: one attached in the middle of a
\* simulation, one attached before it began, one that saw it end (lib/time_source.js:162).
ClocksAgree ==
  \A c \in attached : override[c] = active /\ rosTime[c] = lastTime

SourceOK ==
  /\ active \in BOOLEAN /\ onNode \in BOOLEAN /\ subscribed \in BOOLEAN
  /\ attached \subseteq Clocks /\ lastTime \in Times
  /\ override \in [Clocks -> BOOLEAN] /\ rosTime \in [Clocks -> Times]

\* The inductive invariant of the time source, which is subscribed just while it needs to be.
SourceInv ==
  /\ SourceOK
  /\ ClocksAgree
  /\ subscribed <=> active /\ onNode

Reached(s) == \E c \in Clocks : c = clock[s] /\ Now(c) >= until[s]

Asleep(s) == at[s] \in {"queued", "deciding", "waiting", "woken"}

SleepsOK ==
  /\ at \in [Sleepers -> {"idle", "queued", "deciding", "waiting", "woken", "done"}]
  /\ clock \in [Sleepers -> Clocks \cup {None}] /\ until \in [Sleepers -> Times]
  /\ set \in [Sleepers -> BOOLEAN] /\ changed \in [Sleepers -> BOOLEAN]
  /\ missed \in [Sleepers -> BOOLEAN] /\ future \in [Sleepers -> BOOLEAN]
  /\ deadline \in [Sleepers -> Nat \cup {None}] /\ queue \in [Sleepers -> Seq(BOOLEAN)]
  /\ system \in Times
  /\ \A s \in Sleepers : Asleep(s) => clock[s] \in Clocks

\* A change of the time source is on its way to the sleep, has reached it or was dropped.
Alerted(s) == set[s] \/ missed[s] \/ \E i \in 1 .. Len(queue[s]) : queue[s][i]

\* A sleep of a target that lay ahead, and which no change has reached: on simulated time
\* a jump to the target is still queued, on system time the deadline is as early.
OnItsWay(s) ==
  LET c == clock[s]
  IN /\ at[s] \in {"queued", "waiting"} /\ override[c] /\ rosTime[c] >= until[s]
          => queue[s] # <<>>
     /\ at[s] = "deciding" => ~override[c]
     /\ at[s] = "waiting" /\ ~override[c] =>
          deadline[s] # None /\ (deadline[s] <= until[s] \/ deadline[s] <= system)

\* The inductive invariant of the sleeps; a clock that is not attached shows system time.
SleepInv ==
  /\ SleepsOK
  /\ \A c \in Clocks \ attached : ~override[c]
  /\ \A s \in Sleepers : changed[s] => set[s]
  /\ \A s \in Sleepers : future[s] /\ ~Alerted(s) => OnItsWay(s)

\* What wakes a sleep that waits.
Stirs(s) == set[s] \/ queue[s] # <<>> \/ (deadline[s] # None /\ system >= deadline[s])

\* No jump is lost between the worker's questions and its wait: who waits although its
\* clock has reached the target, or the time source has changed, is about to wake.
NoJumpIsLost ==
  \A s \in Sleepers : at[s] = "waiting" /\ ~missed[s] =>
    /\ future[s] /\ Reached(s) => Stirs(s)
    /\ changed[s] => set[s]

\* A sleep whose target lay ahead comes back once its clock has reached it: a jump that
\* comes while the worker is about to wait, or while the queue of calls is full, is not
\* lost, for the queued calls look at the clock when they run (lib/clock.js:180,
\* src/clock_event.cpp:71).  Time must stay there, and no change of source be dropped.
SleeperWakes ==
  \A s \in Sleepers :
    (at[s] = "waiting" /\ future[s]) ~> (at[s] = "done" \/ missed[s] \/ ~Reached(s))

\* A change of the time source ends a sleep, whether it is told before the worker waits
\* or while it waits, with a timeout or without (lib/clock.js:175).
ChangeWakes ==
  \A s \in Sleepers :
    (at[s] = "waiting" /\ (changed[s] \/ \E i \in 1 .. Len(queue[s]) : queue[s][i]))
      ~> at[s] = "done"
================================================================================
