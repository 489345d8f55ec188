# A TLA+ verification of rclnodejs

rclnodejs is the ROS 2 client library for Node.js: JavaScript under `src/lib/`,
Node-API bindings to rcl in C++ under `src/src/`, and a browser bridge in
`src/lib/runtime/` and `src/web/`.  This directory holds TLA+ specifications of
the parts of it whose correctness depends on the order in which things happen,
TLC configurations that check them on small instances, and proofs, checked by
TLAPS, of their main theorems for every instance.

## 1. The system

### 1.1 Inventory

| Component | Source | State | Operations | Hard behaviour |
|---|---|---|---|---|
| Executor and handle manager | `src/executor.cpp`, `src/handle_manager.cpp`, `src/shadow_node.cpp`, `lib/node.js`, `lib/entity.js` | handle vectors, `sum_`, two semaphores, `work_pending_`, `running_`, `async_`, ready handles, `OBSOLETE_HANDLES` | spin, spinOnce, stop, create/destroy an entity, `DoWork`, `Run`, `execute` | two threads; condition variable, semaphores and a read-write lock; nested libuv loop; garbage collection |
| Action server | `lib/action/server.js`, `server_goal_handle.js`, `deferred.js` | goal table, goal states in rcl, deferred results, cancel requests | goal, cancel and result requests, execute, succeed/abort/canceled, expiry, destroy | asynchronous user callbacks; goals that end while a callback is awaited |
| Action client | `lib/action/client.js`, `client_goal_handle.js` | pending request maps, goal handles, feedback callbacks | sendGoal, cancelGoal, getResult, four kinds of messages, destroy | responses, status and feedback arrive in any order |
| Service client and service | `lib/client.js`, `lib/service.js` | callbacks by sequence number | sendRequest(Async), abort, timeout, response, destroy | late, lost, duplicated answers racing timeouts |
| Native handles | `src/rcl_handle.cpp` | tree of handles with deleters | NewInstance, Release, Reset, destructor | released by hand, by the parent and by the garbage collector |
| Web runtime dispatcher | `lib/runtime/dispatcher.js`, `connection.js`, `capability_registry.js` | per-connection entities, goals, pending requests, grace timer | call, publish, subscribe, send_goal, cancel, disconnect | answers after the connection is gone |
| Web transports | `lib/runtime/transports/*.js`, `lib/runtime/index.js` | HTTP exchanges, event streams, sockets | start, stop, requests | reply once, close once, partial start |
| Web client | `web/client.js` | link state, pending calls, subscriptions, goals, backoff | connect, reconnect, call, subscribe, send goal, close | reconnection with requests under way |
| rosocket | `rosocket/index.js` | per-socket entities | publish, subscribe, service calls | disconnects |
| Lifecycle node | `lib/lifecycle.js`, `lib/lifecycle_publisher.js` | rcl state machine, callbacks | transitions, services | failing callbacks, error processing |
| Parameters | `lib/node.js`, `lib/parameter.js`, `lib/parameter_service.js` | values, descriptors, callbacks | declare, set, set atomically, undeclare | callbacks with side effects, atomicity |
| Time source, clock, timers, rate | `lib/time_source.js`, `clock.js`, `timer.js`, `rate.js`, `src/clock_event.cpp` | clock set, `use_sim_time`, sleepers | attach, detach, `/clock`, sleep | jump callbacks, cancelled sleeps |
| Context and node teardown | `lib/context.js`, `lib/node.js`, `index.js` | nodes of a context, init state | init, shutdown, node.destroy | destruction of collections while they change |
| Parameter client, watcher, event handler | `lib/parameter_*.js` | requests, subscriptions | get/set remotely, start, destroy | destroy during an await |
| waitForMessage, observables | `lib/wait_for_message.js`, `observable_subscription.js` | one-shot promise | wait, timeout, message | settle once |
| Message generation and conversion | `rosidl_gen/`, `rosidl_parser/`, `rostsd_gen/`, `third_party/`, `lib/message_*.js` | none | generation, serialisation | pure functions over message layouts |
| Names, QoS, graph queries, logging, types, tools | `lib/qos.js`, `lib/validator.js`, `lib/logging.js`, `types/`, `bin/`, ... | none or trivial | queries, conversions | none |

### 1.2 How the parts interact

Everything JavaScript runs on one thread, the main thread, between libuv's
callbacks.  A spinning node adds one background thread, which sees the node's
entities only through the vectors of its `HandleManager` and signals the main
thread with `uv_async_send`.  Ready entities come back as one batch to
`Node.execute`, which calls the user's callbacks and the `process...` functions
of clients, services, action clients and action servers.  Those keep tables keyed
by sequence number or goal UUID, settle promises, and destroy themselves through
`Node._destroyEntity`, which rebuilds the vectors and releases the native handle.
Lifecycle nodes, parameter services, the time source and the web runtime are users
of these entities.

### 1.3 What makes each part correct

* **Executor**: no released entity in a wait set; callbacks and `rcl_wait` never
  overlap; no lost wake-up; `stop()` returns, from an infinite wait too; a collected
  handle is executed or discarded; nothing of one run reaches the next.
* **Action server**: goal states follow rcl's order and stay where they ended;
  results tell the end of the goal; cancel responses list only canceled goals and
  are sent; goals expire; a destroyed server is inert.
* **Action client, service client**: a promise is settled once, by the answer to its
  own request; nothing stays in a table for ever; late answers do no harm.
* **Native handles**: each is finalised once, children before their parent.
* **Web runtime and client**: no answer to a closed connection; every request has
  one answer; subscriptions survive a reconnection.
* **Lifecycle**: the state is what the callbacks decided; no transition is left half done.
* **Parameters**: a set is atomic with its validation; parameters and descriptors agree;
  the time source does what `use_sim_time` says.
* **Time**: clocks show what their source shows; no wake-up of a sleeper is lost.
* **Teardown**: nothing that belongs to a node or a context is left when it is gone.


## 2. Plan

The order is that of importance: first the layer everything else runs on, then the
protocols whose parties are furthest apart, then what is built on them.

| | Module | Models | State |
|---|---|---|---|
| 1 | `Executor` | spinning of a node: two threads, wait set, hand-off, stop | checked, proved |
| 2 | `GoalPromise`, `ActionServer` | what an action server promises, and the server that keeps it | checked, refinement proved |
| 3 | `ActionClient` | the client, against `GoalPromise` over a network | checked, proved |
| 4 | `Dispatcher` | one connection of the web runtime | checked, proved |
| 5 | `WsLink`, `HttpLink`, `WebClient` | the web client with either of its links, and the HTTP transport | checked, proved |
| 6 | `Teardown` | the tree of native handles with its three ways to be released, nodes, contexts, timers, rates | checked, proved |
| 7 | `OneShot`, `ServiceCall` | requests that are answered once: service client, parameter client, service, `waitForMessage` | checked, refinement proved |
| 8 | `Parameters` | declare, set, undeclare; pre-set, on-set and post-set callbacks; the time source as one of them | checked, proved |
| 9 | `TimeSwitch`, `SimTime` | the time source, its clocks and the sleeps on them | checked, proved |
| 10 | `ManagedNode`, `Lifecycle` | what a managed node promises, and the one of `lifecycle.js` | checked, refinement proved |

How they compose.  `GoalPromise` is used from both sides: `ActionServer` implements
it, and `ActionClient` runs against it.  `WebClient` extends `WsLink` and instantiates
`HttpLink`.  The peer of `WsLink` and the ROS side of `HttpLink` answer as `Dispatcher`
does; `Dispatcher` in turn sees an action client as `ActionClient` offers it.  `OneShot`
is implemented by every request of `ServiceCall`, `ManagedNode` by `Lifecycle`.
`Parameters` and `SimTime` share one variable, the switch `active` of the time source,
which `TimeSwitch` declares: the conjunction of their specifications is the node with both.

Left for later, in this order: the invariants behind the other liveness properties, as
`Owed` is behind `VerbsSettle`; the roll-back of a runtime one of whose transports does not
start; a reliable request channel as the abstract specification of `WebClient`.

## 3. The models

Every module is one component.  A step is a piece of code that nothing else can
interrupt: on the JavaScript thread that is a stretch between two `await`s or between
two events of libuv; where a second thread looks on (`Executor`), it is one access to
shared memory, one critical section or one rcl call.  `MC...` modules only give the
constants values; the properties stand in the modules themselves.  Definitions named
"Mutant" are faults that the code does not have; each shows that some property would
notice it.

`CHECK_DEADLOCK FALSE` is set where the system may really come to rest: all goals
ended, the server destroyed, the connection closed.  The executor never rests, and its
runs check for deadlock.

### 3.1 Executor

*State.*  `registered` are the handles in the arrays of `lib/node.js`, `tracked` and
`nonempty` the vectors of the `HandleManager` and whether its `sum_` is positive, `isSync` its
`is_synchronizing_`, `syncSem` and `waitSem` its semaphores, `ready` its
`ready_handles_`; `running`, `threadStarted`, `workPending`, `async`, `guard` are
members of the `Executor`; `exc` says that `g_exception_ptr` is set.  `hstate` tells
whether the rcl entity of a handle lives and whether its wrapper has been collected;
`obsolete` is `OBSOLETE_HANDLES` of `lib/entity.js`.  `mpc` and `bpc` are the places
of the two threads; `frame`, `closing`, `batch`, `current` are what is on the main
thread's stack.

*Actions.*  User code creates, destroys and filters entities, spins, spins once and
stops, outside callbacks or in one.  `BeginSync`, `SyncLocked`, `SyncPost` are
`SynchronizeHandles`; `DoWork`, `TakeReady`, `Dispatch`, `CallbackReturns`,
`CallbackThrows`, `ExecuteEnds`, `ClearWork`, `NotifyWork` one call of the
`uv_async_t`; `Stop...` the steps of `Executor::Stop`, with the nested loop that
closes the handle; `Bg...` those of `Executor::Run` and `WaitForReadyCallbacks`.
`Collect` is the garbage collector.

*Runs.*
- `executor_safety` (two entities, a timer; failing rcl calls; at most 5 semaphore
  tokens; 3.7 million states): no wait set has a released entity, callbacks and
  `rcl_wait` never overlap, the thread does not wait on its guard condition alone,
  ready handles keep their wrappers, no wake-up is lost.  Two entities are needed for
  one to stay while another goes; a timer is the one handle that `OBSOLETE_HANDLES`
  does not protect.
- `executor_live` (one entity, other nodes in the process, `spin()` called inside
  `spinOnce()`; at most 4 tokens; 31 000 states): `stop()` returns, creation and
  destruction return unless the wait is infinite, collected handles are executed or
  discarded.

*Fairness.*  The operating system runs the thread.  `rcl_wait` is only assumed to
return after its timeout or a triggered guard; no handle has to become ready.
Callbacks return.  Strong fairness is assumed where a loop may pass the step by again
and again: the writer that waits for a read lock which is released in every round of the
thread, `DoWork` and the return of a callback, between which user code may do anything else, and the
end of the nested loop.

*Proved* (`ExecutorProofs`), for any handles, any number of tokens, any setting of the
flags: `TypeOK`, `WaitSetAlive`, `NoLostWakeup`; unless `spin()` is called in the loop nested in `stop()`,
`NeverWaitsOnNothing` and `AsyncOpen`; unless it is called in a callback at all,
`WaitExcludesWork`; and, with that and no other nodes in the process, `ReadyWrappersAlive`.  The
invariant is `IInv`: control points agree with flags (`ControlInv`), released entities are in no
array, vector or wait set (`AliveInv`), a sleeper has somebody who will wake it
(`WakeupInv`); the parts `ThreadInv` and `HandoffInv` carry these conditions on `spin()`; `ReadyInv` says that
nothing becomes ready while callbacks run, and that what was destroyed while it was ready is in
`OBSOLETE_HANDLES` until it has been executed.
Without the conditions they fail: see 3.10.

### 3.2 Action server

*State.*  A handle is a `ServerGoalHandle`; `goalOf`, `state`, `known` are what rcl
knows of it, `tracked` is `_goalHandles`, `gone` the handles marked destroyed,
`published` the last status message, `runs` the execute callbacks under way, `result`
the deferred, `cancel` the place of a cancel request in `_executeCancelRequest`.

*Actions.*  `GoalRequest`, `Accept...`, `Execute`, `UserEnds`, `RunEnds`,
`ResultRequest`, `SendResult`, `Cancel...`, `Expire`, `Destroy`.  Each rcl call that
publishes may fail when `RclMayFail`; user callbacks may throw.  A UUID may be used
again after its goal has expired, hence more handles than goals.

*Abstract specification.*  `GoalPromise` has goals with a state, result requests with
an answer and cancel requests with a list of goals, and nothing else.  `KeepsPromise`
is its specification under the mapping at the end of the safety part of
`ActionServer`: a goal of the promise is a handle, the answer of a request is what was told.

*Runs.*
- `actionserver_safety` (2 UUIDs, 2 handles, 1 result and 2 cancel requests; 1.5
  million states): `KeepsPromise`, and `_goalHandles` agrees with rcl.  Two cancel
  requests for one goal and a goal that ends while either is awaited both happen.
- `actionserver_live` (one UUID, 2 handles; 8 000 states): result requests are answered.
  Assumes that user callbacks settle and continuations run; rcl calls do not fail and
  every goal is executed at once, for the code promises nothing otherwise.

*Proved* (`ActionServerProofs`), for any sets: `TypeOK`, `TrackedIsKnown`,
`OneHandlePerGoal`, `DestroyedIsFrozen` (nothing moves after `destroy()`), and the
refinement `KeepsPromise`, from
`IInv` = `TableInv` (table and rcl), `ResultInv` (a result is there only for a goal that
has ended, or its handle is gone) and `CancelInv` (who is listed is canceling, or was).

### 3.3 Action client

*State.*  `pending` stands for the three maps keyed by sequence number, `tracked` for
`_goalHandles`, `listening` for `_feedbackCallbacks`, `filter` and `optimizing` for the
content filter on the feedback topic, `status` for the status in each handle;
`micro` holds the settled requests whose done callback has not run.  The server is
`GoalPromise` (`phase`, `reply`, `about`, `listed`), with the answers it has given and the status
messages under way (`statusNet`, at most `MaxStatus`).

*Actions.*  `SendGoal`, `GetResult`, `CancelGoal`, `Destroy`; the responses and the
done callbacks; `StatusMessage`; the moves of the server.  An answer may be taken at
any time after it was given, or never, status messages in any order: that covers delay, loss and
reordering; a second copy of an answer finds no entry and changes nothing.  The guards on `micro` give the order in which
`Node.execute` takes the kinds of messages before microtasks run.

*Run* `actionclient_all` (a goal whose UUID is any of two, a result and a cancel
request, two status messages under way; 86 000 states): handles are never ahead of the
server and never go back, promises are settled, callbacks released.  The server decides,
ends its goals and answers, answers arrive, microtasks run.  What two goals do to each
other is not in this instance; the theorems below are for any number of them.

*Proved* (`ActionClientProofs`), for any sets: `TypeOK`, `OneEntryPerUuid`,
`TablesAgree`, `NeverAhead`, `ResultAgrees`, `HearsFeedback`, `StatusNeverGoesBack`.  The
invariant says that what was published, told or shown has been reached (`ViewInv`), and
that the filter on the feedback topic lets every open goal pass (`HearInv`); it holds
while UUIDs are used once.

### 3.4 Web runtime dispatcher

*State.*  The maps of a connection, `pendingGoals`, `goals`, `pendingCancels`,
`actionClients` (`client`: none, live, dying, destroyed), `subscriptions`, `publishers`,
`clients`; `closed`, `expired`, the grace timer and the immediate of `cleanup`; what
the peer was told of each goal (`said`).

*Actions.*  A frame of every kind, with ids that may come again; every answer of the
ROS graph, or none; `Close`, `Sweep` (the immediate), `Expire` (the timeout),
`DestroyClient` (the immediate of `_releaseActionClientIfIdle`).  A promise and what awaits it are one step,
since microtasks run before the next event.  Feedback and topic frames change no state and are left out, and so is the
destruction of the node under a connection.

*Run* `dispatcher_all` (2 goals, 2 cancels, a call, 2 ids, 2 actions, a service, a
topic; 550 000 states): no action client is released within the grace period while
something waits for it, the peer is told of every goal once and in order, and everything
is released after a close.  Two goals and two cancels on
two ids are what it takes for an id to be used again while another request uses it.  For
`Released` only libuv is assumed to be fair: neither the peer nor any server owes an answer.

*Proved* (`DispatcherProofs`), for any sets: its two invariants, that ids of open goals
differ, that the timer is armed as long as needed, that a closed connection has no
entities left.  The
maps hold just what is under way (`TablesAgree`) because open goals never share an id;
so a released client has nothing waiting for it, and the last to go takes the timer along.
`PeerKnows` rests on it too: the grace period is over only for a closed connection.

### 3.5 Web client and HTTP transport

*State of `WsLink`.*  `left` and `opened` of `RosClient`; `reconnect`, `closed`, `leaving`,
`reconnecting`, `timer`, `socket` of the link; `promise`, `pending`, `subs`, `goals`,
`result` of the requests; frames under way and what the peer keeps for the connection
(`serving`, `served`, `running`), which goes when the connection goes.

*Its actions.*  The verbs (`Admit`, then `Verb` when the link is open), `CancelGoal`,
`Unsubscribe`, `Leave` and `LinkClose`; the events of the socket, among them failing
handshakes and the loss of the connection at any time; the timer; the peer.  Calls
stand for call, publish and cancel frames, which the link treats alike.

*State of `HttpLink`.*  An exchange is a request with its response: `client` says what
its caller waits for, `controllers` are the `_actionControllers`, `line` is its TCP
connection, `wire` what of the response is under way, `server` what its connection at
`transports/http.js` waits for, `streaming` whether the headers of a stream were sent,
`ended` how the ROS side saw it.

*Its actions.*  `Fetch`, `FetchReturns`, `ReadEvent`, `ReadFails`, `CloseLink` of the
client; `RouteRefuses`, `BodyTooLarge`, `Begin`, `CallAnswered`, `EventComes`,
`GoalAnswered`, `GoalEnds`, `ResponseCloses` of the three kinds of connections;
`StopServer` and `StartServer`; `Cut`, by which a connection breaks and only a part of
what was under way arrives.  Three kinds of exchanges are told apart: those with one
answer (`Posts`), goals, whose answer is a stream with an end, and topics, whose stream
ends with the connection.

*`WebClient`* is `RosClient` with one of the links (`form`); the other is idle.  A client
with both uses each for some of the verbs, and they share nothing but `close()`.

*Run* `webclient_all` (over a WebSocket a call, two subscriptions, an unsubscription and
a goal, with and without `reconnect`; over HTTP a call, a goal and a topic with at most
`MaxEvents` = 2 chunks under way when an event is added; 490 000 states): one attempt at
a time, subscriptions are restored, the ends of an exchange agree, everything but a
subscription settles, `close()` returns.  A connection may be lost and the transport
stopped any number of times.  Assumed of the fairness: continuations run, a handshake
ends, a broken or closing socket reports it, the client reads, the ROS side answers.
Not assumed: that a `close` event follows a failed handshake, that the timer of the
backoff fires, that a topic has messages.  Each request of the instance is made once,
which is why `VerbsSettle` may say that in the end none waits.

*Proved* (`WebClientProofs`), for any sets of requests and exchanges:
- of `WsLink`, `TypeOK`, `OneAttempt`, `FlagsAgree`, from `Stages`, which says which stages
  of client, `close()` and socket go together;
- `SubscriptionsRestored`.  That both ends agree when nothing is under way is not inductive:
  `SubsTracked` says for every subscription which frame, if any, makes the difference
  between what the user has and what the peer has, and in which order a replayed subscribe
  frame and an unsubscribe frame stand; `SubsKnown` what holds over all connections;
- `Owed`: while the socket is open, an answer to whatever waits is under way or owed by
  the peer, and so is the result of an accepted goal.  It is what `VerbsSettle` leaves when
  fairness is taken away.  `OwedInv` adds the order of the frames of a goal: were its
  result to come before its acceptance, the result would find nobody and the goal would
  wait for ever;
- of `HttpLink`, `ExchangesAgree`, from `ExchangesInv`: what is under way to the client
  tells how the exchange ended at the server (`Truthful`), all of it is under way when the
  server is done (`Complete`), and who waits has somebody who will write (`Progress`,
  `Honest`);
- the client of either form is, seen from the WebSocket link, that link (`ClientSpec` implies
  `Spec` of `WsLink`), so what is proved of `WsLink` holds of it.

What the peer exposes is fixed in a behaviour, so the gap that the code names itself (a
replayed subscription whose capability was withdrawn) is left out.  So are CORS, the
hooks that verify requests and the comments that keep a stream alive.

### 3.6 Native handles, nodes and contexts

*State* of `Teardown`.  `there` are the `RclHandle` objects that exist, `live` those with
a pointer, `parent` and `children` the tree, `base` the native object that a deleter
needs; `wrong` collects what was finalised twice or too late.  `nodes` is `_nodes` of the
context, `stack` the calls of `shutdown()` and `destroy()` under way, for `stop()` runs the
loop and user code in it; `listed` the entities in the arrays of a node.

*Actions.*  Creation and destruction of entities, timers, clocks and rates; `Spin`,
`Stop`, `DestroyNode` with `StopReturns`; `InitContext` up to its await, then
`InitReturns` or `InitFails` with its roll-back; `Shutdown` node by node; `Collect`, the
garbage collector, for whatever neither the runtime nor user code holds.  Contexts share
nothing, so there is one.

*Run* `teardown_all` (two nodes with their clocks, a clock of user code, an entity of any
kind, calls nested 3 deep; 1.3 million states): all of its invariants.  A second node is
needed for one that is destroyed while another is being destroyed; a clock of user code
for a timer whose clock may be collected first.

*Proved* (`TeardownProofs`), for any nodes, entities, clocks and depth: all five
invariants, from `TreeInv` (the handles form a tree of depth one, of live objects),
`OwnerInv` (what belongs to a node goes with it; a listed timer is live) and `StackInv` (a
`shutdown()` under way has every node that it found still before it, or in a call within).
The last is what makes the copy of `_nodes` matter.

### 3.7 Requests that are answered once

*State* of `ServiceCall`.  `state` of each request or wait, `opts` what it was given,
`table` is `_sequenceNumberToCallbackMap`, `fired` and `aborted` the timers and signals;
`requests` and `responses` are under way; `handler` and `sent` belong to the service,
`subs` to `waitForMessage`.

*Actions.*  `SendRequest`, `SendRequestAsync`, `SendFails`, `ParameterRequest`;
`TimeoutFires`, `UserAborts`, `ProcessResponse`, `DestroyClient`; `ProcessRequest`, the
ways in which a service callback may return, reject, throw or send, `DestroyService`;
`WaitForMessage` and its ends.  The listeners of the composed signal run in the order
in which they were added (`TimerListeners`).

*Run* `servicecall_all` (two requests, one wait; 1.1 million states): `IsOneShot`, the
refinement of `OneShot`; the error names its cause; one answer per request; a request with
a timeout is settled.  Only timers are assumed to fire: the service may never answer.

*Proved* (`ServiceCallProofs`), for any sets: the refinement `IsOneShot`, `ErrorNamesCause`,
`OneAnswer`, from `PendingHolds` (who is pending holds an entry, nobody else does) and
`RequestInv` (a request is at the client, under way or at the service; answers are among
those that were sent).

*Asked of user code*: a service callback sends at most once, and not after it has
returned a response.

### 3.8 Parameters and simulated time

*State* of `Parameters`.  `parameters`, `descriptors`, `checks` are the maps and the array
of on-set callbacks in `lib/node.js`; `stack` the calls of `_setParametersAtomically`
under way, each with its list, its place and the names it declares; `told` what
`/parameter_events` said last; `active` the state of the time source.

*Actions.*  `DeclareParameters`, `SetParameters`, `UndeclareParameter`; `PreCallbacks`
(which may replace the list) with the validation that follows, one step for each on-set
callback, `TimeSourceCheck`, `Apply`, `PostCallbacks`; `CallbackThrows`; registration and
removal of callbacks.  User code runs in each of the callbacks and may call again.

*Run* `parameters_all` (`use_sim_time` and an integer with a range, two callbacks of user
code, calls nested 2 deep; 1.5 million states): values fit their descriptors, events tell
every value, read-only parameters stay, the time source follows its parameter.  The
module also has TLC compare `InRange` with what a range means.

*Proved* (`NodeProofs`), for any names, values, callbacks and depth: all four.
`Sound` is the heart of it: what a call has validated still fits when it is assigned,
because no call within it may set a name that is being declared or remove one (`Fits`,
`Below`).  `TimeInv` says that the time source is the last of the callbacks, that no
iteration passes it over, and that what it has seen is assigned next; that holds while no
callback is removed during a call (`RemoveWithin`; see 3.10).

*Asked of user code*: within callbacks only plain values of names that are not being
declared are set, and a pre-set callback adds nothing to a declaration; a list names a
parameter once; a descriptor bears the name of its parameter.

*State* of `SimTime`.  `active`, `attached`, `lastTime`, `subscribed` of the time source;
`override` and `rosTime` of each clock; of a sleep the place of its worker thread, its
event (`set`), deadline, the queue of calls from the jump callback, and `changed`.

*Actions.*  Switching the source, attaching clocks, taking the source off its node and
putting it back; `/clock`; `SleepUntil`, then the worker's questions to the clock one by
one (`ReadOverride`, `ReadNow`), `Wake`, `PostCallback`, `SleepReturns`; system time; shutdown.

*Run* `simtime_all` (two clocks, a sleep, instants 0 to 2, a queue of 2; 700 000 states):
clocks agree with their source; a sleep whose target lay ahead ends when its clock has got
there and stays there; a change of source ends it.  Three instants are enough for a
target to be ahead, reached and left again; a queue of 2 for one call to be dropped (it
is 10 in the code).  Worker threads, queued calls and continuations run; neither time has
to pass.

*Proved* (`NodeProofs`), for any clocks, sleeps, instants and size of the queue:
- `ClocksAgree`, and that the time source listens to `/clock` just while it is on a node and
  active, from `SourceInv`;
- with the parameters of the node, that is, of `Spec` and `TimeSpec` together: between calls
  every attached clock runs on simulated time if and only if `use_sim_time` says so, while
  no callback is removed during a call;
- `NoJumpIsLost`, the safety behind `SleeperWakes`: who waits for a target that lay ahead,
  and that the clock has reached, has been woken, has a call in its queue or has a deadline
  that is over, unless a change of source was dropped.  `SleepInv` follows a sleep from its
  first question on: as long as no change of source is on its way to it, its clock has not
  reached the target on simulated time or a jump is queued, and on system time its deadline
  is as early as the target.

### 3.9 Lifecycle nodes

*State* of `Lifecycle`.  `state` is that of rcl's machine, `callbacks` the registered
ones, `phase` the callback under way, `caller` who asked, `answer` what each request was told.
A transition is one synchronous call with up to two callbacks in it.

*Run* `lifecycle_all` (calls of the process itself and two requests, every transition
and every set of callbacks; 24 000 states): `IsManagedNode`.  `ManagedNode` knows the four
resting states, moves between them at once, and tells in the same step whoever asked.
A callback is taken to return a code or to throw, as `lib/lifecycle.js:210` asks.

*Proved* (`NodeProofs`), for any set of requests: the refinement `IsManagedNode`, from
`LifeInv`: the node rests in a primary state, or is in a callback of the transition that was
asked for, and who asked has not been told yet.

### 3.10 Met while modelling

What the code does where a reader might expect something else.  All of it is in the
models, or excluded by an assumption that says so.

Executor:
- `execute()` of one node empties the `OBSOLETE_HANDLES` of all nodes
  (`lib/node.js:511`), though `lib/entity.js:16` keeps a handle there until it has been
  executed: with other nodes in the process a ready wrapper may be collected.
- `stop()` and `spin()` in one callback: the guard of the old `DoWork`
  (`executor.cpp:219`) clears the `work_pending_` of the new run.  `WaitExcludesWork` is
  therefore proved for nodes that are not started inside a callback; `spin()`
  in the loop nested in `Stop` has its `async_` overwritten (`:192`).
- `stop()` in a callback does not stop the rest of its batch (`lib/node.js:233`).
- `g_exception_ptr` is one for the process and survives `Stop`; the next execution throws
  it and leaves its ready handles behind (`executor.cpp:283`).

Actions:
- `execute()` of a goal that is being canceled starts the callback again
  (`server_goal_handle.js:103`, against the comment at `:84`).
- A goal that changes while `cancelCallback` is awaited leaves the cancel request without
  response (`server.js:348`), and the promise of `client.js:364` unsettled.
- The rejection of a second goal with a UUID already in use removes the feedback
  callback of the first (`client.js:145`); a cancel request takes the goal out of the
  content filter before it is answered (`:410`).  `HearsFeedback` excludes both.
- A handle whose last status message overtakes the goal response stays in
  `_goalHandles` for ever (`client.js:206`).
- The promises of a destroyed action client are never settled (`client.js:529`).

Web:
- `subscribe()` after the link is closed for good is never settled (`web/client.js:285`),
  though a test says that requests on a dropped link are rejected
  (`test/test-web-reconnect.js:159`).
- The connection of an HTTP call does not notice that its client leaves, as the note in
  `transports/http.js:76` says; it goes when the answer comes.
- Feedback may be streamed before `accepted`, against the order given at
  `transports/http.js:444`.
- `call` and `publish` over HTTP work after `close()`, which aborts goals only.

Nodes:
- `node.destroy()` goes over `_actionClients`, `_actionServers` and others with `forEach`
  while each member takes itself out of the array (`lib/node.js:1204`): every second is
  passed over.  Its native handle goes with the node; its tables and promises stay.
- A node that user code creates inside `stop()` during a `shutdown()` is live in a
  context that is shut down; `ShutdownEndsNodes` leaves such nodes out (`late`).
- Events are left to the garbage collector, as are guard conditions.
- A second `createRate()` while the first awaits its server throws a `TypeError`.
- A `ParameterWatcher` that is destroyed while it starts goes on starting.

Parameters and time:
- An on-set callback that removes itself hides the next one from the same change
  (`lib/node.js:2236`), which may be the time source.
- `undeclareParameter` publishes no event.
- A sleep whose target is past already, on a clock with the override on, waits for the
  next jump; `shutdown()` wakes no sleeper; a change of source that races the end of the
  wait may be reported as success; when 10 calls of the jump callback are queued, a change
  of source is dropped; each sleep takes a thread of libuv's pool (`lib/clock.js:155`).
- A time source that is attached again does not tell its clocks (`lib/time_source.js:107`).

Lifecycle:
- A `change_state` request with a transition that is not available is answered `false`
  if it gives the label; if it gives the id, `_changeState` throws past the answer.
- An error that `onError` deals with is answered as a success, by the code of the callback
  that ran last (`lib/lifecycle.js:735`).
- A transition requested inside a callback always throws.
- A callback that returns no code, such as a promise, leaves the node in its transition
  state (`lib/lifecycle.js:763`).

### 3.11 What is not shown

Only model-checked, on the instances above: the liveness properties, `SyncComesBack`,
`ReadyIsHandled`, `StopComesBack`, `ResultArrives`, `PromisesSettle`, `CallbacksAreReleased`,
`Released`, `VerbsSettle`, `CloseCompletes`, `TimeoutSettles`, `SleeperWakes` and `ChangeWakes`:
liveness under fairness is beyond TLAPS.  `Owed` and `NoJumpIsLost` are proved of what two
of them rest on.  Every invariant, action property and refinement that a run checks is proved.
Theorems hold under the assumptions that the modules name and no others.  Memory models weaker than
interleaving are not considered: the shared variables of the executor are atomics or
guarded by a lock.  rcl, the middleware, libuv, V8, TCP and HTTP parsing are modelled by
what the code relies on.

Not modelled, and why:
- message generation, serialisation and validation (`rosidl_gen/`, `rosidl_parser/`,
  `rostsd_gen/`, `lib/message_*.js`): pure functions over memory layouts, and templates of
  code, which make up the larger part of the source.  Their questions are about bytes, not
  about order;
- names, QoS, graph queries, logging, node options, type descriptions: no state between
  calls;
- sending and taking a message: one rcl call each;
- rosocket: per-socket tables that are a part of what `Dispatcher` models;
- the six parameter services, which call the operations of `Parameters`; ranges of
  floating-point numbers, whose comparison is one of numbers;
- the enabled flag of lifecycle publishers; the period of a timer, which rcl keeps;
- observable subscriptions and the parameter event handler, which pass messages on.
