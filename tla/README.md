# Formal models of rcllite

rcllite is a small C++ implementation of the ROS 2 client library on top of
CycloneDDS, with Python bindings.  This directory holds TLA+ models of the parts of
it whose correctness depends on the order in which threads, messages and failures
meet, TLC configurations that check them on small instances, and TLAPS proofs of
the properties that matter most, for instances of any size.

Paths below are relative to the repository: `src/rcllite/executor.cpp`.

## 1. The system

| part | source | state | operations | interacts with |
|---|---|---|---|---|
| Node | `node.cpp`, `node.hpp` | entity list, epoch, change guard, parameter core | `add_entity`, `remove_entity`, `params` | wakes executors through its guard |
| Executor | `executor.cpp` | nodes, attachments `id -> entity`, epochs seen, cancel flag, two guards | `add_node`, `remove_node`, `spin`, `spin_once`, `spin_some`, `cancel` | waits on DDS conditions, calls `dispatch` of entities |
| Client, Service | `service.hpp` | sequence counter, `pending_` | `call`, `async_send_request`, both `dispatch` | two DDS topics per service; executors run `dispatch` |
| Parameters | `parameter.cpp`, `node_params.hpp` | `values_`, `params_`, two mutexes | declare, get, set, six services | created lazily by any thread, served by executors, publishes `/parameter_events` |
| Graph monitor | `graph.cpp` | participants, endpoints, announcements, log ring | polling thread, `snapshot_json`, destructor | five DDS readers, a stop guard |
| FFI registry | `ffi/rcllite_ffi.cpp` | handles of nodes, publishers, subscriptions, monitor, graph executors | `node_*`, `pub_*`, `sub_*`, `graph_*` | called by Python threads, calls back into Python from spin |
| Graph executor | `graph_executor.cpp` | nodes of a JSON topology, publisher threads | construct, spin, status, destroy | Executor, Node, Parameters |
| DDS layer | `dds/entities.*`, `dds/raw_serdata.*` | context and its overrides, participant, reader, writer, guard condition; payloads | `configure`, `instance`, `take`, `write`, `trigger`; samples from buffers and fragments | CycloneDDS |
| Codecs | `cdr.hpp`, `msg_traits.hpp`, `tools/msg_codegen.py`, `python/pyrcllite/messages.py` | none | serialize, deserialize, twice: in generated C++ and in Python | every publisher, subscription and service |
| Names, QoS | `names.cpp`, `qos.hpp` | none | ROS names to DDS topics and types | every endpoint; the graph view translates back |
| JSON, logging, errors | `json_writer.hpp`, ... | none | formatting | |
| Python package | `python/pyrcllite` | handles held by Python objects, two sets of objects to destroy at exit | `Node`, `Publisher`, `Subscription`, `init_dds`, exit handlers | FFI registry |

What is hard here, and what the models are for:

* *Two-step hand-overs between threads.*  A change of an entity set is recorded (the
  epoch), then announced (the guard); `cancel()` sets a flag, then triggers a guard;
  `reconcile_locked` reads the entities, then the epoch; `Client::dispatch` takes an
  entry out under a lock and uses the pointer in it afterwards; a parameter is stored,
  then its event published.
* *Stale names.*  The executor maps ids that a wait returned to entities, after other
  threads may have attached and detached; the FFI maps handles to objects that other
  threads destroy.
* *Failures part-way.*  Attaching a condition, writing a request, publishing an event
  and constructing the fifth parameter service can each fail after earlier steps have
  taken effect.
* *Agreement of independent translations.*  Two codecs and four translations of names
  have to produce the same bytes and strings, and readers get payloads with lengths
  from elsewhere, with padding, in overlapping fragments.
* *The ends of the process.*  `init_dds` races the first node; the exit handlers of
  Python run while daemon threads still use the library.
* *Limits.*  A wait returns at most 64 conditions, a take 16 samples, a built-in take
  32, the log ring 512, the `ros_discovery_info` reader one.

`PROJECT.json` lists these hazards line by line, with the properties that watch them.

What makes each part correct, in a sentence: the executor waits on what its nodes
have, and notices changes and cancellations wherever it is; a service call returns the
answer to its own request, once; parameters behave as one map, and observers see its
changes in order; the monitor's picture converges to the domain's; a destroyed Python
object is not called back, and nothing is left for the interpreter to destroy when it
finalizes; what one side sends the other reads; endpoints created for the same name and
type meet, and only those; a topology's threads never outlive what they use, also when
its construction fails part-way.

## 2. Modules

| module | models |
|---|---|
| `Executor` | `Executor` with the entity side of `Node`, step by step |
| `ServiceCall` | `Client` and `Service` over an unreliable network |
| `ParameterStore` | the abstract specification of a node's parameters |
| `Parameters` | the parameter core and its services; implements `ParameterStore` |
| `ParameterList` | `tokenize` and `handle_list` |
| `Cdr`, `Messages` | the wire format: `CdrWriter`, `CdrReader`, generated code, the Python codecs; the message types |
| `RawSerdata` | payloads, their padding and their fragments |
| `Names` | ROS names, DDS topics and types, and the way back in the graph view |
| `Conversions` | composes the last five: a message on its way, endpoints and their names, a `list_parameters` request |
| `GraphMonitor` | the graph monitor's thread, readers, destructor and snapshot |
| `FfiRegistry` | handles of nodes, publishers and subscriptions, and a spin |
| `Context` | the process-wide DDS context and what `init_dds` stores for it |
| `Bindings` | composes `FfiRegistry` and `Context` with the objects and exit handlers of the Python package |
| `GraphExecutor` | construction, publisher threads, handle and teardown of a topology |
| `ExecutorProofs`, `ServiceCallProofs`, `ParametersProofs`, `GraphMonitorProofs`, `GraphExecutorProofs`, `BindingsProofs`, `ConversionsProofs` | theorems |
| `CdrProofs` | lemmas on sequences, folds and the operators of the codecs, for `ConversionsProofs` |
| `MC...` | instances for TLC: owners, homes, requests, symmetry sets |

Common conventions.  A step is what happens between two points at which another thread
can take effect: everything done under one acquisition of a mutex is one action, and a
function that acquires twice is two.  A thread's position is a label in a `pc`
variable; the variables keep the names of the members where they can.  Values, names
and messages are model values.  Definitions ending in `Mutant` (and a few named for the
mistake, such as `FoundUnchecked`) are the mistakes each property is shown to catch;
no specification uses them.

### Executor

`nodes`, `attached`, `known` and `nextId` are `nodes_`, `attached_`, `node_epochs_`
and `next_attach_id_`; `lock` is the owner of `nodes_mtx_`; `entities`, `epoch` and `guard`
belong to the nodes.  One thread, the spinner, runs `spin`, `spin_once` or `spin_some`
("Callable once at a time"); the `Users` call everything else.  `reconcile_locked` is
five actions (`SnapEntities`, `SnapEpoch`, `DetachStale`, `AttachOne`,
`FinishReconcile`), because other threads change entity sets in between: each node's
entities and epoch are read under that node's own mutex.  `wait_and_process` is
`CheckEpochs`, a wait (`WaitReturns`, `WaitGivesUp`), one step per returned id
(`TakeCancel`, `TakeWake`, `Lookup`, `Dispatch`) and the absorption of the change
guards.  A wait returns the triggered attachments, any `MaxTriggers` of them when there
are more.  Any DDS call that can fail may fail up to `MaxFailures` times.

### ServiceCall

A caller goes through `Begin`, `Register`, `Write` (or `WriteFails`), and a synchronous
one waits, and either `Receive`s or `TimesOut` and `Withdraw`s.  `Claim` is the part of
`Client::dispatch` under `pending_mtx_`, `RunCallback` and `SetPromise` the part after
it.  The promise of a `call()` lives on the caller's stack: the model has one slot per
caller, and a pointer to a promise that has gone writes into whatever promise the
caller's next call put there, or into nothing (`dangling` records that it happened).
Requests and replies are sets, so they are reordered; every server of the service
answers, and every client sees every reply; with `Lossy` a message may vanish.

### ParameterStore, Parameters, ParameterList

`ParameterStore` is what a user may rely on: declare and set are indivisible, and each
adds its event, in order, unless the publisher fails.  In `Parameters` the value is
stored and the event published in two steps under `mtx`, application threads race to
create the core under `paramsMtx`, and the services are registered one by one while
requests already arrive.  The refinement mapping hides a value until its event is out:
a store and its `Publish` or `PublishFails` are one step of `ParameterStore`, and
everything else stutters.  `ParameterList` models `tokenize` and `handle_list` on names
as sequences of parts; it is checked as a part of `Conversions`.

### Cdr, Messages, RawSerdata, Names, Conversions

These parts keep no state between calls.  `Cdr` works on bytes, because alignment,
lengths and bounds are what can go wrong: a message type is the sequence of its members,
a reader a record that holds its position, what it has put out and whether it has
thrown.  The generated C++ code and the Python codecs are two sets of operators that
share nothing but the memory copy (`read_bytes`, `Bytes`), as the two implementations
do.  `Messages` gives the six types that both languages have and two replies that only
C++ has; the matrices of `CameraInfo`, of 9 and 12 elements, have `Matrix` elements.
In `Conversions` a message is serialized in either language, may lose its end or have a
byte changed (`pub_publish` accepts any bytes behind a header, and endpoints match by
type *name*), is written, received in one piece or in overlapping fragments, and read
in both languages.  What a C++ `bool` is after a byte above 1 was copied into it is
undefined: such a reader is `odd`, and no value is claimed of it.

In `Names` a name is the sequence of its pieces, slashes included.  `CreateTyped`,
`CreateService` and `CreateRaw` are the three ways to an endpoint, with the expansion
and validation each of them does; an endpoint remembers what it was created *for*, so
that the properties can compare this with what DDS and the graph view know.

### GraphMonitor

The domain (participants, endpoints, announcements, log records) is environment.  A
built-in reader remembers for each instance that it changed; a take returns the
instance's present state, `Batch` instances at a time.  `ros_discovery_info` is read
with `keep_last(1)` and `raw_serdata.cpp` compares no keys, so its reader holds the
newest announcement of anybody.  Each poll function is one action: its work under `mtx`
is what a snapshot can see.  `SnapshotNodes` and `SnapshotEdges` are functions of the
state, as `snapshot_json` is, which holds `mtx` throughout: the document is a record
of the sets that its sections render.

### FfiRegistry, Context, Bindings

Each step under `g_registry_mtx` is an action; `node_destroy` and `sub_destroy` go on
outside it.  The executor is reduced to a latched cancel guard and attachments that
follow the entities some time later, which is what `Executor` shows of it.

A `NodeEntry` and the `Node` it points to have lives of their own.  A thread that looked
the handle up (spin, cancel, `node_destroy`) holds the entry, and with it the executor,
the publishers, the subscriptions and the Node; a thread in `sub_destroy` holds the Node
and the one subscription (`InSubDestroy`).  When a call returns (`Return`), entries
that are neither registered nor held die (`EntriesKept`), Nodes only if no
`sub_destroy` has them either (`NodesKept`), and a subscription when no Node, executor or
thread has it (`SubsKept`).  So a `node_destroy` during a `sub_destroy` leaves, for a
while, a Node with subscriptions that no entry knows; `EntitiesAreKnown` says for how
long.

`Context` splits `instance()` where `g_cfg_mtx` is released: the constructor reads the
overrides under it (`Construct`), `g_ctx` is assigned after it (`Assign`), and
`configure` (`InitDds`) may run in between.  A peer is a host and a port; of its own
addresses `init_dds` takes out the loopback one only.

`Bindings` adds the Python objects: an object is complete once it is in
`_TRACKED_NODES` or `_TRACKED` (`Track`), `destroy()` crosses into the registry and drops
the handle afterwards (`DestroyNode`, `DestroyEndpoint`, `Untrack`).  At exit the main
thread runs the two handlers, the one of `node.py` first, while the other threads, which
are daemons, go on.  A handler begins to list its `WeakSet` (`Exit`, `ListEndpoints`), ends
the listing later (`NodesListed`, `EndpointsListed`), and destroys what it found one by
one (`ExitNode`, `ExitEndpoint`, then `Finalize`).  `list(...)` of a `WeakSet` is an
iteration in Python: an object that another thread adds or discards meanwhile may make it
raise, outside the `try`, and the handler ends having destroyed nothing; or, if the sizes
happen to match, some objects are found and others not.  `changed` records such a
disturbance, and `Found` then allows any part of what was there, the empty one included.

### GraphExecutor

A constructing thread goes through the items of `Topology` in order (`BuildNode`,
`BuildItem`, `PushNode`), then starts the publishers (`StartItem`, `StartNode`) and
enters the handle (`Register`); `BuildThrows` and `StartThrows` are the exceptions that
any of these may meet, and what their unwinding destroys.  Who is alive follows from who
holds a `shared_ptr`: the entries, the executor and the publisher threads.  A publisher
thread is the deadline loop of `start_publishing` (`Begin`, `Test`, `Write`, `Wake`) on
a clock.  `Lookup` releases the registry's mutex and the call works with the plain
pointer it found; `Destroy` erases the handle first, and then runs the destructor step
by step (`Stop`, `CancelSpin`, `Join`, `DropEntries`, `DropExecutor`).

## 3. Runs

Passing runs:

| run | question | instance |
|---|---|---|
| `executor_safety` | Can the bookkeeping of attachments, a wakeup or a cancellation go wrong under any interleaving, also when a DDS call fails? | two nodes, an entity, a spinner, two users, three calls, one failure |
| `executor_serial` | Do the attachments follow the entity sets, and is data served, when entities change on the spinning thread or while it is idle? | one node, two entities, two users; full batches, and more ready conditions than a wait reports |
| `service_calls` | Do two threads sharing a client ever get a wrong or a second answer, with two servers, failed writes and timeouts, and does every request end? | two requests, nothing lost in transit |
| `parameters_safety` | Do concurrent uses of the parameters, the first use included, look like one store with its events in order? | two application threads, an executor, two names and the empty one, two values, four calls, a failing publish, a failing construction, a dropped node |
| `conversions` | Is what was sent what is read, in either language, whatever happens to the bytes?  Do endpoints meet exactly if they should?  Is `list_parameters` what its reference says? | eight message types with all lengths out of five, up to nine bytes missing, any bytes replaced by eight others (a character of two bytes and parts of it among them), fragments of two sizes with three overlaps; a node in four namespaces and two endpoints with names of up to two tokens; all sets of two names of up to three parts, two prefixes, depths 0 to 2 |
| `graph_monitor` | Does the monitor converge to the domain, keep the newest logs and stop? | an rcllite peer with a writer and a reader, the monitor with a reader of its own, takes of one instance, a ring of two records and four published |
| `graph_executor` | Do a topology's threads, nodes and handle end together, wherever construction fails and whenever it is destroyed, and do publishers keep their rate? | two nodes with a parameter, a subscription, a one-shot publisher and two periodic ones of periods 1 and 2, a clock to 3, two application threads |
| `bindings` | Are callbacks stopped and spins ended by destroy, is the DDS setup that was asked for the one used, and is nothing left at exit, in all interleavings? | a spinning thread, two others of which one exits, three handles, two samples, a valid and an invalid `init_dds` |

Runs that exhibit a disagreement between the code and what it says of itself:

| run | what happens |
|---|---|
| `executor_stale_snapshot` | `reconcile_locked` reads a node's entities and then its epoch; an entity added in between is not attached, yet its epoch counts as seen, and the executor waits without it until something else changes.  The same property holds in `executor_serial`, where no other thread adds entities. |
| `service_timeout_race` | A reply is claimed by `dispatch`, the caller times out and leaves, and the value is then written through a pointer to a promise that has gone, possibly into that of the caller's next call.  `AnswersMatch` is the same claim up to that write, and holds. |
| `parameters_dropped_node` | The callbacks of the parameter services capture a plain pointer to the core, which dies with the node although the executor keeps the service alive.  `HandlersHaveCore` shows that this and a failed construction are the only ways. |
| `graph_discovery` | An announcement that is polled after its participant's departure is entered and never removed; and an unread announcement is replaced by another peer's. |

Observations that have no run of their own: a `cancel()` noticed through its flag
leaves the guard triggered, which ends the next `spin()` as well (`CancelEndsAtMostTwo`
is the bound that holds); with more than 64 conditions triggered, guards can keep ready
entities out of the pass after which `spin_some` stops; setting a parameter to NotSet
publishes no event; `set_parameters_atomically` takes the lock once per parameter, so
others see it half done; a construction of the parameter core that fails leaves the
services registered so far behind; an asynchronous request whose reply is lost keeps
its `pending_` entry for the life of the client; of two nested prefixes given to
`list_parameters` the first decides.  `init_dds` is accepted and without effect while
another thread is between the constructor of the context and the assignment of `g_ctx`,
although `entities.hpp` says that it throws (`OverridesAreUsed` leaves out that window).
`graph_snapshot` uses the monitor after releasing the mutex that keeps `graph_stop` from
destroying it.  The padding of a payload to four bytes stays in it, so a sample that
lacks up to three bytes can be read, with zeros in their place (`TruncationNoticed` is
the exact limit).  The padding also completes a length that was cut: a sequence of 256
elements, or another multiple of 256, that is cut behind the first byte of its length is
read as an empty one (`CutsNoticed` has the hypothesis that excludes it; a string's
length cannot become 0 that way, because 0 is refused).  Behind an empty sequence of
doubles the Python reader pads and the generated one does not; they agree because the
only such sequence, `d` of `CameraInfo`, has an array of doubles behind it.  The guard "every element needs at least one byte" of
`read_sequence` rejects sequences of messages without fields.  A string that is not
UTF-8 makes Python refuse the message, which drops it; generated C++ takes any bytes.
`ReadersAgree` says that this is the only difference between the two readers, bools
apart.  An object that a thread creates or destroys while an exit handler lists its set
can make the handler raise, and then no node, or no endpoint, is destroyed before the
interpreter finalizes (`CallbacksGone` speaks of listings that were not disturbed).
`init_dds` documents that "the node's own port is ignored if listed", which the code does
for `127.0.0.1` only.  `pub_create` and `sub_create` take topics as they are
and refuse relative ones, which `create_publisher` in C++ expands.  `dds_type_name`
accepts types of two or four parts, and `make_fq_node_name` namespaces with empty
tokens.  A comment in `service.hpp` calls the reply type `Name_Reply_`; the generated
name is `Name_Response_`.  `Writer`, `Reader` and `Participant` leave DDS handles behind
when their constructors throw half-way.

### Bounds

Every bound is a CONSTANT used in a guard (`MaxCalls`, `MaxFailures`, `MaxBroken`,
`MaxSeq`, `MaxData`, `MaxSamples`, `Records`, `MaxHandle`, `MaxTime`, `MaxCut`,
`MaxTokens`, `MaxParts`, `MaxPrefixes`, `MaxDepth`).  Two users are enough for
each pair of concurrent calls while a third thread spins; two nodes so that one is
removed while the other's entity is reported.  `MaxTriggers` and `Batch` stand for 64, 16
and 32.  `Batch` is 1 wherever takes matter, so that every take of the executor is a full
batch and goes round again, and the monitor takes instances one by one.  In
`executor_serial` a wait reports three of five conditions; in `executor_safety` it has
room for all five, because `SpinSomeDrains` does not hold otherwise.  Two servers give
duplicate replies, and two requests let a late reply of the first meet the second; that
clients do not take each other's replies, losses in transit and longer runs are left to
the theorems of `ServiceCallProofs`.  Two periodic publishers of different rates on two
nodes let `StartThrows` strike between them, and one be asleep while the other writes.
In `parameters_safety` four calls let two threads declare, one set, and a request
be served.  In `conversions` the lengths 0, 1, 3, 4 and 6 give every padding in front of
a four-byte member and paddings on both sides of four in front of an eight-byte one, nine missing bytes reach past every
alignment gap and the longest primitive, and fragments of five bytes cut primitives and
strings.  The bytes that replace others are 0, 2, 9 and 127, as lengths within the buffer
and beyond it and as bools, and for strings a character of two bytes, its first and its
second byte alone and an overlong form; these changes are made to messages with
lengths 0 and 4.  The strings that are sent are ASCII: one cut inside a longer character
would be refused by Python where C++ reads it.  None of the bounds on messages and names limits the theorems of
`ConversionsProofs`.  In `bindings` three handles are a node, a publisher and a subscription, a
node with two subscriptions, or two nodes of which one is created during exit.  With the
first participant the context is fixed, and nothing later depends on which one it is:
the constraint `FollowedFurther` lets TLC go on from there for one context only.
Two samples are taken together, so that one callback has begun and one has not when a
subscription is closed.  A ring of two records shows order and gaps, and four records
replace all of it.  A monitor that takes one instance at a time falls behind with three
endpoints as one that takes 32 does with a hundred.  The theorems show for every
module with state of its own that the bounds hide nothing of its invariants.

Deadlock is not checked: a bounded environment runs out of calls, and a library that
nobody calls may stop.

### Fairness

`executor_serial`, `service_calls`, `graph_monitor` and `graph_executor` assume that
threads inside the library are scheduled (weak fairness of their next steps), and
`graph_executor` that time passes.  That somebody calls `spin`, `cancel` or the
destructor is never assumed; `service_calls` assumes that executors spin for the client
and the server, without which no reply is served.  `Bindings` assumes nothing: that
`node_destroy` ends a spin is split into `CancelStopsSpin` of `Executor`, which is a
liveness property, and `DestroyEndsSpin`, the invariant that the cancellation is there
to be noticed.  Samples may keep arriving for ever, one unread at a time; a writer that outpaces `Reader::take` keeps the thread in its loop, in the model
as in the code.  The liveness properties of `executor_serial` have the hypothesis
`DispatchEnds` that this does not go on for ever; without it TLC shows that `cancel()`
does not stop the spin.

## 4. Proofs

Checked by TLAPS for every value of the constants that satisfies the stated
assumptions: disjoint sets of threads, bounds that are natural numbers
(`ConstantsAssumption` and its like in each module); in `GraphExecutor` that the items of
a topology are distinct and periods positive (`TopologyAssumption`: an item stands for
one endpoint that is created, so no endpoint occurs twice); in `GraphMonitor` that no
node name or enclave looks like the `participant:` label of a participant without a name
(`NameAssumption`: names begin with a slash); in `Conversions` (`ConversionsAssumption`)
that tokens of names have no slash in them, that a namespace is not one empty token
(which would be spelled as the root is), and that strings and sequences are shorter than
2^16 - 2, because `Bytes` models numbers of two bytes: a longer length only has more bytes
that are not 0.  TLC evaluates all of them on the instances above.

Except for `ConversionsProofs`, whose three subjects share no state and have an invariant
each, every proof module has one inductive invariant `IInv`, a conjunction of named parts, with
a lemma per part (one step per action, and under it one per conjunct at stake) and the
theorem `Invariance == Spec => []IInv`; the theorems about properties follow from it.

`ExecutorProofs`:

* `TypeOK`;
* `Discipline`: who holds `nodes_mtx_`, and that `reconcile_locked` runs only under it;
* `Ids`: ids grow and are used once, so an id returned by a wait and detached since
  names nothing - why `StaleIdsAreDead` holds;
* `Membership`: what is attached, or about to be, belongs to the executor's nodes -
  for `AttachedAreOfNodes` and `RemovedNodesStaySilent`;
* `Notice`: while the spinner is on its way to its wait, a change it has not looked at
  still has its guard triggered, or a thread about to trigger it, or a reconciliation
  about to see it.  `ChangeIsNoticed` alone speaks of the wait only and is not
  inductive: the reason is established earlier, by the order guard-then-epoch;
* `CancelSeen`: the same for the cancel flag and guard;
* `Looping`, `Budget`: each `cancel()` pays for two returns of `spin()`; the flag, the
  guard and every thread about to raise the guard stand for one that is not yet used.
  `CancelEndsAtMostTwo` is the sum without them;
* `EpochsPast`, and with `Serial` `Exact`: a node whose epoch counts as seen has exactly its
  entities attached, or in `desired` while they are being read or attached.  Without
  `Serial` it fails between `SnapEntities` and `SnapEpoch`, which is the run
  `executor_stale_snapshot`;
* with `Roomy` (a wait can report every condition there is) `Owing`: what `spin_some`
  still owes is attached and ready, and during a pass its id is among those the pass has
  left.  Without `Roomy` guards can crowd entities out.

Theorems: `TypeCorrect`, `IdsAreNotReused`, `AttachesOnce`, `NoLostWakeup`,
`NodesOnly`, `RemovedAreSilent` (an action property), `CancelReaches`,
`CancelIsBounded`, `SerialIsCurrent`, `SomeDrains` (an action property).  The last two
have the hypotheses `Serial` and `Roomy`, which the runs that check the same properties
satisfy.

`ServiceCallProofs`.  `IInv` is `TypeOK` with `Numbers` (sequence numbers are handed
out once), `Hands` (an entry is pending or claimed, not both), `Traffic` (messages
carry registered numbers and replies the request's header), `Slots` (the promise in a
caller's slot is that of its present call) and `Loans` (until a dead promise was
written to, promises hold their own response and pending pointers are live).
Theorems: `TypeCorrect`, `RegistrationFirst`, `AtMostOnce`, `PointersLive`,
`OwnAnswers`.

`ParametersProofs`.  `IInv` is `TypeOK` with `Work` (a thread with a call to make has
its assignment), `Locked` (between two steps `mtx_` is held exactly while an event is
published), `Pending` (that event is of the value just stored), `Checked` (what an
accepted request has left to set is declared, and nothing of it was refused), `Told`
(the last event of a parameter carries its value, except the one that is about to be
published), `OneBuilder` (a core is built by one thread, under `params_mtx_`, while there
is none) and `Served` (while nothing failed, services and the callbacks they have started
have a live core).  `AcceptedMeansSet` speaks of the finished request and needs `Checked`
for the steps between; `Checked` needs that declarations stay, because check and set are
under different acquisitions of the lock.  `EventsFollowValues` speaks of a free lock and
needs `Told` for the others.  For the refinement the store's values are
`values_` while the lock is free and those before the assignment while its event is
outstanding, so that the step of the store is the publication; `Locked` and `Pending`
are what that mapping rests on.  Theorems: `TypeCorrect`, `DeclaredForGood` (an action
property), `AcceptedIsSet`, `EventsAreCurrent`, `CallbacksHaveCore`, `Implementation`
(the refinement).

`GraphMonitorProofs`.  `Housed` (endpoints belong to participants that are present),
`Known` (where a reader has no news, the monitor's entry is right) and `Kept` (the ring
holds the newest of the records taken, the reader the newest of those after them; both
are runs of consecutive records, on which there are lemmas).  Each property speaks of a
monitor that has caught up; its invariant says what holds on the way, for every
`Batch`, `MaxLogs` and order of polls.  `ObserverInvisible` follows from the types
and from lemmas about `resolve_node`.  Theorems: `TypeCorrect`, `MonitorCatchesUp`,
`RingIsNewest`, `MonitorUnseen`.

`GraphExecutorProofs`.  `OneOwner` (one thread builds or tears down, and none while the
handle is registered), `Building` and `Unstarted` (what the position in the topology says
of nodes and threads), `Whole` (from the end of building to the join all nodes are
there), `Emptied`, `Covered` (publisher threads run only in that time), `Looked` and
`Paced` (the deadline is the start plus a multiple of the period, at most one period
ahead, and pays for every write).  `RateKept` alone is not inductive: it does not relate
the writes to the deadline.  Theorems: `TypeCorrect`, `PublishersBacked`,
`FailureIsClean`, `PublishersKeepRate`, `CallsAreServed`.

`BindingsProofs`.  The invariant has a part for each of the three modules it composes.
That of the registry is preserved by every call on it, whoever makes it: threads hold
what they looked up (`Entered`), handles belong to one node, whether its entry knows
them, its Node has them or its executor has them attached (`Owned`), a node is spun
and a subscription destroyed by one thread (`OneSpinner`, `OneDestroyer`), what is
dispatched is attached (`HoldsAttached`), a late callback is the last (`LateOnce`), and
what lives in an unregistered node is held by a thread (`Backed`).  `EntitiesAreKnown`
is inductive with these: the case that needs them is the entry that dies while a
`sub_destroy` keeps its Node.  That of the context
says that one thread constructs it and that it is the stored configuration unless that
came in the window (`OneConstructor`, `Current`, `FromContext`); that of the Python
objects that they stand for handles given out (`Named`), that an object without its
handle has lost its entry in the registry (`Untracked`, with `Cleared`), and that this
holds of all that was listed undisturbed and has been dealt with (`Handled`).
`CallbacksGone` speaks of the end of the exit only.  Theorems:
`TypeCorrect`, `AtMostOneLate`, `RegistryAgrees`, `DestroyReachesSpin`, `OverridesUsed`,
`NoCallbackLeft`.

`CdrProofs`, `ConversionsProofs`.  What these say is about operators that go through
bytes, tokens and members, so the proofs are by induction over data.  The induction
theorems of the library have an operator as a parameter, which the provers cannot
instantiate; `NatInductionSet` and `SeqInductionSet` state induction with a *set* for the
property instead, from the least element of a set of numbers.  `FlattenSeq` and
`FoldLeft` are recursive functions inside `SequencesExt`.  That of `FlattenSeq` is shown to
exist and to obey its equation (`Flattens`).  For the folds, `IteratesExists` and `RunOf`
give the sequence of values that a fold goes through; because a lemma cannot be
instantiated with the operator that is folded, each fold of the codecs has its own
(`ReadElemFold`, `SerializeFold`, ...), which all read alike.

On these rest, from small to large: what each reader reads and where it stops (`Reads`:
from a position to a next one, or it has failed and the reason is that the next one is
beyond the buffer), for numbers, strings, elements, members and messages; that the C++
reader stays in its buffer (`Inside`) and the one in Python where it has not failed
(`PyInside`); that both have read the same (`Same`: one in Python has failed exactly if
the one in C++ has, or has met a string that is not UTF-8; `Alike` the same of numbers,
where strings play no part; `Lag` behind an empty sequence of doubles); that the two writers append the same bytes (`Grown`, `PySerializeIs`); that a
buffer which holds the first c bytes of what was written, with zeros behind them, is read
back (`Back`, where strings are ASCII, which is UTF-8, `AsciiIsUtf8`: the reader fails exactly if the buffer is shorter than what was written,
and what it returns is right as far as nothing is missing); and that fragments of any
size and overlap are put together again (`FragmentsJoined`).

The invariants are three.  `ListInv`: the response is the answer to the last request.
`NameInv`: every endpoint has the topic and type that its role, path and message type
give; the theorems then follow because these are injective, which needs that no token has
a slash (`SlashedInjective`, `TopicInjective`, `TypeInjective`).  `WireInv`: at each stage
the buffer is what `Handed` (before the write) or `Carried` (after it) say of the bytes of
the message and the fault, and what a reader has returned is what it makes of the buffer.
`WireRoundTrip` and its like speak of taken messages only and are not inductive.  `WireInv`
was checked by TLC on the instance of `conversions` before it was proved.

Theorems: `ListExactly`, `NamesMeet`, `NamesShown`, `MessagesArrive`, `CutsNoticed`,
`LanguagesAgree`, `ReadersStayInside`: for all lengths, cuts, wrong bytes, fragment sizes,
overlaps, tokens, namespaces and depths.  `CutsNoticed` has the hypothesis that no length
is a multiple of 256 except 0, which the instance satisfies and without which the
property fails (section 3).

The type invariants have no run of their own: they are proved.

Only model-checked: every liveness property (fairness and ENABLED are outside the
prover's reach).  Every invariant and every safety action property that a passing run
checks is stated by a theorem.
Only proved, because the theorem says more than a run would: that no condition is
attached twice (`AttachesOnce`), that a request is completed once (`AtMostOnce`) and
that declarations stay (`DeclaredForGood`).

## 5. Not modelled, and why

QoS records, JSON, logging and errors are settings and formatting.  Creation and
deletion of DDS entities is I/O, and so are loading the library and the command line of
the Python package.  The code generator's parser and the layout of the headers it writes
are a translation of text at build time; what the generated code does is modelled.  Of
the raw payloads, reference counts and the operations for keyed types, which CycloneDDS
does not call here, are left out.  Garbage collection of Python objects calls the same
`destroy()` as a thread does.  The contents of DDS - discovery, matching, reliability -
are environment: modelled only as far as this code relies on them, and marked external
in the map.  Time is modelled only for the publisher threads of the graph executor:
elsewhere a timeout may expire at any moment, and waiting for subscribers or a service,
which polls a counter, is left out.  Of the graph executor, the counters of received
samples and the registry of node classes are left out.  The handle of the graph monitor
is not modelled: nothing in the code keeps `graph_stop` from destroying the monitor
under a `graph_snapshot`, so there is no property to check.

## 6. Plan

The order was: executor and service calls first, because everything runs on them;
parameters with their abstract specification; the monitor, the registry of handles and
the graph executor, where threads and teardown meet; then the bindings with the context
and the exit of the process, and the conversions.  `MC` modules instantiate, proofs live
in modules of their own, and no module uses recursion.  All safety properties of all
modules are proved.  What is left is liveness, which stays with TLC, and the parts that
section 5 leaves out.
