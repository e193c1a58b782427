# TLA+ models of distributeddatamgr_objectstore

This directory specifies the distributed object store in TLA+, model-checks it
with TLC and proves most of its safety with TLAPS. Paths below are relative to the
repository (`IK` = `src/frameworks/innerkitsimpl`, `JK` =
`src/frameworks/jskitsimpl`). `PROJECT.json` has, for every definition that
models code, the lines it models.

## 1. The system

An application joins a *session*; devices that joined the same session share one
in-memory table of items. From the JS API down:

| Component (source) | State it keeps | Operations | Talks to |
|---|---|---|---|
| JS object (`src/interfaces/jskits/distributed_data_object.js`) | `__sessionId`, the proxy, its properties | `joinSession`, `leaveSession`, `on`, `off`, `save`, `revokeSave`, a getter and a setter per property | native adaptor, same thread |
| JS native adaptor (`JK/src/adaptor/js_distributedobjectstore.cpp`, `js_watcher.cpp`, `js_object_wrapper.cpp`) | recorded callbacks by object id, handlers of a wrapper, `isWatched_` | create, destroy, on, off, record, delete, restore | object store; `NotifierImpl`; JS loop through `UvQueue` |
| JS delivery (`js_watcher.cpp`, `notifier_impl.cpp`, `uv_queue.cpp`) | session to `JSWatcher` table, queue of calls | `OnChanged`, `Emit`, `CallFunction` | called on database and notifier threads; calls back on the JS loop |
| JS values (`js_distributedobject.cpp`, `js_util.cpp`) | `undefinedProperties_` | `JSGet`, `JSPut`: conversion to and from items | distributed object |
| JS save/revokeSave (`js_distributedobject.cpp`, `napi_queue.cpp`) | a context with a raw object pointer | asynchronous work | worker threads, cache manager |
| Distributed object store (`IK/src/adaptor/distributed_object_store_impl.cpp`) | `objects_`, `watchers_`, a `syncStatus` per restoring thread | `CreateObject`, `DeleteObject`, `Watch`, `UnWatch`, `Get`, `TriggerRestore` | flat store |
| Distributed object (`distributed_object_impl.cpp`) | its session | put and get of strings, numbers, booleans, bytes, as tag and payload | flat store |
| Flat store (`flat_object_store.cpp`) | none beyond the engine | forwards; asks the service for saved data on create | engine, cache manager |
| Storage engine (`flat_object_storage_engine.cpp`) | `delegates_`, `observerMap_`, `isOpened_`, `statusWatcher_` | `Open`, `Close`, table, item and observer operations, status reports | the database; SoftBus adapter for network ids |
| Cache manager (`flat_object_store.cpp`, `object_callback.cpp`, `client_adaptor.cpp`, `condition_lock.h`) | `mutex_`, a `ConditionLock` per call | `Save`, `RevokeSave`, `ResumeObject` | the object service by IPC |
| Process communicator, pipe manager (`process_communicator_impl.cpp`, `app_pipe_mgr.cpp`) | two handlers, `dataBusMap_` | start, stop, register | called by the database; SoftBus adapter |
| SoftBus adapter (`softbus_adapter_standard.cpp`) | listeners, `sessionsStatus_`, `busSessionMap_`, `networkId2Udid_` | send, watch, bus callbacks, `ToNodeID` | the bus |

The database (`KvStoreDelegateManager`), the object service, the soft bus and
the JS engine's loop and collector are outside the repository; they are
modelled by what this code relies on, and their definitions are marked external.

**What is hard.**
- `CreateTable` gives its mutex up between looking a session up and inserting it.
- An object and its table live in two maps that are updated one after the other.
- Entries survive what they were made for: `observerMap_` and `watchers_` a
  deleted session, recorded callbacks a left one, queued calls an `off`,
  `sessionsStatus_` a failed opening, a pull the object and the thread it was
  asked for.
- A `Save` waits, holding the manager's lock, for a callback that refers into
  the waiter's stack frame; JS may delete the object meanwhile.
- A sender waits for a session that bus threads open, and close, at any time.
- Handlers are cleared while threads that copied the listener are on their way.
- A change passes two or three threads, two mutexes and a list without a lock
  before it reaches a callback, which may take callbacks off in turn.
- A restoring thread sets a status after it asked for what sets it again.
- A name is looked up in a list of devices that was taken before the lock.
- A value is read in two steps, by a tag a peer may change in between.
- Nearly every native call can fail, and several results are not looked at.

`PROJECT.json` lists these as hazards, each at its line, with the properties
that cover it or the reason none does.

**What makes each component correct.**
- Engine: it never uses a closed handle or another session's; it loses none; no
  raw observer pointer outlives its watcher; a deleted session is gone.
- Object store: the tables agree; a watcher that is filed is really called; to
  its users a session has the life cycle of `SessionLifecycle`.
- Restoring: a session has one pull under way at most, a success is final, and
  the caller is notified whatever comes of the pulls.
- Values: what is read was put; joining publishes an object's properties and
  leaving keeps them.
- Cache manager: the callback's frame exists; the answer is true of what the
  service stores; the lock is released.
- JS: the callbacks an object carries are those put on and not taken off, and
  they are reached by exactly the changes they should be.
- Delivery: no callback is called after it was taken off; nothing walks freed
  memory; no circular wait; what is emitted is delivered or dropped in the end.
- SoftBus sessions: a sender acts on the result of its own session, and its
  call ends; `busSessionMap_` tells the truth.
- Communicator: no call after a handler was taken back, registration works again
  after every sequence of calls but one, the device list the database builds is right, and
  so are the network ids its statuses are named by.

## 2. The modules

| Module | Models | State and steps |
|---|---|---|
| `StorageEngine` | the engine over a model of the database | `delegates`, `observerMap` as in the code; `storeOf`, `registered`, `table` are the database. `CreateTable` is its critical sections and the two unlocked database calls (`CreateTable`, `GetKvStore`, `Pragma`, `InsertTable`, `SyncNewTable`); every other operation holds the mutex throughout and is one action |
| `ObjectStore` (extends `StorageEngine`) | `DistributedObjectStoreImpl` over `FlatObjectStore` | conjoins each engine action with what the upper layers do around it; `job` is where a thread is between the two tables; `retrievals` counts requests the service has not answered. An object that could not be allocated leaves its table; deleting a session's object may take others with it, whose ids were compared with freed memory |
| `SessionLifecycle` | nothing in the code: the abstract promise | a session is absent, created, held by its object or without one (lost), or deleted; refined by `ObjectStore` through the mapping at its end |
| `Restore` | `TriggerRestore`, `SyncAllData` and the answers, against creating and deleting | `thread` walks the rounds, `dataMutex` is held from `Lock` to `Unlock`, a pull is asked for and marked in two steps; `pulls` tells those of a live object from those of a deleted one |
| `ObjectValues` | getters and setters of `joinSession`, `JSGet`/`JSPut`, `PutNum`/`GetNum`, tags and markers | `Encode` and `Decode` are the layout; a reading is two steps (tag, value), joining and leaving one per property; `RemoteWrite` comes between any two |
| `SaveCache` | cache manager, its callback, the JS save calls | `pc` walks a worker through queue, read, lock, request, wait, finish; `Serve` and `Answer` are the service. A call may report an error for a request the service has: the frame goes (`GiveUp`), the request is a stray, carried out and answered later (`ServeLate`, `AnswerLate`) |
| `BusSession` | `SendData`, `IsSameStartedOnPeer`, the session callbacks | a sender's steps are those where it holds no lock or waits; each bus callback is two, its two halves using different mutexes; `holds` says whether a sender's `ConditionLock` is still the one filed |
| `PipeCommunicator` | communicator, pipe manager, adapter's listeners; the path of a status from the database to a network id | a registration is two steps (handler under its mutex, then the listener); a device event is copy, `UpdateRelationship`, two calls for a LOW listener, each entering and leaving the handler; a message likewise; a report is `ToNodeID`'s list, its look-ups under `networkMutex_`, and the listener |
| `JsSession` | JS objects, recorded callbacks, wrappers' listeners, the notifier's table | everything runs on the JS thread, so each call is one action. The native store is cut down to what it shows these calls, each of which may fail |
| `Delivery` | `NotifierImpl`, `JSWatcher::Emit`, `UvQueue`, the JS loop, the collector | a `producer` walks a list node by node, with or without the notifier's lock; the queue's mutex is held from `TakeWork` to the end of the work; a call that waits for the notifier's lock is a step of `js`. Calls are made from the loop and from inside callbacks; the collector takes wrappers that were left, or were not |
| `ObjectStoreProofs`, `ObjectValuesProofs`, `SaveCacheProofs`, `BusSessionProofs`, `PipeCommunicatorProofs`, `JsSessionProofs`, `RestoreProofs`, `DeliveryProofs` | | theorems about the module each is named after, `ObjectStoreProofs` also about `StorageEngine`, with their inductive invariants (section 4) |
| `MCStorageEngine`, `MCObjectStore`, `MCObjectValues`, `MCJsSession`, `MCPipeCommunicator` | | who works on which session, which id is whose, values, and symmetry, for TLC |

`JsSession` and `Delivery` share the listeners: the first follows objects through
sessions with calls that are atomic to each other, the second one wrapper with
the threads that run meanwhile. `Restore` and `ObjectStore` share the two tables in
the same way.

Data that no property looks into is a model value (items, watchers, snapshots)
or left out (payloads, names, device types, log text). `reply` keeps an engine
operation's result, because callers branch on it and properties speak of it.
Definitions called "Mutant of ..." are plausible mistakes in the code. Nothing
uses them; putting one in the place of the definition it names must break the
property listed with it, which shows that the property depends on the code.

### History variables

The code has error paths and undefined ones, and calls nobody forbids, after which
a promise no longer holds. The models take those steps like any other. A history
variable, which no guard reads, records where one was taken, and the property says
that the promise breaks there and nowhere else.

| Variable | Records | Until |
|---|---|---|
| `mishaps` (`StorageEngine`) | a session two of whose creations overlapped between the look-up and the insertion; one whose `Pragma` failed, leaving its handle open | for ever: the handle is never closed |
| `bereft` (`ObjectStore`) | a session whose object could not be allocated, or went with another session's | it is deleted |
| `outlived`, `staleKeys` | a session deleted with an entry in `observerMap_`; an address freed as a key of `watchers_`. `destroyObjectSync` and the finalizer delete whatever `UnWatch` answered, or without it | for ever: both maps keep the entry |
| `misled`, `disturbed` (`SaveCache`) | a worker with a stray; a worker whose frame was notified by a stray, or whose request may have been undone by one | the stray is answered; the call returns |
| `unsure` (`PipeCommunicator`) | a device whose last change began before an earlier one's thread had ended, or had no udid | it changes with no thread under way |
| `doubtful` | a network id whose changes were entered out of order, that left while `ToNodeID` held it in a list, or that got an empty udid | it leaves in order |
| `stuck` | a handler was taken back without the pipe: the adapter keeps the listener | one is taken back with it |
| `careless` (`Delivery`) | a wrapper collected in its session; one of whose status list a node was taken from under an emission | the session is filed with the notifier again, or leaves it |
| `lost` (`Restore`), `kept` (`JsSession`) | a session whose pull was for an object deleted since; callbacks that `off(type)` left recorded | for ever: a thread restores once; they are put on, or taken off by name |

### Parameters that state what callers do

Each of these is an assumption on the users, or on the surroundings, of a
component. Where a property is said to fail, TLC finds it violated when the
parameter is changed in the run's configuration.

| Parameter | Used as | Without it |
|---|---|---|
| `Serves` | which sessions a thread works on: shared in `engine_shared`, disjoint in `store_own` as in `IK/test` (one session per thread) | the engine's properties hold either way; the object store's two tables are kept in step by nothing once two threads create and delete one session: `TablesAgree` and `KeepsLifecycle` fail (section 6) |
| `WatchThreads` | at most one thread watches | `watchers_` has no lock; more would race on the map |
| `SessionIds` | each id given out once | a failed opening's status stays filed for ever, and the next sender with that id would read it |
| `Inside` | what callbacks do while they run; everything in `delivery` | nothing is assumed. A callback that puts status callbacks on, takes them off, or leaves or joins a session waits for the notifier's mutex with the queue's held, which the emitting thread wants: `NoCircularWait` says that the circle closes in such a call and nowhere else, `Delivered` that it is all that can stop a delivery; without such calls there is no circle (`ChangeCallbacksNeverWait`) |
| `Calm` | FALSE in every passing run; TRUE in `status_dropped` | that run shows that the status is dropped even when changes come one at a time and every look-up succeeds |

## 3. What is checked

Passing runs:

| Run | Instance | Shows |
|---|---|---|
| `engine_shared` | 2 threads, 2 sessions both may use, 3 handles, 2 watchers, every fault, symmetric handles and watchers | `TypeOK`, `HandleOwnership`, `ObserverAlive`, `NoHandleLeak`, `DeletedMeansGone`, `NeverReplaced`: safe even in the interleavings that lose a handle, and those are the two that `mishaps` names |
| `store_own` | a session per thread, 3 object addresses, 3 handles, 2 watchers, 1 unanswered retrieval per session, every fault but `GetKvStore`'s, which ends the process | `StoreTypeOK`, `TablesAgree`, `WatchedMeansObserved`, and the refinement `KeepsLifecycle` |
| `restore` | 1 restoring thread of 3 rounds, 3 sessions created and deleted at any time | `TypeOK`, `PullsMatchStatus`, `SuccessIsFinal`, and with fairness `RestoreEnds` |
| `values` | 2 properties, the number 258 in words of two bytes, booleans, null, undefined, a text and one that begins like a marker; puts and gets may fail | `TypeOK`, `GetIsTrue`, `JoinPublishes`, `KeepsOnLeave` |
| `save` | 2 workers on 1 session, 1 stray request for each | `TypeOK`, `AnswerHasFrame`, `Agreement`, and with fairness `LockIsReleased` |
| `bus` | 2 senders, 2 peers, 2 session ids, failing look-ups | `TypeOK`, `MapMeansSession`, `AnswerIsOwn`, and with fairness `EndsUnlessClosed` |
| `js` | 2 objects, 2 sessions, 2 callbacks of 2 types, every native call able to fail, `off` with and without a callback | `TypeOK`, `CallbacksReached`, `SessionsAreJoined`, `CallbacksFollow` |
| `delivery` | 1 wrapper, 2 callbacks of 2 kinds, a thread that emits changes and one that emits statuses, calls of every kind inside callbacks, 1 entry per kind and 1 work queued when an emission begins | `TypeOK`, `StatusIsSafe`, `LiveMeansAttached`, `NoCircularWait`, and with fairness `Delivered` |
| `pipe` | 1 device of one network id, 2 event threads, a database that starts, stops, registers both handlers and reports statuses; changes that overlap, look-ups that fail | `TypeOK`, `NoCallAfterClear`, `ViewIsRight`, `NamesCurrent`, `RegistersAgain` |

Runs that end in a counterexample, each a disagreement between the code and a
line of the repository (quoted under "findings" in `PROJECT.json`):

| Run | Property | What happens |
|---|---|---|
| `save_destroyed` | `CallHasObject` | `leaveSession` deletes the object whose raw pointer a queued save still has |
| `js_off_all` | `OffIsKept` | after `off(type)` the next join attaches the callbacks again |
| `status_dropped` | `StatusIsNamed` | a device's network id is forgotten before the database is told that it left; the status it then reports has no id, and the listener drops it |

Several properties except what the history variables of section 2 record, each
beside the promise it is an exception to. Two more: `EndsUnlessClosed` excepts a
session that closes between `OpenSession` and `Wait` (the sender then waits on a
`ConditionLock` nobody will notify), and `GetIsTrue` the readings during which a
peer changed the item's tag.

**Bounds.** Constants in a `.cfg` are the only bounds; those that the code does
not have are marked as bounds where they are declared.
- Two actors are enough for every race here: a step of one is overtaken by a
  sequence of steps of the other, and nothing counts threads. A second session
  or peer is there to show that one does not disturb the other.
- Three handles let both threads hold one while a third is open, and let an
  address be given out again; two watchers let an old and a new one be told
  apart; three addresses let one be used again while another object lives.
- One session in `save`: sessions share nothing but `mutex_` and the service, and
  calls for one are the ones that race. One stray for each worker is enough to
  outlive its frame, to meet the worker's next frame, and to be carried out
  after another worker's request.
- Two sessions let an object leave one and join the other; two callbacks let
  one be taken off while the other stays.
- Session ids of `bus` are used up, so at most two sessions open in one
  behaviour. That is enough for two senders to share a session, for a session
  to open at both ends, and for one to follow another to the same peer.
- Three rounds of `restore` stand for 5000: a pull is asked for, fails or is
  overtaken, is asked for again, and is answered in the last round or after it.
  A restoring thread shares nothing with another but `dataMutex_`.
- Words of two bytes in `values` tell the order of bytes, and an item that is
  too short, as words of eight do; 258 is two different bytes.
- One wrapper in `delivery`: queues and lists belong to a wrapper, and the
  notifier's lock is contended by two threads as it is. Two callbacks make a
  walk that goes on; an emission begins to a queue with room and files up to two
  entries, while the other thread's is under way. One thread brings changes, from
  the observers, and one statuses, from the notifier (`Changers`, `Reporters`): two
  that emit statuses wait for each other, and two that emit changes share nothing but
  the queue. The theorems have any threads for either.
- One device of one id in `pipe`: what devices share is the notifier's threads and
  the handler. Two threads let a change of a device overtake another, and either
  stay under way while the device changes again. `status_dropped` has a device of
  two ids; the theorems have any number of both.

**Deadlock** is not checked where the system really may stop: an engine that
was closed, or whose process has crashed, takes no step; a `BusSession` whose ids
are used up may have nothing left to do; and in `delivery` the callbacks make the
calls that close the circle of the notifier's and the queue's mutex, with which
everything stands still. `engine_shared`, `bus` and `delivery` therefore say so;
every other run checks it.

**Fairness.** Safety runs assume none. All of it is fairness of threads the
scheduler runs; none of it says that a session stays open, that a request is
accepted or that a pull is answered.
- `save`: a worker thread that can take its next step does, and the service
  answers the requests it accepted; a stray it need not answer. Taking the mutex is
  not made fair: `LockIsReleased` is about its holder. It is about a process that
  lives on: a callback that writes to a frame that is gone may also end it.
- `bus`: a sender that can go on does, the bus decides on a session it was
  asked for, and runs the callbacks that are due. Closing a session, opening
  one from the peer's side, and new calls are not made fair.
- `restore`: the restoring thread goes on, and gets `dataMutex_` in the end
  (strong: others take it too, each for a moment).
- `delivery`: an emitting thread goes on where it can, and so does the JS
  thread inside a call or a work; it gets the notifier's mutex in the end, and
  callbacks return (strong: between two steps a callback may make calls of its
  own); the loop comes to every work (strong: it is not always idle). Nothing
  need be emitted.

## 4. What is proved

For every set of threads, sessions, handles, objects, callbacks, devices, queues
of any length and every set of failing calls; nothing is bounded but by what a
theorem's hypotheses name. Each module's theorems rest on the `ASSUME` of the
module it is about (the "no such" values are not in their sets; `Serves`,
`Owner` and the like are functions; bounds are naturals), which TLC evaluates in
every run.

| Module | Theorem | States | Hypothesis |
|---|---|---|---|
| `ObjectStoreProofs`: the engine | `TypeCorrect`, `HandlesAreOwned`, `ObserversAreAlive` | `Spec => []TypeOK`, `[]HandleOwnership`, `[]ObserverAlive` | |
| | `NoHandleIsLost`, `DeletedIsGone`, `CreatedOnce` | `Spec => []NoHandleLeak`, `[]DeletedMeansGone`, `NeverReplaced` | |
| `ObjectStoreProofs`: the store | `StoreImplementsEngine` | `StoreSpec => Spec`: the store is an engine and what is done around it | |
| | `StoreIsSafe` | `StoreSpec => []HandleOwnership`, `[]ObserverAlive` | |
| | `StoreLosesNothing` | the engine's `NoHandleLeak`, `DeletedMeansGone`, `NeverReplaced`, of the store | |
| | `StoreTypeCorrect`, `TablesDoAgree` | `StoreSpec => []StoreTypeOK`, `[]TablesAgree` | `OwnSessions` |
| | `WatchedIsObserved` | `StoreSpec => []WatchedMeansObserved` | `OwnSessions` |
| | `StoreKeepsLifecycle` | `StoreSpec => KeepsLifecycle`: the store implements `SessionLifecycle` | `OwnSessions` |
| `ObjectValuesProofs` | `HeldRoundTrips` | every value a property can have is decoded from its item as itself | |
| | `ValuesTypeCorrect`, `ReadingsAreTrue`, `JoinDoesPublish`, `LeaveKeeps` | `Spec => []TypeOK`, `[]GetIsTrue`, `[]JoinPublishes`, `KeepsOnLeave` | |
| `SaveCacheProofs` | `TypeCorrect`, `CallbackHasFrame`, `CallersAndServiceAgree` | `Spec => []TypeOK`, `[]AnswerHasFrame`, `[]Agreement` | |
| | `HolderIsNotForgotten` | `Spec => []HolderGoesOn` | |
| `BusSessionProofs` | `TypeCorrect`, `MapIsTrue`, `WaitersAreToldTheTruth` | `Spec => []TypeOK`, `[]MapMeansSession`, `AnswerIsOwn` | |
| | `NoWakeUpIsLost` | `Spec => []SomebodyNotifies` | |
| `PipeCommunicatorProofs` | `TypeCorrect`, `ClearedIsNotCalled` | `Spec => []TypeOK`, `[]NoCallAfterClear` | |
| | `RegisteredAgain` | `Spec => RegistersAgain` | |
| | `ToldTheTruth` | `Spec => []ViewIsRight` | |
| | `NamesAreCurrent` | `Spec => []NamesCurrent` | |
| `JsSessionProofs` | `TypeCorrect`, `CallbacksDoFollow`, `CallbacksAreReached`, `SessionsStayJoined` | `Spec => []TypeOK`, `[]CallbacksFollow`, `[]CallbacksReached`, `[]SessionsAreJoined` | |
| | `NamedOffIsKept` | `Spec => []OffIsKept`, which `js_off_all` refutes | `~OffWithout` |
| `RestoreProofs` | `TypeCorrect`, `PullsDoMatch`, `RestoredStays` | `Spec => []TypeOK`, `[]PullsMatchStatus`, `SuccessIsFinal` | |
| `DeliveryProofs` | `TypeCorrect`, `OnlyAttachedAreCalled` | `Spec => []TypeOK`, `[]LiveMeansAttached` | |
| | `NothingIsStranded` | `Spec => []NothingStranded` | |
| | `StatusListIsSafe` | `Spec => []StatusIsSafe` | |
| | `NobodyWaitsInACircle` | `Spec => []NoCircularWait` | |
| | `ChangeCallbacksNeverWait` | `Spec => []~Circle` | `Inside \subseteq {"change"}` |

`OwnSessions` is: no two threads serve one session. Every hypothesis is about one
of the parameters of section 2 (`OffWithout` of `JsSession` is whether callers use
`off` without a callback); the table there says what goes wrong without it.

*The engine.* `HandleOwnership` alone is not inductive: to insert a handle
one must know that the thread at `insert` really holds one (`CallShape`), and to
unregister a watcher, that it was on no other handle (`SingleRegistration`).
`EngineInv` is their conjunction with `TypeOK` and `ObserverAlive`. The crucial
step is `GetKvStore`: the address it returns was closed, so by
`HandleOwnership` nobody files or holds it and by `ObserverAlive` nothing is
registered on it. Steps that touch no handle are covered by one lemma
(`QuietKeepsShape`); the others have one lemma each. `LossInv` adds that a thread
creating a session finds no entry and is alone with it, unless creations of it have
overlapped (`CreatorAlone`), that open handles are filed or held, but for a mishap,
and that a session without an open handle is empty. The delicate step is
`InsertTable`: either `CreatorAlone` says that there is no entry to lose, or the
session has its mishap by now, whichever of the two threads inserts first.
`NeverReplaced` follows since only `InsertTable` could replace an entry.

*The object store.* Each of its steps is a step of the engine or none, so it
inherits every theorem of the engine. `TablesAgree` excepts a session with a job
under way; that it holds again when the job ends needs `JobPhase`: which of the
two tables has the session at each step of the job. `JobShape` ties the job to
the engine's own call. A deletion that takes other sessions' objects with it may
take that of a session another thread works on; `Taken` says what is left of each.
`WatchInv` says that a filed watcher is registered on its session's handle
(`Filed`), that a free address is no key of `watchers_` and a session without an
object has no entry in `observerMap_`, but for what a deletion left
(`FreeUnwatched`, `Unobserved`). For `KeepsLifecycle` a session's phase is a function
of its handle, of its objects and of `bereft` (`PhaseCases`); each action moves the
phase of the session it works on as `SessionLifecycle` allows, and leaves the others'
as they are, but for `RemoveCacheObject`, which may move several (one `...Refines`
lemma per action, over `LifecycleMoves`, `LifecycleTakesBack` and
`LifecycleStutters`).

*Values.* Numbers are words of any length and the texts any strings of bytes and
markers; no number is bounded but by its word (`Fits`). `GetNum` and the shifts of
`PutNum` are recursive functions. That such a function has the values its
recursion says (`Recursion`), and induction over the bytes of a word (`UpTo`),
are proved from the well-foundedness of `<` on the naturals: its theorem
says that a set of naturals has a least member, which needs no operator for a
parameter. `WordIsRead` is the induction: the bytes read so far are what is left
of the number when the others are shifted out. `HeldRoundTrips` goes over the
kinds of value with it. The values in play are more than those that are put: an item
read by another value's tag gives something else, which leaving makes local and
joining puts. `Held` is closed under this (`DecodeHolds`), and everything in it
fits its word and comes back. `ValuesInv` says that the table is the encoding of
`field` (`Encoded`); that while no other tag came between, the values of `during`
have one tag, the one that was read (`Reading`), so that the value is decoded by
its own; and how far joining and leaving have come (`Carried`). A property that
was kept is never read again, which is why a peer's put is all that can part the
two copies.

*The cache manager.* The frame exists while `mutex_` is held by its owner
(`HolderHasFrame`: mutual exclusion, with who is where), and the service knows
only callers that wait for it, but for strays, each of which has its cause
(`ServiceKnowsCaller`, `StrayHasCause`). `Agreement` speaks of the last success;
before it is told, it is true of what the service has just stored
(`SuccessIsStored`), which no other caller can change, since the lock is held, and
no stray unseen.

*SoftBus sessions.* `InOrder` is the order in which the bus calls a session back,
`TellsTheBus` says that a filed status is what the bus decided, `HasItsSession`
that a sender's session goes to the sender's target.

*The communicator.* `NoCallAfterClear` is nearly inductive; that a handler and its
listener agree outside a registration (`DeviceRegistered`) is
what the other results start from. `RegistersAgain` needs that a listener nobody
registered is one that is stuck (`DataRegistered`). `ViewIsRight` needs that an
event under way tells the present state of its device and is alone with it, unless
the device is unsure (`EventsAreTrue`), and says which devices the database was not
told of yet (`ViewInv`). `NamesInv` says of `networkId2Udid_` which entries a thread
has still to make or to take out, and that what `ToNodeID` holds in its list is on
line or in doubt.

*JS objects.* The recorded callbacks are those wanted, and beyond them only what
an `off` without a callback has kept (`RecordFollows`); attached is what is
recorded. `ObserversReport` says that an observer which reports nothing is one
a failed call has left.

*Restoring.* A pull is asked for before its status is set. `Matches` therefore
counts the pull that is being asked for; `TodoIsWanted` says that what a round
still has before it is neither restored nor being pulled, since answers wait for
`dataMutex_`, which the round holds (`KeepsTime`).

*Delivery.* `LiveMeansAttached` speaks of entries in queues; a walking thread
carries the reference it has read to a queue, so `WalkFits` says the same of the
walks, and `Once` that a callback has one node, or the second would outlive
the first's removal. `SafeInv` says that who walks a status list holds the
notifier's lock, and that filed wrappers exist and their walks stand on nodes of
the list, unless the wrapper is careless; the walk of a careless one ends before
the notifier's lock is free for `AddWatcher` to pardon it. `WorkIsInside` says where
the JS thread is inside a work; where callbacks make no call that needs the
notifier's lock, it never waits for it there, and nobody waits in a circle. The
lemmas `AddFirst` and `Unlinked` are the facts on lists all of them need.

**Only model-checked.**
- Liveness (`LockIsReleased`, `EndsUnlessClosed`, `RestoreEnds`, `Delivered`): beyond
  the prover, like `ENABLED`. What can be proved is that nothing is ever waited
  for in vain, which leaves fairness and a bound to the runs: `HolderGoesOn`,
  `SomebodyNotifies` and `NothingStranded` are stated next to their proofs.
- The counterexamples of `save_destroyed`, `js_off_all` and `status_dropped`, which
  are runs.

## 5. What is not modelled, and why

- *Undefined behaviour whose outcomes the code does not bound.* It may also end the
  process, which is a behaviour without a further step and is not mentioned
  again. `RemoveCacheObject` compares ids with freed memory: any other object may
  go; what JS does with its pointer to one that went is not followed. A callback
  into a frame that is gone notifies the worker's next frame or hits nothing that
  is modelled. `Get` and `TriggerRestore`'s first look walk `objects_` with no
  lock: `Restore` lets the second see or miss what is being changed, and `Get` changes nothing.
  `statusWatcher_` is read by completion callbacks while `SetStatusNotifier` writes
  it, once. What a call on a deleted object does (`SaveCache` lets it go on as if
  the object still knew its session, and says when it happens), a walk from a
  freed node (`Delivery` ends it), a work of a collected queue (`Delivery` does
  nothing), an answer to a restoring thread that has ended (`Restore` does
  nothing).
- *`SetStatusNotifier`* installs the database's callback before it sets
  `statusWatcher_`; what is reported in between is lost. The repository does not
  say which reports a listener gets; `PipeCommunicator` has the path from the
  moment it is set.
- *A message handler that sends* while a registration waits for
  `dataChangeMutex_` would deadlock on the locks; whether the database sends from
  inside its handler is not in the repository.
- *`SoftBusAdapter::Init`'s* registration of the node callback, retried 300 times
  while the process starts, and `localInfo_`, which is filled once: nothing else
  runs then.
- *Text*: exceptions of `JSON.parse` in a getter, which stop `leaveSession`,
  strings with a NUL and keys of 64 characters or more, which `js_util.cpp` cuts.
  Such a string need not come from the application: a boolean or a number that is
  read by the tag of a string, after a failed `GetType` or a torn reading, holds
  zero bytes. `ObjectValues` puts it again whole, where the code would put the part
  before the first (`js_util.cpp:69`), so `JoinPublishes` and `KeepsOnLeave` do not
  speak of it.
- *The collector* runs from the JS loop in `Delivery`, never inside a callback.
- `GetTable`, which nobody calls; the communication provider and the device
  handler, which forward calls and have no state; module registration, logging
  and the bytes helpers, which have none either.

## 6. Plan

Every component that keeps state has its module, and every safety property that
a passing run checks is a theorem. Nothing of the plan is left. Without
`OwnSessions` the object store has no more to promise than `StoreIsSafe` and
`StoreLosesNothing`, since each part of `TablesAgree` fails once two threads serve
one session:

- an object without a table: two threads create the session at once, and the object
  of the first is deleted, with the table, after the second's `CreateTable` and before
  the second caches its own;
- two objects of one session: two creations at once, each of which caches its own;
- an object beside a lost one: two creations at once, of which one finds no memory.
