# A TLA+ model of DeviceAccess-OpcUaBackend

This directory models the concurrent core of the ChimeraTK OPC UA backend: the
subscription manager with its monitored items, the backend's lifecycle around it,
the thread that runs the open62541 client, the register accessors that come and
go, the memory of the values they pass on, their reads and writes, the mapping of
time stamps to version numbers, and the making of the catalogue. TLC checks small
instances; TLAPS proves what matters about data, memory, locks, threads, transfers,
versions and the catalogue for every value of the constants.

Line numbers refer to `src/src/SubscriptionManager.cc` (SM),
`src/src/OPC-UA-Backend.cc` (BE), `src/include/OPC-UA-BackendRegisterAccessor.h`
(AC), `src/include/OPC-UA-Connection.h` (CO), `src/src/VersionMapper.cc` (VM) and
`src/src/ManagedTypes.cc` (MT).

## 1. The system

| component | state | operations | used by |
|---|---|---|---|
| `OPCUASubscriptionManager` | `_items` (a deque of `MonitorItem`), `subscriptionMap`, `_run`, `_subscriptionActive`, `_subscriptionNeedsToBeRemoved`, `_asyncReadActive`, `_subscriptionID`, `opcuaThread`, `mutex` | `subscribe`, `unsubscribe`, `activate`, `deactivate`, `start`, `runClient`, `prepare`, `handleException`, `setExternalError`, `responseHandler`, `deleteSubscriptionCallback` | backend, accessors, open62541 |
| `OpcUABackend` | `_opened`, the active exception, `_subscriptionManager`, the catalogue, the static `backendClients` | `open`, `close`, `activateAsyncRead`, `setExceptionImpl`, `stateCallback`, `inactivityCallback`, construction | DeviceAccess, open62541 |
| `OPCUAConnection` | the client, `client_lock`, channel and session state | `close`, `isConnected` | all of the above |
| `OpcUABackendRegisterAccessor` | `notifications` (3 elements), `data`, `currentVersion`, `subscribed` | constructor, destructor, `doReadTransferSynchronously`, `doPostRead`, `doWriteTransfer` | the application |
| `VersionMapper` | `_versionMap` (2000 entries) under `_mapMutex` | `getVersion` | `doPostRead` of all accessors |
| `ManagedVariant`, `ManagedDataValue` | ownership of open62541 values | copy, move, `copyVariant` | queues and accessors |
| converters in AC | none | `convert` | accessors |
| catalogue, `OpcUABackendRegisterInfo` | the registers | `fillCatalogue`, `addCatalogueEntry`, `browseRecursive`, `addProperty` | constructor |
| `OPCUAMapFileReader` | the nodes of the map file | constructor | constructor |
| `CatalogueCache` | the cache file | `readCatalogue`, `saveCatalogue` | constructor |
| `XmlTools`, `createInstance` | none | parsing | constructor |

How they interact. The application calls the backend and constructs and destroys
accessors; both call the manager. The manager calls the open62541 client, always
(with the exception of SM 197-199) while it holds `client_lock`. The client calls
back *from inside those calls*: `stateCallback` and `inactivityCallback` of the
backend, `responseHandler` and `deleteSubscriptionCallback` of the manager. The
callbacks run in whichever thread made the call, with `client_lock` held, and
change the manager. Accessors get values and exceptions through queues and read
them without any lock of the manager.

What is hard, in order of importance:

* *Interleaving.* Application threads, the client thread and the callbacks inside
  client calls share flags (atomics and plain members) and items (under `mutex`,
  with unlocked reads in `responseHandler` and `setExternalError`).
* *Locks.* `client_lock` is not recursive, is held when callbacks run, and
  `deactivate` takes it in one branch. `mutex` is given up in the loop of
  `addMonitoredItems` because of the callbacks.
* *Life of the client thread.* It ends by itself; its handle stays until someone
  joins it; whether `activateAsyncRead` starts a thread, `deactivate` removes the
  subscription and `open` joins is decided by that handle.
* *Failure.* The server may be lost in every call, refuse items or subscriptions, answer
  in part, and constructors may throw half way, one of them with `mutex` locked by hand.
* *Pointers.* `subscriptionMap` points into a deque that is erased from.
* *Ownership.* A notification's memory goes from `responseHandler` through a queue to a
  member of the accessor, by moves whose source keeps the pointer and by flags.
* *Whole arrays.* A server writes whole arrays only, so a write of a part reads first and
  has no lock between the read and the write.
* *Bounds.* The queues hold 3 elements, the version map 2000.

What makes each part correct:

* manager: one item per node in use; every accessor listed exactly once; an item
  monitored at most once; ids that lead to their own item; each loss announced once
  and the newest value never hidden; locks released; thread started and joined
  properly; every operation returns.
* backend: a device that is closed or in the exception state reads nothing and,
  when closed, has no thread; a functional one with asynchronous reading has a thread.
* version mapper: equal stamps give equal versions within the limit, different
  stamps never do.
* catalogue cache: a crash leaves the old or the new file; what is read is what was saved.
* managed values: memory is freed once, not used afterwards, and not lost; what a reader
  gets has memory.
* transfers: no index outside the array; a write changes nothing but the accessor's words.
* catalogue: every register the server and the map file offer, as they say it.

`PROJECT.json` lists every component with its status and, under `hazards`, what is
hard to test at its line.

## 2. The modules

| module | what it is |
|---|---|
| `MonitoredItems` | the data of the manager: items, map, queues, accessors' lifetimes. One action per critical section of `mutex`. The control flow is built from these actions. |
| `SubscriptionManager` | EXTENDS `MonitoredItems`: threads as program counters, `client_lock`, flags, client calls and their callbacks, the server. |
| `ThreadHandle` | the contract of `std::thread`: start, return, join, in this order. |
| `ManagedValues` | EXTENDS `MonitoredItems`: the blocks of memory the values in queues and members own. |
| `VersionMapper` | `getVersion` and the readers that call it. |
| `Transfers` | EXTENDS `VersionMapper`: reads, partial writes and notifications of one array. |
| `CatalogueStart` | the constructor's way to a register catalogue: cache file, browsing, map file, and the cache's save. |
| `MCManagedValues`, `MCSubscriptionManager`, `MCTransfers`, `MCCatalogueStart` | the small instances. |
| `MonitoredItemsProofs`, `ManagedValuesProofs`, `VersionMapperProofs`, `TransfersProofs`, `CatalogueStartProofs` | theorems and proofs. |
| `SubscriptionManagerProofs`, `OneApplicationProofs`, `ServingProofs` | theorems about `SubscriptionManager`: for any number of application threads; for one; for one, about the map while the client thread serves. |

### MonitoredItems

`items` is the order of `_items` (a sequence of nodes), `item[n]` the
`MonitorItem` of node n, `subscriptionMap` maps an id to the *slot* its pointer
refers to. `SlotAfterErase` is what libstdc++'s `deque::erase` does to the
neighbours: the shorter part moves over the gap, so a pointer keeps its slot and the
slot its new content. A slot outside the deque holds a destroyed item whose vector
of accessors has been moved away; nothing is delivered through it. `obj` is the life
of each accessor: `dangling` for one whose constructor threw after it was listed.

`mutex` is a leaf lock: no section calls the client or takes a lock whose holder waits
for `mutex`. Hence a section is one step. Only `addMonitoredItems` keeps it from one
server call to the next; `MutexFree` in `SubscriptionManager` excludes other sections then.
One section never ends: `subscribe` locks `mutex` by hand (SM 289), and if the oldest
element in the queue of the accessor before is an exception (`InitialException`),
`front()` throws it at SM 332. The new accessor is listed by then, its constructor fails, and
`mutex` stays locked (`SubscribeThrow`).

`handling` is the unlocked part of `responseHandler`: `CheckActive` reads the map and
`active` (SM 175), `PushValue` or `NullItem` runs under the lock (SM 177-185).
`latest` and `excRun` are history variables.

| action | code |
|---|---|
| `SubscribeNew`, `SubscribeShared`, `SubscribeThrow` | `subscribe`, SM 285-340 |
| `UnsubscribeShared`, `UnsubscribeLast` | `unsubscribe`, SM 363-381, in the destructor AC 393-398 |
| `Abandon` | a constructor that throws, AC 297-306 |
| `MonitorItem` | the answer in `addMonitoredItems`, SM 255-268 |
| `ActivateItems`, `DeactivateItems`, `ResetMonitoredItems` | SM 114-117, 124-129, 345-351 |
| `HandleException`, `SetExternalError` | SM 411-437 |
| `CheckActive`, `PushValue`, `NullItem` | `responseHandler`, SM 165-193 |
| `Pop` | the continuation of the queue, AC 284-293 |
| `Terminate` | an exception that leaves a `noexcept` function, BE 562-570 |

### ManagedValues

A `ManagedDataValue` (MT) is a pointer `block` and the flags `hasValue` and `clear`;
`element[a]` has those in the queue of accessor a, `member[a]` its `data`. `memory[a]` is
the set of blocks allocated for a and whether one was freed twice or used after it was
freed. The actions are those of `MonitoredItems`, each with the constructors, assignments
and destructors it runs; the operators have the names of what they stand for.

| operator | code |
|---|---|
| `CopiedTo`, `MoveConstructed`, `Assigned` with `MovedFrom` and `Prepared`, `Destroyed` | constructors, `operator=`, `prepare`, destructor, MT 60-124 |
| `PushedElement`, `PushedMemory`, `PushValues` | `responseHandler`, SM 175-186 |
| `SubscribeAndCopy` | the initial value of a new accessor, SM 310-333 |
| `PushExceptions` | `handleException`, SM 411-428 |
| `PopAndMove`, `PopMemory` | the continuation, AC 284-293 |
| `EndValues` | the end of an accessor |

Of `cppext::future_queue`, which is not in this repository, three things are used: an
element is constructed from the rvalue that is pushed; it is destroyed when it has been
popped or overwritten, or with the queue; the continuation gets a reference to it. Left
out: notifications without a value, and reads of the application into the member of an
accessor that is also subscribed. `MemorySafe` does not speak of a run in which a
constructor threw after `subscribe` had listed its accessor (AC 297-306): the list keeps a
pointer to freed memory then, see the hazard at SM 305.

### SubscriptionManager

The items are changed by the actions of `MonitoredItems`, which the steps here use. That such a
run is one of `MonitoredItems` therefore holds by construction and is no property of the code; the
proofs use it to carry theorems over.

A thread has a program counter `pc`; a step is the code between two points where
another thread can matter. Labels that end in `Lock` wait for `client_lock`; `Section`
names the section behind each. While a callback walks through
`deactivateAllAndPushException`, `deact` is its place and `pc` stays at the client call.
`deactivate` is cut at each flag it reads or writes, because a thread that is not in
a callback may run it at the same time.

A client call (`InCall`) may run `StateCallback`, `InactivityCallback` or
`DataCallback` any number of times before it returns. The server has a reachable
link, one subscription, its items and the items with a notification under way. Assumptions
about the client and the server, which are not in this repository:

* a call returns good only over a connected session and a reachable server, and may
  fail at any time otherwise, or because the server refuses; a deletion of a
  subscription fails only without a session;
* a disconnected client notices in a client call (`StateCallback`), or finds
  no publish responses (`InactivityCallback`), only while the link is down;
* a client that lost its session may take it up again by itself inside a call (`SessionReused`, the
  case the comment at BE 476-479 reports of the tests) if `Reconnects`; see below;
* a new monitored item has a first notification;
* ids are unique within a subscription; a new subscription may use them again;
* `UA_Client_disconnect` deletes the subscription with its callback and reports the closed session.

`setExceptionImpl` runs in the caller of the first `setException`; a read that
finds an exception in its queue or a synchronous transfer that fails gets there.
`crashed` is absorbing: a process that is dead takes no step. One way there is a second client
thread: `start` does not ask for one that runs, and assigns its new thread over a handle that may
be joinable (SM 55), so `Spawn` and `Assign` end the process then. With one application thread
they never do, which is what `HandleContract` says. `sm.stuck` is a `mutex` that a throwing
`subscribe` left locked: no section of it is entered any more, by anybody. A constructor of the
backend that connected is the initial state; the manager does not exist before the first use.

`Reconnects` is a constant because the code does not settle it: whether and when open62541 takes a
session up again is the library's affair, and `resetClient` closes the session so that it is not
(BE 473-485). With it TLC finds, in the instance of `manager`, that `LockHeldInSection`,
`ReadingNeedsFunctional`, `CloseStopsThread`, `OnlyClientRelocks` and `HandleContract` hold as
before, and in the instance of `nodes`, which has it switched on, the properties of `nodes` do.
`JoinHasReason` fails: `open` joins because the session is gone, the client takes it up
again, and `open` waits for a loop that goes on. `EntriesServed` fails: a failed transfer has closed
the session and with it the subscription, and before the client thread ends its next call has a
session again, with the old map. `LastAccessorCleans` fails: the removal of the subscription finds no
session, which comes back later with the subscription. The runs of these three are for a client that
does not reconnect by itself, and so are the theorem about `JoinHasReason` and those of `ServingProofs`; so is
`live`, whose `LossEndsThread` speaks of a loss that lasts until the next `open`.

| operation | code | labels |
|---|---|---|
| `Open`, `Connect`, `FinishOpen` | BE 487-560 | joinOpen, reset, connect, createSub, addNext, opened |
| `Close`, `ResetClient`, `Disconnect` | BE 467-485, 519-527 | reset, resetItems, joinReset, disconnect |
| `Activate`, `ActivateAsync`, `ActivateAll` | BE 562-579, SM 105-119 | createSub, async, activateItems, start |
| `Create...` | SM 195-226 | createSub, createRemove, create, created, createFailed |
| `AddNext`, `AddItem`, `Added`, `AddFailed` | SM 228-278 | addNext, addItem, added, addFailed |
| `Construct`, `Subscribed` | AC 267-312, SM 297-309 | subscribed |
| `Destruct`, `Unsubscribed`, `DeleteItem`, `RemoveLast`, `StopLast` | SM 359-409 | unsubscribed, unsub, last, lastRun, joinLast |
| `Transfer`, `TransferDone`, `HandleError` | AC 314-391 | read, readError, disconnect |
| `Start`, `Spawn`, `Assign`, `Join` | SM 48-62, 353-358 | start, spawn, assign, join... |
| `RunLoop`, `RunIterate`, `RunExit`, `RunEnd` | SM 64-103 | loop, iterate, exit, exitRun |
| `Deactivate...` | SM 121-149, 160-163 | `deact` |

### VersionMapper

Stamps are naturals in the order the server sends them; every reader sees them in
that order and may skip. `Kept` is the map after the erase of its first entry (VM
25), which is the oldest stamp whatever the new one is. `given` is history.

### Transfers

The accessors of one array of the server, each used by its own thread. `part` is any pair
of offset and words `getRegisterAccessor_impl` accepts. Its check adds two `size_t`
(BE 614), so the sum is taken modulo `SizeLimit`: a huge offset with a few words is accepted. The
loops of `doPostRead` and `doWriteTransfer` (AC 338, 358) use `data` without a check of their own;
an accessor with elements that are not in it is undefined behaviour (`LeaveArray`), after
which the model says no more. `MaxWords` is the largest buffer the constructor can
make; more words end in an exception there. Data that were read are stamped with
the client's clock, data of notifications with the server's; `VersionMapper` puts both on
one time line, so one clock stands for both and `Send` is its tick. Two reads of one
accessor have different stamps (`stamp < sent` in `Read`). The array of a notification is
arbitrary, since it may be old. `client_lock` is held in each step and free between them:
`BeginWrite` is the read in `doWriteTransfer`, `Write` or `WriteFails` what follows after
the lock was taken again. `untouched` is history: nobody has changed the array since the
write began. The server's array has the length of the catalogue.

| action | code |
|---|---|
| `Accepted`, `Parts` | `getRegisterAccessor_impl`, BE 614-622 |
| `ElementsOf`, `LeaveArray` | the index `offsetWords + i`, AC 338-361 |
| `Read`, `ReadDone`, `ReadFails` | `doReadTransferSynchronously`, `doPostRead`, `handleError`, AC |
| `Notified` | the continuation and `doPostRead` |
| `BeginWrite`, `Modify`, `Write`, `WriteFails` | `doWriteTransfer`, AC 341-391 |
| `Reopen` | `open` after an error |
| `OtherClient` | the server's other clients (external) |

A failed transfer closes the connection; `setException`, which the framework calls, is
part of that step, and its effect on the manager is the subject of `SubscriptionManager`.

### CatalogueStart

Several processes (a server and an operator's tool, say) create a backend for one device
and share its cache file. `pc` is a process's place in the constructor. `todo` holds the
requests still to be answered, each a node with what the map file says of it: browsing
replaces an object by its references, which are read before the nodes after it, as the
recursion does, and passes over variables whose identifier is no string; a map file gives
its readable lines at once. A line may name any node, an object too (`readDataType` fails on
one, so it is left out), and may be there twice. A map file that is missing or that no reader understands has no lines and fails
the same way; one with a `<pv>` that has no text ends the process, because the XML reader
dereferences the text (MapFile.cc:40, `blank`).

Every request may fail for itself, with the connection up or without: `browseRecursive` looks
neither at the status of its result nor at the continuation point (BE 210), so `Browse` goes
on with the first k references for any k; three of the four reads of `addCatalogueEntry` leave the
variable out on any bad status (`LeaveOut`), the fourth only its description. That covers refusals,
limits of the server, lost connections and clients that reconnect in a call alike. A process may end
at any place (`Leave`) and start again.

| action | code |
|---|---|
| `Start`, `Connect` | constructor, BE 143-178; `connect`, BE 529-555 |
| `ReadCatalogue`, `ParseRegister` | `readCatalogue` and `parseRegister`, CatalogueCache.cc 27-62, 125-185 |
| `FillCatalogue`, `Filled`, `Throw` | `fillCatalogue` and `getNodesFromMapfile`, BE 228-349 |
| `Browse`, `PassOver` | `browseRecursive`, BE 196-226 |
| `ReadDataType`, `ReadDescription`, `ReadValue`, `ReadAccessLevel` | `addCatalogueEntry`, BE 385-465 |
| `AddProperty` | RegisterInfo.cc 15-76 |
| `SaveOpen`, `SaveWrite`, `SaveRename`, `AddRegInfoXmlNode` | `saveCatalogue`, CatalogueCache.cc 74-121, 189-228 |

A file is absent, empty, cut off or whole. The XML elements of a whole file carry the
node's parts, from which `ParseRegister` makes the node again. `refused` and `faulty` remember
that a request was not answered, or not in full, and that a write or rename failed. External:
`addRegister` of the framework, of which only the call is here, throws or skips when the name is
taken (RegisterInfo.h:18 says "skipped"), so both are possible; the server keeps its
variables; its objects have no cycle of references (with one `browseRecursive` would not
return).

## 3. Runs

All configurations but `Start.cfg` say `CHECK_DEADLOCK FALSE`: the process may die, a callback may wait
for its own lock, and a reader may have read all there is.

| run | instance | shows |
|---|---|---|
| `items` | 1 node, 2 accessors, 1 id, 2 values, queue of 2, 4 blocks | `ItemsTypeOK`, `ItemsInUse`, `NoRepeatedException`, `NewestKept`, `MemorySafe`, `NothingLeaked`, `ValuesBacked` |
| `manager` | 1 node, 2 accessors, 1 loss, all operations | `LockHeldInSection`, `ReadingNeedsFunctional`, `CloseStopsThread`, `JoinHasReason`, `OnlyClientRelocks`, `EntriesServed`, `LastAccessorCleans`, and refinement of `ThreadHandle` (`HandleContract`) |
| `nodes` | 2 nodes, an accessor each that is never destroyed, 2 ids, 1 loss, `Reconnects` | `NoItemMonitoredTwice`, `MarksServed`, `HandledItemStays` |
| `live` | 1 node, 2 accessors, 1 loss, fairness, no `close` | `OperationReturns`, `LossEndsThread` |
| `versions` | 1 polled and 1 subscribed reader, 3 stamps, map of 2, array of 2, sizes below 6 | `VersionsTypeOK`, `VersionsDistinct`, `NewestAgreed`, `AgreedBelowLimit`, `TransfersTypeOK`, `OthersKept` |
| `start` | 2 processes, 5 variables in 2 objects, 5 map files or none, cache or none | `StartTypeOK`, `CacheWhole`, `CatalogueFaithful`, `CompleteIfAnswered`, `DeathNeedsRefusal`, `StartEnds` |
| `map_links`, `reopen`, `lost_exception`, `relock`, `null_item`, `partial_add` | 1 to 3 accessors | a comment of the code that the code does not keep (section 4) |

Why the bounds are enough. In `items` two accessors are the least with a shared item,
a successor that copies from its predecessor and a list from which one is removed;
one id is given again after a reset; a queue of 2 overflows with values and exceptions
in both orders; an accessor needs 3 blocks at most (2 elements and the member) and a fourth
for the one to be pushed. In `manager` one node with two accessors covers both branches of
`subscribe` and `unsubscribe`; one loss can hit any call and can be repaired; the
queue has length 1 there, as its overflow is the subject of `items`. `nodes` has two
nodes for the loop of `addMonitoredItems`; the resets that race with it come from the loss:
`deactivate`, the ending thread and the next `open`. Its accessors are never destroyed because
its properties need that. With three nodes and destructors TLC finds `NoItemMonitoredTwice`
violated, see `map_links` in section 4. With two it finds `MarksServed` violated by the ids that
survive a reset (hazard at SM 378): an item that was monitored as 1 is refused after a reopen,
the next one gets 1 from the new subscription, and the end of the first one's accessor takes
the entry of the second one away. `nodes` compares states by `NoHistory`, which leaves out
`latest`, `excRun` and `data`: the first two are history, and `data` is only copied from
one accessor of a node to another, which no node has here. `live` has two accessors of one node, so that
subscriptions are shared and one can throw; the application there neither closes the device nor
takes from the queues, which keeps the liveness graph small: `close` returns by the same
joins as `open`, a device in the exception state comes from failed transfers, and queues
matter to nobody who waits, except for the exception that makes `subscribe` throw, which
then stays where it is. One application thread is
used: the backend documents none of its operations for concurrent callers
(`activateAsyncRead`, which locks for itself, has a guard for that). In `versions` the
third stamp evicts an entry of a map of two while a reader lags behind; an array of two has
accessors of the whole, of each half, and of overlapping and disjoint parts; with sizes
below 6 the offsets 4 and 5 wrap with two words and with one or two.
In `start` two processes are enough
to save at the same time and to read what the other has saved; the variables are one
of each kind: writable, of the same identifier in another namespace, numeric array,
empty array, of an unknown type; one map file repeats a line, one names an object, one has an
empty `<pv>`. Restarts and failed requests are not bounded there.
`MaxLoss` and `MaxStamp` are the only bounds on behaviours; `Ops` selects the
operations an application uses. Symmetry (exchange of accessors, with their nodes, of values and of elements) is used in runs without liveness.

Fairness (`live`). `SF(Proceed(t))`: a thread that has begun an operation, or is in
the client loop, goes on. Strong, because its next step can be disabled now and then by
`client_lock`; a holder of that lock always leaves it, and `runClient` sleeps half a
publishing interval without it. `SF(StateCallback(t))`: a client that makes calls
notices a lost connection sooner or later (the time-outs of open62541).
`WF(DataPush(t))`: a callback that has begun goes on. Nothing is assumed of the
application (it need not begin or read anything) or of the server. `OperationReturns`
and `LossEndsThread` except a dead process, a callback that waits for its own lock and a
`mutex` that a throwing `subscribe` left locked (`Hopeless`); all three are real, the first two are
shown by `null_item` and `relock`, the third is a hazard (SM 332) without a comment it contradicts.

Fairness (`start`). `WF(Step(p))`: a constructor that has begun goes on; every call it makes
returns, good or bad. `StartEnds` holds whatever is refused.

## 4. What the code does not keep

Six comments in the code are contradicted by a run; `PROJECT.json` quotes each.

* `map_links`: erasing an item shifts its neighbours, and `subscriptionMap` is not
  updated: ids lead to other items. The slot of an entry left behind is taken by the next new
  item, which is then fed by two ids.
* `reopen`: a client thread that has ended keeps its handle; with the connection still
  up, `open` does not join it and `activateAsyncRead` does not start a new one.
* `lost_exception`: `hasException` survives a reopen, so a second loss before the first
  value is not announced.
* `relock`: the thread runs before its handle is assigned, and its state callback locks
  the lock it holds. Only the client thread can: `OnlyClientRelocks`.
* `null_item`: check and use of a map entry in `responseHandler` are not one section.
* `partial_add`: an accessor created between `open` and `activateAsyncRead` beside
  others is marked active and never monitored.

`CatalogueStart` shows the limits of the cache without a contradicted comment: a
catalogue that a refused read or a partial answer left incomplete is cached and used from then on
(`CompleteIfAnswered` needs `~refused`); an empty one makes the next start dereference
a text node that does not exist (`DeathNeedsRefusal` says when that can be); a write cut
off by a full disk replaces a whole cache file (`CacheWhole` needs `~faulty`). `Transfers` shows
the limit of the check of words and offset: a sum that wraps (`TransfersTypeOK` needs `Wraps`).

## 5. What is proved

`MonitoredItemsProofs`, from `ItemsAssumption` alone (accessors have a node, ids are
positive, the queue has at least one place, exceptions and "no data" are no values): for
any sets of nodes, accessors, handlers and ids, and every queue length,

* `TypeCorrect`: `ItemsSpec => []ItemsTypeOK`, including the bound on every queue;
* `AccessorsListed`: `ItemsSpec => []ItemsInUse`;
* `ExceptionOnce`: `ItemsSpec => []NoRepeatedException`;
* `NewestReaches`: `ItemsSpec => []NewestKept`.

`ItemsTypeOK` and `ItemsInUse` are inductive together: the removal from a list of
accessors needs it to be free of duplicates and to hold the accessor. One lemma
per group of actions shows that each keeps them. `NoRepeatedException` is not inductive: a
state in which the flag is down although an exception is the last thing that was sent
would send another. `FlagCoversExceptions` adds that a live accessor with an exception
since its last value has `hasException` set at its node's item; it needs `ItemsInUse` to
know that a delivery that lowers the flag reaches all of the item's accessors.
`NewestKept` is inductive with the types: `push_overwrite` on a full queue replaces
the last element, which is where positive lengths are needed.

`VersionMapperProofs`, from `VersionsAssumption` (a map of at least two entries):

* `VersionsTyped`, `StampsTold`, `NewestStampAgreed`, `AgreedUntilFull`, for any number
  of readers and stamps and any size of the map. The invariant adds that an entry of the map
  is among the versions given to its stamp, that the newest stamp read is in the map,
  and that below the limit all stamps read are. With a map of one entry
  `NewestAgreed` would fail: the stamp evicted must be older than another entry.

`ManagedValuesProofs`, from `ItemsAssumption` and `BlocksAssumption` (`Null` is no block), for any
accessors, values, blocks and queue length:

* `MemoryAlwaysSafe`, `NoLeak`, `BackedByMemory`: the three properties of memory.

Their invariant is `Sound`, one statement `OwnInv` for each accessor: the blocks in use
are exactly those of the values in its queue and member that have a value, each of them
clears it, and no two have the same one; an exception has no value. Lemmas say what each
constructor, assignment and destructor does to it. `Sound` needs `ItemsInUse`: a value is
copied only from an accessor that is listed, and listed means alive as long as no
constructor threw.

`TransfersProofs`, from `VersionsAssumption` and `TransfersAssumption` (an array has elements and
fits a buffer, a size is larger than both, and "no data" is no array), for any readers, parts, length
and width of sizes:

* `TransfersAgree`: `[](VersionsDistinct /\ NewestAgreed /\ AgreedBelowLimit)`, what is proved of
  versions holds for transfers that lag, fail and write in between;
* `OthersAlwaysKept`: `OthersKept`. Its invariant `CopyCurrent` says that an accessor about to
  write holds the server's array outside its own words as long as the array is untouched.

`SubscriptionManagerProofs`, from `ManagerAssumption` (`Client` is no application thread, `Free`
no thread, a notification is handled by a thread) and `ItemsAssumption`: for any number of
application threads that use the operations in any order, any sets of nodes, accessors and ids,
and any number of losses of the connection,

* `LockAlwaysHeld`: `Spec => []LockHeldInSection`;
* `QueuesAlwaysTruthful`: `Spec => [](NoRepeatedException /\ NewestKept)`, whatever the order of
  losses, failed additions, failed transfers and notifications.

The invariant `ControlInv` (`ControlInvariant`) has four parts: `ItemsTypeOK` and `ItemsInUse` of the items, `FlagsOK`
(types of flags and server) and `ThreadsOK`. `LockHeldInSection` is not inductive: whether
`AfterDisconnect` goes on to a place outside the sections depends on the operation, so `ThreadsOK`
says which operations a place can belong to (`OpFits`), and that `deactivate` is at its removal of
the subscription only outside the sections, where it took the lock itself. That `deactivate` in a
callback would wait for a lock its thread holds is the other case; it never gets to the removal
(run `relock`). That the items
change only as `MonitoredItems` lets them needs the types: the item added last is one of `items`, its
id one of `MonIds`.

`OneApplicationProofs`, from the same assumptions and `Apps = {a}`:

* `ReadingStops`: `Spec => []ReadingNeedsFunctional`;
* `CloseJoins`: `Spec => []CloseStopsThread`;
* `JoinsEnd`: `Spec => []JoinHasReason`, if `~Reconnects`;
* `HandleRespected`: `Spec => HandleContract`, the refinement of `ThreadHandle`;
* `ApplicationNeverRelocks`: `Spec => []OnlyClientRelocks`;
* and if `"destruct" \notin Ops`, that is, if no accessor is destroyed, `LinksWithoutDestruction`:
  `Spec => []MapLinksItem`, and `MonitoredOnce`: `Spec => []NoItemMonitoredTwice`.

The invariant adds to `ControlInv` what holds at each place of the application thread (`Phase`:
while the device is not functional, reading is off or the thread is on its way through
`deactivate`; a thread that creates the client thread found no handle and a functional
device; a thread at a join has stopped the loop or found the connection gone) and that the client
thread, when it runs, has its handle or its creator is about to assign it (`ClientOK`). Every step
is shown to leave the handle as it is except `Spawn`, `RunEnd` and `Join`, which are the steps of
`ThreadHandle`. With two application threads TLC finds each of the first four violated: a constructor and
`activateAsyncRead` may both find no handle and create a thread, and one of them may do so after
`close` of the other thread has joined the old one.

`ApplicationNeverRelocks` adds `Relocking`: the loop flag is up only while there is a client
thread or one is about to be made; so a callback that finds it up in a section of the
application finds the handle, and `deactivate` leaves the subscription to the thread.

`MonitoredOnce` adds `Mapped`: every entry of the map leads to an item that has its id and is
marked as monitored, and the item that is being added is not marked. It is kept because every
reset clears map and marks together, within one hold of `mutex`, and because between the choice
of an item and its bookkeeping other steps touch map and marks only by such a reset. Items are
then only appended; with destructors one is erased, its neighbours change their slots, and
`MapLinksItem` fails (run `map_links`), and with it the property. So the hypothesis is the code's
own limit, not the proof's.

`ServingProofs`, from the same assumptions, `Apps = {a}` and `~Reconnects`:

* `EntriesAlwaysServed`: `Spec => []EntriesServed`, destructors included;
* and if `"destruct" \notin Ops`, `MarksAlwaysServed`: `Spec => []MarksServed`, and
  `HandledItemKept`: `Spec => HandledItemStays`.

`EntriesServed` and `MarksServed` say something while the client thread serves, and that is not for
convenience. A client thread that was left a subscription to remove clears map and marks on its
way out; it may do so after the server has answered `AddItem` and before `Added` has entered the
item, and the entry made then belongs to a subscription that is gone. It stays until somebody
joins that thread and clears the map again. So the invariant speaks of *current* sessions
(`Current`): the session is up and the client thread has not ended without having been joined.
`Served` says that in these the map holds only items of the server, that it is empty when
there is no subscription and when one is about to be created, and that the id `Added` is about to
enter is new to it; and that the map has been cleared at the places on the way to the next
session or the next client thread (`Emptied`). `Kept` is what makes it inductive: a step either
starts from a current session or leads to an empty map. `Places` says where callbacks can be.
Steps that leave map, subscription and session alone are handled together (`Untouched`, `Rest`),
and an application thread's way through the operations by `Route`.

`Marked` ties the marks to the map: none without entries, and in a current session each marked item
has an entry of its own, because the id that `Added` enters takes nobody else's. Outside
current sessions that is false, by the race above. `HandledItemStays` needs `Mapped`, and that the
client thread delivers for another id than `Added` is about to enter (`Disjoint`): the id was not
in the map when `responseHandler` found its own there, and the server's answer to `AddItem` comes under the
`client_lock` that the client thread holds while it delivers.

With several application threads the theorems of `SubscriptionManagerProofs` hold until one
thread's `unsubscribe` removes an item in the middle of another one's `addMonitoredItems` (SM 230, a
hazard): from there on the iterator in the code is invalid, and the model has no next step for that
thread. With one application thread this does not happen.

`CatalogueStartProofs`, from `ServerAssumption` (identifiers and attributes have their types, the
references of objects have no cycle) and `MapAssumption` (lines name nodes of the server, only an XML
file has a `<pv>` without text): for any number
of processes, any server and any map file,

* `StartTypes`: `Spec => []StartTypeOK`;
* `CacheAlwaysWhole`: `Spec => []CacheWhole`;
* `CatalogueAlwaysFaithful`: `Spec => []CatalogueFaithful`;
* `CatalogueComplete`: `Spec => []CompleteIfAnswered`;
* `DeathAlwaysNeedsRefusal`: `Spec => []DeathNeedsRefusal`.

`CacheWhole` alone is not inductive, a rename could bring a file that was only opened.
`TmpWhole` adds that the temporary file of a process about to rename is whole unless a write
failed. `CatalogueFaithful` needs `FaithInv`: what is in `todo` may be asked for, the node being
read has passed the checks made so far, and every file that is whole, temporary or not, holds
registers of usable variables, since another process will read it. `FullInv` adds what is still to
come: unless a request was not answered in full or an XML map file repeats a name, every usable variable is in
the catalogue or ahead in `todo`, under an object not yet browsed or on a line not yet
reached. That needs `Reachable` as the least closed set: a variable reached from an object is
the object's reference or reached from one. A map file whose names repeat is excepted because
`addRegister` may throw then (`RepeatedName`); the lines done and left are kept apart, so that a
name that is taken comes from an earlier line. Death by an empty cache file needs a refusal or a
server with nothing usable: with a map file an empty catalogue is not saved, and a server that
cannot be reached at all fails the start before anything is saved.

Only model-checked: the liveness properties `OperationReturns`, `LossEndsThread` and `StartEnds`,
because liveness under fairness is beyond the prover; `LastAccessorCleans`, whose proof would
need the places of the last `unsubscribe` in the invariant of `ServingProofs`; and `TransfersTypeOK`,
whose arithmetic part is that of one sum.

## 6. Not modelled

The destructors of manager and backend (`deactivate` and a join, after everything else has
stopped), the conversion of values with its range checks (the limits of floating point types
among them, see the hazard at AC 64), the status word and data validity of a read,
registration and the dummy server of the tests. Reasons are in
`PROJECT.json`. `ManagedVariant` is left out: its objects are local to one call. In the modelled parts: logging, publishing intervals and sleeps, index
ranges of registers, the lock `dataUpdateLock` and what a write of a subscribed accessor does
without it, contents of values beyond identity, the memory of the open62541 client (concurrent
use of it, see SM 197-199), and data races on plain members beyond the interleaving of
their reads and writes. Of the catalogue: names shortened by the root node, the
parsing of lines, XML written by other programs, data descriptors, a server that changes its
variables.

## 7. Plan

1. Done: `MonitoredItems`, `ManagedValues`, `SubscriptionManager`, `ThreadHandle`,
   `VersionMapper`, `Transfers`, `CatalogueStart`, their runs, and the proofs about all of them.
2. Names of registers (root node, `Dir`, leading slash) as operators checked over bounded inputs.
3. Runs of `SubscriptionManager` with two application threads, and the destructor of the manager.
