------------------------- MODULE SubscriptionManager -------------------------
(***************************************************************************)
(* The control flow around the monitored items: OpcUABackend's lifecycle   *)
(* (open, close, activateAsyncRead, setException), the construction and    *)
(* destruction of accessors, synchronous transfers, the thread that runs   *)
(* the client, and the callbacks open62541 makes from inside client calls. *)
(*                                                                         *)
(* A thread is a program counter.  A step of it is the code between two    *)
(* points where another thread can matter: a lock, a read or write of the  *)
(* manager's flags, a client call.  While a callback runs deactivate the   *)
(* thread's `deact` walks through that method and pc stays where the       *)
(* callback interrupted it.  The data a step touches is changed by the     *)
(* actions of MonitoredItems, so a run of this module is a run of that.    *)
(***************************************************************************)
EXTENDS MonitoredItems

CONSTANTS
  Apps,       \* application threads
  Client,     \* the thread runClient runs in
  Free,       \* the lock value of an unlocked client_lock
  Ops,        \* the operations the application uses
  MaxLoss,    \* bound on how often the server becomes unreachable
  Reconnects  \* whether open62541 takes a lost session up again on its own

Threads == Apps \cup {Client}

ASSUME ManagerAssumption ==
  /\ Client \notin Apps /\ Free \notin Threads
  /\ Handlers = Threads
  /\ MaxLoss \in Nat
  /\ Reconnects \in BOOLEAN

VARIABLES
  th,   \* where each thread is
  sm,   \* the manager: _run, _subscriptionActive, _subscriptionNeedsToBeRemoved,
        \* _asyncReadActive, _subscriptionID # 0, opcuaThread # nullptr, and
        \* whether a thread left subscribe with the mutex locked
  be,   \* the backend: _opened, the active exception, _subscriptionManager
  cn,   \* the connection: client_lock and isConnected()
  srv   \* the server: reachable, the subscription, its items and the items
        \* with a notification to deliver; bounded by losses

controlVars == <<th, sm, be, cn, srv>>
vars == <<itemVars, controlVars>>

-----------------------------------------------------------------------------
(* idx: item of addMonitoredItems; id: monitored item in the hands of the  *)
(* thread; new: the accessor under construction; inactive: the callback is *)
(* inactivityCallback.                                                     *)
Idle == [pc |-> "idle", op |-> "none", deact |-> "none", inactive |-> FALSE,
         new |-> {}, idx |-> 0, id |-> 0]

(* Sections under client_lock, by the label that waits for the lock.       *)
Section == [closeLock |-> "disconnect", connectLock |-> "connect",
            createLock |-> "create", addLock |-> "addItem",
            unsubLock |-> "unsub", lastLock |-> "last",
            readLock |-> "read", iterLock |-> "iterate", exitLock |-> "exit"]

Locked == {Section[l] : l \in DOMAIN Section} \cup {"readError", "disconnected"}

(* Client calls that process what arrives from the server meanwhile.       *)
ClientCalls == {"createRemove", "create", "addItem", "unsub", "last", "read",
                "iterate", "exit"}

At(t, l) ==
  /\ ~crashed
  /\ th[t].pc = l /\ th[t].deact = "none" /\ handling[t] = 0

Deact(t, l) == ~crashed /\ th[t].deact = l

InCall(t) == \E l \in ClientCalls : At(t, l)

Goto(t, l) == th' = [th EXCEPT ![t].pc = l]

Done(t) == th' = [th EXCEPT ![t] = Idle]

Begin(t, op, l) == th' = [th EXCEPT ![t].op = op, ![t].pc = l]

Unlock == cn' = [cn EXCEPT !.lock = Free]

(* addMonitoredItems keeps OPCUASubscriptionManager::mutex from the return *)
(* of one client call to the next one; subscribe keeps it for good when it *)
(* throws.                                                                 *)
MutexFree(t) ==
  /\ ~sm.stuck
  /\ \A u \in Threads \ {t} : ~(th[u].pc = "addNext" /\ th[u].idx > 1)

IsFunctional == be.opened /\ ~be.exception

Init ==
  /\ ItemsInit
  /\ th = [t \in Threads |-> Idle]
  /\ sm = [run |-> FALSE, active |-> FALSE, remove |-> FALSE, async |-> FALSE,
           id |-> FALSE, thread |-> FALSE, stuck |-> FALSE]
  /\ be = [opened |-> FALSE, exception |-> FALSE, manager |-> FALSE]
  /\ cn = [lock |-> Free, connected |-> TRUE]
  /\ srv = [link |-> TRUE, sub |-> FALSE, items |-> {}, pending |-> {},
            losses |-> 0]

-----------------------------------------------------------------------------
(* Locks and the thread handle.                                            *)

AcquireClientLock(t) ==
  \E l \in DOMAIN Section :
    /\ At(t, l) /\ cn.lock = Free
    /\ cn' = [cn EXCEPT !.lock = t]
    /\ Goto(t, Section[l])
    /\ UNCHANGED <<itemVars, sm, be, srv>>

(* stopClientThread: wait for runClient to return, then drop the handle.   *)
AfterJoin == [joinOpen |-> "reset", joinReset |-> "closeLock", joinLast |-> "idle"]

Join(t) ==
  \E l \in DOMAIN AfterJoin :
    /\ At(t, l)
    /\ sm.thread => th[Client] = Idle
    /\ sm' = [sm EXCEPT !.thread = FALSE]
    /\ IF AfterJoin[l] = "idle" THEN Done(t) ELSE Goto(t, AfterJoin[l])
    /\ UNCHANGED <<itemVars, be, cn, srv>>

(* Mutation of Start: the handle is not looked at.                         *)
StartAgain(t) ==
  /\ At(t, "start")
  /\ sm' = [sm EXCEPT !.run = sm.active]
  /\ IF sm.active THEN Goto(t, "spawn") ELSE Done(t)
  /\ UNCHANGED <<itemVars, be, cn, srv>>

(* start: the handle is assigned only after the new thread began to run;   *)
(* assigning over a thread nobody joined ends the process.  Where another  *)
(* client thread runs already, that is the end of both.                    *)
Start(t) ==
  /\ At(t, "start")
  /\ IF ~sm.thread /\ (th[t].op = "construct" => sm.async)
     THEN /\ sm' = [sm EXCEPT !.run = sm.active]
          /\ IF sm.active THEN Goto(t, "spawn") ELSE Done(t)
     ELSE Done(t) /\ UNCHANGED sm
  /\ UNCHANGED <<itemVars, be, cn, srv>>

Spawn(t) ==
  /\ At(t, "spawn")
  /\ \/ /\ th[Client] = Idle
        /\ th' = [th EXCEPT ![t].pc = "assign", ![Client].pc = "loop"]
        /\ UNCHANGED itemVars
     \/ th[Client] # Idle /\ Terminate /\ UNCHANGED th
  /\ UNCHANGED <<sm, be, cn, srv>>

Assign(t) ==
  /\ At(t, "assign")
  /\ \/ ~sm.thread /\ Done(t) /\ UNCHANGED itemVars
     \/ sm.thread /\ Terminate /\ UNCHANGED th
  /\ sm' = [sm EXCEPT !.thread = TRUE]
  /\ UNCHANGED <<be, cn, srv>>

-----------------------------------------------------------------------------
(* deactivate and deactivateAllAndPushException, step by step.             *)

DeactivateException(t) ==
  /\ Deact(t, "exc") /\ MutexFree(t)
  /\ HandleException
  /\ th' = [th EXCEPT ![t].deact = "items"]
  /\ UNCHANGED <<sm, be, cn, srv>>

DeactivateMapped(t) ==
  /\ Deact(t, "items") /\ MutexFree(t)
  /\ DeactivateItems
  /\ th' = [th EXCEPT ![t].deact = "run"]
  /\ UNCHANGED <<sm, be, cn, srv>>

(* Mutation of DeactivateRun: _run stays true.                             *)
DeactivateKeepRunning(t) ==
  /\ Deact(t, "run")
  /\ th' = [th EXCEPT ![t].deact = "sub"]
  /\ UNCHANGED <<itemVars, sm, be, cn, srv>>

DeactivateRun(t) ==
  /\ Deact(t, "run")
  /\ sm' = [sm EXCEPT !.run = FALSE]
  /\ th' = [th EXCEPT ![t].deact = "sub"]
  /\ UNCHANGED <<itemVars, be, cn, srv>>

(* With a thread the removal is left to that thread; without one it is     *)
(* done here, under client_lock.                                           *)
DeactivateSubscription(t) ==
  /\ Deact(t, "sub")
  /\ sm' = [sm EXCEPT !.active = FALSE,
                      !.remove = @ \/ (sm.active /\ sm.thread)]
  /\ th' = [th EXCEPT ![t].deact =
                        IF sm.active /\ ~sm.thread THEN "lock" ELSE "async"]
  /\ UNCHANGED <<itemVars, be, cn, srv>>

DeactivateLock(t) ==
  /\ Deact(t, "lock") /\ cn.lock = Free
  /\ cn' = [cn EXCEPT !.lock = t]
  /\ th' = [th EXCEPT ![t].deact = "remove"]
  /\ UNCHANGED <<itemVars, sm, be, srv>>

(* A synchronous call returns good only over a working session; with the   *)
(* link down it fails once the state callback has run.                     *)
Good == cn.connected /\ srv.link
Failed == cn.connected => srv.link

NoSubscription == [srv EXCEPT !.sub = FALSE, !.items = {}, !.pending = {}]

(* removeSubscription.  A successful deletion calls                        *)
(* deleteSubscriptionCallback, that is setInactive.                        *)
Removed == [sm EXCEPT !.id = FALSE, !.active = @ /\ ~(Good /\ srv.sub)]

(* Mutation of RemoveSubscription: resetMonitoredItems is not called.      *)
RemoveSubscriptionOnly(removed) ==
  /\ srv' = IF Good THEN NoSubscription ELSE srv
  /\ sm' = removed
  /\ UNCHANGED itemVars

RemoveSubscription(removed) ==
  /\ srv' = IF Good THEN NoSubscription ELSE srv
  /\ sm' = removed
  /\ ResetMonitoredItems

DeactivateRemove(t) ==
  /\ Deact(t, "remove") /\ MutexFree(t)
  /\ RemoveSubscription(Removed)
  /\ cn' = [cn EXCEPT !.lock = Free, !.connected = @ /\ srv.link]
  /\ th' = [th EXCEPT ![t].deact = "async"]
  /\ UNCHANGED be

(* Mutation of DeactivateAsync: _asyncReadActive stays true.               *)
DeactivateKeepAsync(t) ==
  /\ Deact(t, "async")
  /\ cn' = [cn EXCEPT !.connected = @ /\ ~th[t].inactive]
  /\ th' = [th EXCEPT ![t].deact = "none", ![t].inactive = FALSE]
  /\ UNCHANGED <<itemVars, sm, be, srv>>

(* inactivityCallback marks the session closed afterwards.                 *)
DeactivateAsync(t) ==
  /\ Deact(t, "async")
  /\ sm' = [sm EXCEPT !.async = FALSE]
  /\ cn' = [cn EXCEPT !.connected = @ /\ ~th[t].inactive]
  /\ th' = [th EXCEPT ![t].deact = "none", ![t].inactive = FALSE]
  /\ UNCHANGED <<itemVars, be, srv>>

Deactivate(t) ==
  \/ DeactivateException(t) \/ DeactivateMapped(t) \/ DeactivateRun(t)
  \/ DeactivateSubscription(t) \/ DeactivateLock(t) \/ DeactivateRemove(t)
  \/ DeactivateAsync(t)

(* DeviceBackend::setException: the first caller runs setExceptionImpl.    *)
SetException(t) ==
  /\ be' = [be EXCEPT !.exception = TRUE]
  /\ th' = [th EXCEPT ![t] = [Idle EXCEPT !.deact =
                IF ~be.exception /\ be.manager THEN "exc" ELSE "none"]]

-----------------------------------------------------------------------------
(* open62541: callbacks inside client calls, and the server.               *)

(* Mutation of Disconnected: isRunning() is not asked for.                 *)
DisconnectedAlways(t, l) ==
  /\ cn' = [cn EXCEPT !.connected = FALSE]
  /\ th' = [th EXCEPT ![t].pc = l,
                      ![t].deact = IF be.opened /\ be.manager THEN "exc" ELSE @]

(* The channel or session state changed for the worse.  The manager is     *)
(* told only while the device is open and the thread is meant to run.      *)
Disconnected(t, l) ==
  /\ cn' = [cn EXCEPT !.connected = FALSE]
  /\ th' = [th EXCEPT ![t].pc = l,
                      ![t].deact = IF be.opened /\ be.manager /\ sm.run
                                   THEN "exc" ELSE @]

StateCallback(t) ==
  /\ InCall(t) /\ cn.connected /\ ~srv.link
  /\ Disconnected(t, th[t].pc)
  /\ UNCHANGED <<itemVars, sm, be, srv>>

(* The channel and the session are open again, inside some client call and *)
(* without the backend asking for it: "the client reused the session that  *)
(* was active before" (comment in resetClient).  stateCallback notes it    *)
(* and tells nobody.                                                       *)
SessionReused(t) ==
  /\ Reconnects
  /\ InCall(t) /\ ~cn.connected /\ srv.link
  /\ cn' = [cn EXCEPT !.connected = TRUE]
  /\ UNCHANGED <<itemVars, th, sm, be, srv>>

(* inactivityCallback, when publish responses stay out.                    *)
InactivityCallback(t) ==
  /\ InCall(t) /\ cn.connected /\ ~srv.link
  /\ IsFunctional /\ be.manager /\ sm.run /\ sm.id
  /\ th' = [th EXCEPT ![t].deact = "exc", ![t].inactive = TRUE]
  /\ UNCHANGED <<itemVars, sm, be, cn, srv>>

(* responseHandler up to its lock: not active or not mapped (the exception *)
(* of map::at is caught) drops the notification.                           *)
DataCallback(t) ==
  /\ InCall(t) /\ cn.connected /\ srv.link
  /\ \E id \in srv.pending :
       /\ srv' = [srv EXCEPT !.pending = @ \ {id}]
       /\ \/ CheckActive(t, id)
          \/ ~IsActive(id) /\ UNCHANGED itemVars
  /\ UNCHANGED <<th, sm, be, cn>>

DataPush(t) ==
  /\ ~crashed /\ handling[t] # 0 /\ MutexFree(t)
  /\ (\E v \in Values : PushValue(t, v)) \/ NullItem(t)
  /\ UNCHANGED controlVars

ValueChange ==
  /\ ~crashed /\ srv.link
  /\ \E id \in srv.items : srv' = [srv EXCEPT !.pending = @ \cup {id}]
  /\ UNCHANGED <<itemVars, th, sm, be, cn>>

LoseLink ==
  /\ ~crashed /\ srv.link /\ srv.losses < MaxLoss
  /\ srv' = [srv EXCEPT !.link = FALSE, !.losses = @ + 1]
  /\ UNCHANGED <<itemVars, th, sm, be, cn>>

RestoreLink ==
  /\ ~crashed /\ ~srv.link
  /\ srv' = [srv EXCEPT !.link = TRUE]
  /\ UNCHANGED <<itemVars, th, sm, be, cn>>

-----------------------------------------------------------------------------
(* open, close and resetClient.                                            *)

Opened == [be EXCEPT !.opened = TRUE, !.exception = FALSE]

Open(t) ==
  /\ At(t, "idle")
  /\ IF cn.connected
     THEN be' = Opened /\ UNCHANGED th
     ELSE /\ Begin(t, "open", IF be.manager THEN "joinOpen" ELSE "reset")
          /\ UNCHANGED be
  /\ UNCHANGED <<itemVars, sm, cn, srv>>

Close(t) ==
  /\ At(t, "idle")
  /\ be' = [be EXCEPT !.opened = FALSE]
  /\ Begin(t, "close", "reset")
  /\ UNCHANGED <<itemVars, sm, cn, srv>>

ResetClient(t) ==
  /\ At(t, "reset")
  /\ th' = IF be.manager
           THEN [th EXCEPT ![t].pc = "resetItems", ![t].deact = "items"]
           ELSE [th EXCEPT ![t].pc = "closeLock"]
  /\ UNCHANGED <<itemVars, sm, be, cn, srv>>

(* Mutation of ResetItems: stopClientThread is not called.                 *)
ResetItemsNoJoin(t) ==
  /\ At(t, "resetItems") /\ MutexFree(t)
  /\ ResetMonitoredItems
  /\ Goto(t, "closeLock")
  /\ UNCHANGED <<sm, be, cn, srv>>

ResetItems(t) ==
  /\ At(t, "resetItems") /\ MutexFree(t)
  /\ ResetMonitoredItems
  /\ Goto(t, "joinReset")
  /\ UNCHANGED <<sm, be, cn, srv>>

(* UA_Client_disconnect: the subscription is deleted with its callback,    *)
(* then the state callback reports the closed session.                     *)
Disconnect(t) ==
  /\ At(t, "disconnect")
  /\ sm' = IF srv.sub THEN [sm EXCEPT !.active = FALSE, !.id = FALSE] ELSE sm
  /\ srv' = NoSubscription
  /\ Disconnected(t, "disconnected")
  /\ UNCHANGED <<itemVars, be>>

(* The lock is released: close returns, open connects, and a failed        *)
(* transfer throws, which sets the exception state of the backend once.    *)
AfterDisconnect(t) ==
  /\ At(t, "disconnected")
  /\ Unlock
  /\ CASE th[t].op = "close" -> Done(t) /\ UNCHANGED be
       [] th[t].op = "open" -> Goto(t, "connectLock") /\ UNCHANGED be
       [] th[t].op = "transfer" -> SetException(t)
  /\ UNCHANGED <<itemVars, sm, srv>>

Connect(t) ==
  /\ At(t, "connect")
  /\ \/ /\ srv.link
        /\ cn' = [cn EXCEPT !.lock = Free, !.connected = TRUE]
        /\ Goto(t, IF be.manager THEN "createSub" ELSE "opened")
     \/ Unlock /\ Done(t)
  /\ UNCHANGED <<itemVars, sm, be, srv>>

FinishOpen(t) ==
  /\ At(t, "opened")
  /\ be' = IF cn.connected THEN Opened ELSE be
  /\ Done(t)
  /\ UNCHANGED <<itemVars, sm, cn, srv>>

-----------------------------------------------------------------------------
(* activateAsyncRead, createSubscription and addMonitoredItems.            *)

Activate(t) ==
  /\ At(t, "idle") /\ IsFunctional
  /\ \A u \in Threads : th[u].op # "activate"
  /\ be' = [be EXCEPT !.manager = TRUE]
  /\ Begin(t, "activate", IF sm.active THEN "async" ELSE "createSub")
  /\ UNCHANGED <<itemVars, sm, cn, srv>>

CreateSubscription(t) ==
  /\ At(t, "createSub")
  /\ Goto(t, IF sm.id THEN "createRemove" ELSE "createLock")
  /\ UNCHANGED <<itemVars, sm, be, cn, srv>>

(* The left-over subscription goes without client_lock.                    *)
CreateRemove(t) ==
  /\ At(t, "createRemove") /\ MutexFree(t)
  /\ Failed /\ RemoveSubscription(Removed)
  /\ Goto(t, "createLock")
  /\ UNCHANGED <<be, cn>>

Create(t) ==
  /\ At(t, "create")
  /\ Unlock
  /\ \/ /\ Good
        /\ srv' = [srv EXCEPT !.sub = TRUE, !.items = {}, !.pending = {}]
        /\ Goto(t, "created")
     \/ Failed /\ Goto(t, "createFailed") /\ UNCHANGED srv
  /\ UNCHANGED <<itemVars, sm, be>>

Created(t) ==
  /\ At(t, "created")
  /\ sm' = [sm EXCEPT !.id = TRUE, !.active = TRUE]
  /\ th' = [th EXCEPT ![t].pc = IF th[t].op = "activate" THEN "async" ELSE "addNext",
                      ![t].idx = 1]
  /\ UNCHANGED <<itemVars, be, cn, srv>>

(* createSubscription throws: open passes it on, activateAsyncRead is      *)
(* noexcept, and a constructor leaves its accessor behind in the list.     *)
CreateFailed(t) ==
  /\ At(t, "createFailed")
  /\ CASE th[t].op = "open" -> UNCHANGED itemVars
       [] th[t].op = "activate" -> Terminate
       [] th[t].op = "construct" -> \E a \in th[t].new : Abandon(a)
  /\ Done(t)
  /\ UNCHANGED <<sm, be, cn, srv>>

ActivateAsync(t) ==
  /\ At(t, "async")
  /\ sm' = [sm EXCEPT !.async = TRUE]
  /\ th' = [th EXCEPT ![t].pc = IF items # <<>> /\ DOMAIN subscriptionMap = {}
                                THEN "addNext" ELSE "activateItems",
                      ![t].idx = 1]
  /\ UNCHANGED <<itemVars, be, cn, srv>>

ActivateAll(t) ==
  /\ At(t, "activateItems") /\ MutexFree(t)
  /\ ActivateItems(ToSet(items))
  /\ Goto(t, "start")
  /\ UNCHANGED <<sm, be, cn, srv>>

(* The loop of addMonitoredItems from item idx to the next one that is not *)
(* monitored, activating what it passes.                                   *)
AddNext(t) ==
  LET i == th[t].idx
      Todo == {j \in DOMAIN items : j >= i /\ ~item[items[j]].isMonitored}
      last == IF Todo = {} THEN Len(items)
              ELSE CHOOSE j \in Todo : \A k \in Todo : j <= k
  IN  /\ At(t, "addNext") /\ MutexFree(t)
      /\ IF sm.async THEN ActivateItems({items[j] : j \in i..last})
         ELSE UNCHANGED itemVars
      /\ IF Todo # {}
         THEN th' = [th EXCEPT ![t].pc = "addLock", ![t].idx = last]
         ELSE th' = [th EXCEPT ![t].pc = IF th[t].op = "open" THEN "opened"
                                         ELSE "start",
                               ![t].idx = 0]
      /\ UNCHANGED <<sm, be, cn, srv>>

(* The server answers with an id that is unique within the subscription.   *)
AddItem(t) ==
  /\ At(t, "addItem")
  /\ Unlock
  /\ \/ /\ Good /\ srv.sub
        /\ \E id \in MonIds \ srv.items :
             /\ srv' = [srv EXCEPT !.items = @ \cup {id},
                                   !.pending = @ \cup {id}]
             /\ th' = [th EXCEPT ![t].pc = "added", ![t].id = id]
     \/ Failed /\ Goto(t, "addFailed") /\ UNCHANGED srv
  /\ UNCHANGED <<itemVars, sm, be>>

Added(t) ==
  /\ At(t, "added") /\ MutexFree(t)
  /\ MonitorItem(items[th[t].idx], th[t].id)
  /\ th' = [th EXCEPT ![t].pc = "addNext", ![t].idx = @ + 1, ![t].id = 0]
  /\ UNCHANGED <<sm, be, cn, srv>>

AddFailed(t) ==
  /\ At(t, "addFailed") /\ MutexFree(t)
  /\ HandleException
  /\ th' = [th EXCEPT ![t].pc = "addNext", ![t].idx = @ + 1]
  /\ UNCHANGED <<sm, be, cn, srv>>

-----------------------------------------------------------------------------
(* Construction and destruction of accessors.                              *)

(* A constructor that throws in subscribe returns to the application.      *)
Construct(t, a) ==
  /\ At(t, "idle") /\ MutexFree(t)
  /\ be' = [be EXCEPT !.manager = TRUE]
  /\ \/ /\ SubscribeNew(a)
        /\ th' = [th EXCEPT ![t].op = "construct", ![t].pc = "subscribed",
                            ![t].new = {a}]
        /\ UNCHANGED sm
     \/ SubscribeShared(a) /\ Begin(t, "construct", "start") /\ UNCHANGED sm
     \/ SubscribeThrow(a) /\ sm' = [sm EXCEPT !.stuck = TRUE] /\ UNCHANGED th
  /\ UNCHANGED <<cn, srv>>

(* Monitored at once only while asynchronous reading is active.            *)
Subscribed(t) ==
  /\ At(t, "subscribed")
  /\ th' = [th EXCEPT ![t].pc = IF ~sm.async THEN "start"
                                ELSE IF sm.active THEN "addNext"
                                ELSE "createSub",
                      ![t].idx = 1]
  /\ UNCHANGED <<itemVars, sm, be, cn, srv>>

Destruct(t, a) ==
  /\ At(t, "idle") /\ MutexFree(t)
  /\ \/ UnsubscribeShared(a) /\ UNCHANGED th
     \/ /\ UnsubscribeLast(a)
        /\ LET id == item[NodeOf[a]].id
           IN  IF id = 0 THEN UNCHANGED th
               ELSE th' = [th EXCEPT ![t].op = "destruct",
                                     ![t].pc = "unsubscribed", ![t].id = id]
  /\ UNCHANGED <<sm, be, cn, srv>>

Unsubscribed(t) ==
  /\ At(t, "unsubscribed")
  /\ IF cn.connected THEN Goto(t, "unsubLock") ELSE Done(t)
  /\ UNCHANGED <<itemVars, sm, be, cn, srv>>

(* Deleting the item may deliver its latest value first (DataCallback).    *)
DeleteItem(t) ==
  /\ At(t, "unsub")
  /\ Unlock
  /\ \/ /\ Good
        /\ srv' = [srv EXCEPT !.items = @ \ {th[t].id},
                              !.pending = @ \ {th[t].id}]
     \/ Failed /\ UNCHANGED srv
  /\ IF items = <<>> THEN Goto(t, "lastLock") ELSE Done(t)
  /\ UNCHANGED <<itemVars, sm, be>>

(* Mutation of RemoveLast: the removal is left to the thread, as           *)
(* deactivate does.                                                        *)
RemoveLastLater(t) ==
  /\ At(t, "last") /\ MutexFree(t)
  /\ \/ sm.thread /\ sm' = [sm EXCEPT !.remove = TRUE] /\ UNCHANGED <<itemVars, srv>>
     \/ ~sm.thread /\ Failed /\ RemoveSubscription(Removed)
  /\ Unlock
  /\ Goto(t, "lastRun")
  /\ UNCHANGED be

RemoveLast(t) ==
  /\ At(t, "last") /\ MutexFree(t)
  /\ Failed /\ RemoveSubscription(Removed)
  /\ Unlock
  /\ Goto(t, "lastRun")
  /\ UNCHANGED be

(* Mutation of StopLast: _run stays true.                                  *)
JoinLastRunning(t) ==
  /\ At(t, "lastRun")
  /\ Goto(t, "joinLast")
  /\ UNCHANGED <<itemVars, sm, be, cn, srv>>

StopLast(t) ==
  /\ At(t, "lastRun")
  /\ sm' = [sm EXCEPT !.run = FALSE]
  /\ Goto(t, "joinLast")
  /\ UNCHANGED <<itemVars, be, cn, srv>>

-----------------------------------------------------------------------------
(* Transfers.                                                              *)

(* "read": the application takes from the queues.  A value is the          *)
(* accessor's own business.                                                *)
PopValue(a) ==
  /\ ~crashed
  /\ Pop(a) /\ Head(queue[a]) \in Values
  /\ UNCHANGED controlVars

(* An exception taken from the queue reaches DeviceBackend::setException.  *)
PopException(t, a) ==
  /\ At(t, "idle")
  /\ Pop(a) /\ Head(queue[a]) = Exception
  /\ SetException(t)
  /\ UNCHANGED <<sm, cn, srv>>

(* doReadTransferSynchronously and doWriteTransfer.                        *)
Transfer(t) ==
  /\ At(t, "idle") /\ IsFunctional
  /\ Begin(t, "transfer", "readLock")
  /\ UNCHANGED <<itemVars, sm, be, cn, srv>>

TransferDone(t) ==
  /\ At(t, "read")
  /\ \/ Good /\ Done(t) /\ Unlock
     \/ Failed /\ Goto(t, "readError") /\ UNCHANGED cn
  /\ UNCHANGED <<itemVars, sm, be, srv>>

(* handleError, for an accessor of node n; the error of a node that is not *)
(* writable leaves the connection alone.                                   *)
HandleError(t, n) ==
  /\ At(t, "readError")
  /\ IF be.manager /\ Listed(n) THEN MutexFree(t) /\ SetExternalError(n)
     ELSE UNCHANGED itemVars
  /\ \/ Goto(t, "disconnect") /\ UNCHANGED cn
     \/ Done(t) /\ Unlock
  /\ UNCHANGED <<sm, be, srv>>

-----------------------------------------------------------------------------
(* runClient.                                                              *)

RunLoop ==
  /\ At(Client, "loop")
  /\ Goto(Client, IF sm.run THEN "iterLock" ELSE "exitLock")
  /\ UNCHANGED <<itemVars, sm, be, cn, srv>>

(* Mutations of RunIterate: the lock is kept when the loop is left, and a  *)
(* bad status does not end the loop.                                       *)
RunIterateLocked ==
  /\ At(Client, "iterate")
  /\ IF sm.remove THEN UNCHANGED cn ELSE Unlock
  /\ Goto(Client, IF sm.remove \/ ~cn.connected THEN "exitLock" ELSE "loop")
  /\ UNCHANGED <<itemVars, sm, be, srv>>

RunIterateForever ==
  /\ At(Client, "iterate")
  /\ Unlock
  /\ Goto(Client, IF sm.remove THEN "exitLock" ELSE "loop")
  /\ UNCHANGED <<itemVars, sm, be, srv>>

(* UA_Client_run_iterate returned: the loop ends when the subscription is  *)
(* to be removed or the session is gone.                                   *)
RunIterate ==
  /\ At(Client, "iterate")
  /\ Unlock
  /\ Goto(Client, IF sm.remove \/ ~cn.connected THEN "exitLock" ELSE "loop")
  /\ UNCHANGED <<itemVars, sm, be, srv>>

RunExit ==
  /\ At(Client, "exit")
  /\ \/ /\ sm.remove /\ Failed /\ MutexFree(Client)
        /\ RemoveSubscription([Removed EXCEPT !.remove = FALSE])
     \/ ~sm.remove /\ UNCHANGED <<itemVars, sm, srv>>
  /\ Unlock
  /\ Goto(Client, "exitRun")
  /\ UNCHANGED be

RunEnd ==
  /\ At(Client, "exitRun")
  /\ sm' = [sm EXCEPT !.run = FALSE]
  /\ Done(Client)
  /\ UNCHANGED <<itemVars, be, cn, srv>>

-----------------------------------------------------------------------------
(* Steps of a thread inside an operation it has begun.                     *)
Callback(t) ==
  \/ StateCallback(t) \/ SessionReused(t) \/ InactivityCallback(t)
  \/ DataCallback(t) \/ DataPush(t)

AppStep(t) ==
  \/ AcquireClientLock(t) \/ Join(t) \/ Start(t) \/ Spawn(t) \/ Assign(t)
  \/ ResetClient(t) \/ ResetItems(t) \/ Disconnect(t) \/ AfterDisconnect(t)
  \/ Connect(t) \/ FinishOpen(t)
  \/ CreateSubscription(t) \/ CreateRemove(t) \/ Create(t) \/ Created(t)
  \/ CreateFailed(t) \/ ActivateAsync(t) \/ ActivateAll(t) \/ AddNext(t)
  \/ AddItem(t) \/ Added(t) \/ AddFailed(t)
  \/ Subscribed(t) \/ Unsubscribed(t) \/ DeleteItem(t) \/ RemoveLast(t)
  \/ StopLast(t)
  \/ TransferDone(t) \/ \E n \in Nodes : HandleError(t, n)

AppBegin(t) ==
  \/ "open" \in Ops /\ Open(t)
  \/ "close" \in Ops /\ Close(t)
  \/ "activate" \in Ops /\ Activate(t)
  \/ "transfer" \in Ops /\ Transfer(t)
  \/ \E a \in Accessors : \/ "construct" \in Ops /\ Construct(t, a)
                          \/ "destruct" \in Ops /\ Destruct(t, a)
                          \/ "read" \in Ops /\ PopException(t, a)

ClientStep ==
  AcquireClientLock(Client) \/ RunLoop \/ RunIterate \/ RunExit \/ RunEnd

Environment == ValueChange \/ LoseLink \/ RestoreLink

Next ==
  \/ \E t \in Apps : AppBegin(t) \/ AppStep(t)
  \/ ClientStep
  \/ \E t \in Threads : Deactivate(t) \/ Callback(t)
  \/ "read" \in Ops /\ \E a \in Accessors : PopValue(a)
  \/ Environment

Spec == Init /\ [][Next]_vars

(* A thread that has begun something goes on with it.  Strong fairness,    *)
(* because its next step may be disabled now and then: client_lock is      *)
(* taken by others, but runClient sleeps between two iterations and every  *)
(* other holder leaves it; a client call runs callbacks, but returns after *)
(* what has arrived so far.  A call notices a lost connection in the end.  *)
Proceed(t) ==
  \/ t \in Apps /\ AppStep(t)
  \/ t = Client /\ ClientStep
  \/ Deactivate(t)

Fairness ==
  \A t \in Threads :
    SF_vars(Proceed(t)) /\ SF_vars(StateCallback(t)) /\ WF_vars(DataPush(t))

FairSpec == Spec /\ Fairness

-----------------------------------------------------------------------------
AppsIdle == \A t \in Apps : th[t] = Idle

(* client_lock is held exactly by the thread that is inside a section of   *)
(* it, also while a callback of that thread walks through deactivate.      *)
Holds(t) == th[t].pc \in Locked \/ th[t].deact = "remove"

LockHeldInSection == \A t \in Threads : Holds(t) <=> cn.lock = t

(* The client thread obeys the contract of std::thread over every order of *)
(* activateAsyncRead, open, close, construction and destruction: it is     *)
(* never started twice and never dropped without being joined.             *)
Handle == INSTANCE ThreadHandle WITH
  body <- IF th[Client] # Idle THEN "running"
          ELSE IF sm.thread \/ \E t \in Apps : th[t].pc = "assign"
               THEN "returned" ELSE "none"

HandleContract == Handle!HandleSpec

(* Asynchronous reading and the thread loop are on only in a functional    *)
(* device: whoever closes the device or sets the exception state has them  *)
(* switched off before the call returns, and nothing switches them on      *)
(* again before the next open and activateAsyncRead.                       *)
ReadingNeedsFunctional == AppsIdle /\ ~IsFunctional => ~sm.async /\ ~sm.run

(* A closed device has no client thread.                                   *)
CloseStopsThread == AppsIdle /\ ~be.opened => ~sm.thread /\ th[Client] = Idle

(* Destroying the last accessor leaves nothing that runs: when unsubscribe  *)
(* has stopped the thread after deleting the item and the subscription,    *)
(* each of which the server may have failed to do or a callback may have   *)
(* taken from it, there is no subscription the server or the manager still *)
(* has, no entry in the map, no loop and no handle.                        *)
LastAccessorCleans ==
  [][\A t \in Apps :
       th[t].pc = "joinLast" /\ th'[t] = Idle
       => /\ DOMAIN subscriptionMap' = {} /\ ~sm'.id /\ ~sm'.run /\ ~sm'.thread
          /\ th'[Client] = Idle
          /\ cn'.connected => ~srv'.sub]_vars

(* Nobody waits for a client thread that has no reason to end: whoever     *)
(* joins it has stopped its loop or its session is gone.                   *)
JoinHasReason ==
  \A t \in Apps :
    th[t].pc \in DOMAIN AfterJoin /\ th[Client] # Idle
      => ~sm.run \/ ~cn.connected

(* deactivate in a callback never waits for the client_lock its own thread *)
(* holds: "lock is hold in runClient and this method is called in the      *)
(* state callback by the same thread" (comment in deactivate).             *)
NoSelfDeadlock == \A t \in Threads : th[t].deact = "lock" => cn.lock # t

(* What NoSelfDeadlock forbids never happens to an application thread: the *)
(* callbacks in its client calls call deactivate only while isRunning(),   *)
(* and then there is a thread to leave the subscription to.                *)
OnlyClientRelocks == \A t \in Apps : th[t].deact = "lock" => cn.lock # t

(* "This thread will always run since the subscription is always           *)
(* activated" (comment in start): a functional device with asynchronous    *)
(* reading and an accessor to serve has a thread that serves it.           *)
AsyncReadServed ==
  /\ AppsIdle /\ \A t \in Threads : th[t].deact = "none"
  /\ IsFunctional /\ sm.async
  /\ \E a \in Accessors : obj[a] = "live"
  => sm.run /\ sm.active /\ th[Client] # Idle

(* "If active the data is updated by the callback function" (comment on    *)
(* MonitorItem::active): in a functional device with a running thread an   *)
(* active item is monitored, or its accessors were sent an exception.      *)
ActiveItemServed ==
  /\ AppsIdle /\ \A t \in Threads : th[t].deact = "none"
  /\ IsFunctional /\ sm.run
  => \A n \in ToSet(items) :
       item[n].active => item[n].isMonitored \/ item[n].hasException

(* No item is fed by two monitored items of the server, although items are *)
(* added again after every reset and resets race with their addition.      *)
(* Checked for an application that keeps its accessors: a destroyed one    *)
(* may leave an entry whose slot the next new item takes (see              *)
(* MapLinksItem), and that item is then fed by two.                        *)
NoItemMonitoredTwice ==
  \A i, j \in DOMAIN subscriptionMap :
    subscriptionMap[i] = subscriptionMap[j] => i = j

(* runClient is in its loop or leaving it, over a session that is up.      *)
Serving ==
  cn.connected /\ th[Client].pc \in {"loop", "iterLock", "iterate", "exitLock", "exit"}

(* While the client thread serves, every entry of subscriptionMap is an    *)
(* item the server still has: whoever removes the subscription, replaces   *)
(* it or closes the session has resetMonitoredItems called before another  *)
(* client thread starts, and unsubscribe takes the entry out before it has *)
(* the server delete the item.                                             *)
EntriesServed == Serving => DOMAIN subscriptionMap \subseteq srv.items

(* While the client thread serves, isMonitored is no leftover: the item    *)
(* has an entry of its own under its id, or addMonitoredItems would pass   *)
(* it over and nothing would ever reach its accessors.  Like               *)
(* NoItemMonitoredTwice for an application that keeps its accessors.       *)
MarksServed ==
  Serving => \A n \in ToSet(items) :
    item[n].isMonitored =>
      /\ item[n].id \in DOMAIN subscriptionMap /\ LiveSlot(item[n].id)
      /\ ItemAt(item[n].id) = n

(* responseHandler looks the id up twice, before and under the mutex.  As  *)
(* long as the id is in the map it leads to the same item both times,      *)
(* whatever other threads do to the list and to the subscription           *)
(* meanwhile: a value is never delivered to the accessors of another node. *)
(* Again for an application that keeps its accessors.                      *)
HandledItemStays ==
  [][\A t \in Threads : LET id == handling[t] IN
       id # 0 /\ handling'[t] = id /\ id \in DOMAIN subscriptionMap'
       => /\ id \in DOMAIN subscriptionMap
          /\ LiveSlot(id) /\ LiveSlot(id)'
          /\ ItemAt(id)' = ItemAt(id)]_vars

(* "Send exception to all accessors via the future queue" (comment on      *)
(* handleException): when a callback reports the loss of the connection of *)
(* a functional device with asynchronous reading, every accessor of an     *)
(* active item has an exception in its queue afterwards.                   *)
ExceptionSent ==
  [][\A t \in Threads, a \in Accessors :
       /\ th[t].deact = "exc" /\ th'[t].deact = "items" /\ cn.lock = t
       /\ IsFunctional /\ sm.async
       /\ obj[a] = "live" /\ item[NodeOf[a]].active
       => Exception \in ToSet(queue'[a])]_vars

(* A notification whose item was found active still has that item when it  *)
(* is delivered: "when calling unsubscribe the item is removed before it   *)
(* is unsubscribed from the client, which might trigger the response       *)
(* handler" (comment in responseHandler, which catches the missing id).    *)
HandledItemExists ==
  \A t \in Threads : handling[t] # 0 => handling[t] \in DOMAIN subscriptionMap

(* The process has died, a callback waits for its own lock, or a           *)
(* constructor has thrown in subscribe and left the mutex locked.          *)
Hopeless == crashed \/ ~NoSelfDeadlock \/ sm.stuck

(* Every operation the application begins returns, unless that is hopeless *)
(* for one of these three reasons.                                         *)
OperationReturns == \A t \in Apps : th[t] # Idle ~> th[t] = Idle \/ Hopeless

(* A connection that is lost ends the client thread, so that the next open *)
(* finds one to join.                                                      *)
LossEndsThread ==
  ~cn.connected /\ th[Client] # Idle ~> th[Client] = Idle \/ Hopeless
=============================================================================
