--------------------------- MODULE ServingProofs ---------------------------
(***************************************************************************)
(* Proofs about what the client thread works with while it serves, for one *)
(* application thread and a client library that does not take up a lost    *)
(* session by itself: the entries of subscriptionMap are items the server  *)
(* has, a mark isMonitored has its entry, and an id responseHandler has    *)
(* looked up keeps its item.                                               *)
(*                                                                         *)
(* None of this holds in every state.  A client thread that was left a     *)
(* subscription to remove clears map and marks on its way out, and may do  *)
(* so between the server's answer to addMonitoredItems and its             *)
(* bookkeeping; the entry made then is stale until the thread is joined    *)
(* and the map cleared again.  What is inductive is therefore said of the  *)
(* current sessions only: those that are up and whose client thread has    *)
(* not ended unjoined.  The map is empty wherever a session becomes        *)
(* current.                                                                *)
(***************************************************************************)
EXTENDS OneApplicationProofs

(* The client thread has left its loop for good, and nobody joined it yet. *)
Ended(a) ==
  \/ th[Client].pc = "exitRun"
  \/ th[Client].pc = "idle" /\ (sm.thread \/ th[a].pc = "assign")

Current(a) == ~Ended(a) /\ cn.connected

NoEntries == DOMAIN subscriptionMap = {}

(* Places of thread a: it is about to create a subscription; it has closed *)
(* the session; it has cleared the map on the way to a new session or a    *)
(* new client thread; it is about to delete an item.                       *)
Creating(a) == th[a].pc \in {"createLock", "create"}

Away(a) == th[a].pc \in {"disconnected", "connectLock", "connect"}

Emptied(a) ==
  \/ th[a].pc \in {"connectLock", "connect", "joinReset", "lastRun", "joinLast"}
  \/ th[a].op = "open" /\ th[a].pc \in {"closeLock", "disconnect", "disconnected"}

Deleting(a) == th[a].pc \in {"unsubscribed", "unsubLock", "unsub"}

(* The map and the server, seen from the place of thread a.                *)
Served(a) ==
  /\ Current(a) => DOMAIN subscriptionMap \subseteq srv.items
  /\ Current(a) /\ ~sm.id => NoEntries
  /\ Current(a) /\ Creating(a) => NoEntries
  /\ Current(a) /\ th[a].pc = "added"
       => sm.id /\ th[a].id \in srv.items \ DOMAIN subscriptionMap
  /\ cn.connected /\ srv.sub => sm.id \/ th[a].pc = "created"
  /\ Away(a) => ~cn.connected /\ ~srv.sub
  /\ Emptied(a) => NoEntries
  /\ ~be.manager => items = <<>> /\ NoEntries
  /\ Deleting(a) => th[a].id \notin DOMAIN subscriptionMap

(* The callbacks run where client calls are made.                          *)
Places(a) ==
  /\ th[a].deact # "none" => th[a].pc # "added"
  /\ th[Client].pc \in {"idle", "loop", "iterLock", "iterate", "exitLock",
                        "exit", "exitRun"}
  /\ th[Client].deact # "none" => th[Client].pc \in {"iterate", "exit"}
  /\ handling[Client] # 0 => th[Client].pc \in {"iterate", "exit"}

-----------------------------------------------------------------------------
(* The thread of the application has no part in the client thread's        *)
(* callbacks, and comes to "added" by an answer of the server only.        *)
LEMMA AppPlaces ==
  ASSUME ThreadsOK, FlagsOK, NEW a \in Apps, Phase(a), ClientOK(a), Places(a),
         AppBegin(a) \/ AppStep(a)
  PROVE  /\ Places(a)' /\ handling' = handling
         /\ th'[a].pc = "added" => AddItem(a)
<1>0. /\ a \in Threads /\ Client \in Threads /\ a # Client
      /\ th \in [Threads -> Thread] /\ th[a] \in Thread
      /\ \A k : At(a, k) => th[a].pc = k /\ th[a].deact = "none"
  BY Typed DEF At
<1> DEFINE Goal == /\ Places(a)' /\ handling' = handling
                   /\ th'[a].pc = "added" => AddItem(a)
<1>1. ASSUME handling' = handling, th'[Client] = th[Client], th'[a].pc # "added"
      PROVE  Goal
  BY <1>1 DEF Places
<1>2. CASE \/ AcquireClientLock(a) \/ Join(a) \/ Start(a) \/ Assign(a)
           \/ ResetItems(a) \/ Connect(a) \/ FinishOpen(a) \/ StopLast(a)
           \/ CreateSubscription(a) \/ CreateRemove(a) \/ Create(a) \/ ActivateAll(a)
           \/ CreateFailed(a) \/ Unsubscribed(a) \/ DeleteItem(a) \/ RemoveLast(a)
           \/ TransferDone(a) \/ \E n \in Nodes : HandleError(a, n)
  <2>1. Done(a) \/ \E l : l # "added" /\ Goto(a, l)
    <3>1. CASE AcquireClientLock(a)
      <4>1. PICK l \in DOMAIN Section : Goto(a, Section[l])
        BY <3>1 DEF AcquireClientLock
      <4>2. Section[l] # "added"
        BY LabelFacts DEF Section
      <4> QED
        BY <4>1, <4>2
    <3>2. CASE Join(a)
      <4>1. \A l \in DOMAIN AfterJoin : AfterJoin[l] # "added"
        BY LabelFacts DEF AfterJoin
      <4> QED
        BY <3>2, <4>1 DEF Join
    <3>3. CASE ~AcquireClientLock(a) /\ ~Join(a)
      BY <1>2, <3>3, StartSucceeds DEF Start, ResetItems, Connect,
       FinishOpen, StopLast, CreateSubscription, CreateRemove, Create, ActivateAll,
       CreateFailed, Unsubscribed, DeleteItem, RemoveLast, TransferDone, HandleError
    <3> QED
      BY <3>1, <3>2, <3>3
  <2>2. th'[a].pc # "added" /\ th'[Client] = th[Client]
    BY <1>0, <2>1 DEF Goto, Done, Idle, Thread
  <2>3. handling' = handling
    <3>1. CASE CreateFailed(a)
      <4>1. OpFits("createFailed", th[a].op)
        BY <1>0, <3>1, OpAt DEF CreateFailed
      <4>2. UNCHANGED itemVars \/ Terminate \/ \E x : Abandon(x)
        BY <3>1, <4>1 DEF CreateFailed, OpFits
      <4> QED
        BY <4>2 DEF itemVars, Terminate, Abandon
    <3>2. CASE ~CreateFailed(a)
      <4>1. \/ UNCHANGED itemVars \/ ResetMonitoredItems
            \/ \E S : ActivateItems(S)
            \/ \E n : SetExternalError(n)
        BY <1>2, <3>2, StartSucceeds
        DEF AcquireClientLock, Join, Start, ResetItems, Connect,
            FinishOpen, StopLast, CreateSubscription, CreateRemove, Create,
           ActivateAll, Unsubscribed, DeleteItem, RemoveLast,
           TransferDone, HandleError, RemoveSubscription
      <4> QED
        BY <4>1 DEF itemVars, ResetMonitoredItems, ActivateItems, SetExternalError
    <3> QED
      BY <3>1, <3>2
  <2> QED
    BY <1>1, <2>2, <2>3
<1>3. CASE Spawn(a)
  <2>1. /\ th[Client] = Idle /\ UNCHANGED itemVars
        /\ th' = [th EXCEPT ![a].pc = "assign", ![Client].pc = "loop"]
        /\ th[a].deact = "none"
    BY <1>0, <1>3, StartSucceeds DEF Spawn
  <2>2. /\ th'[Client].pc = "loop" /\ th'[Client].deact = "none"
        /\ th'[a].pc = "assign" /\ th'[a].deact = "none"
        /\ th[Client].pc = "idle"
    BY <1>0, <2>1 DEF Idle, Thread
  <2>3. handling' = handling
    BY <2>1 DEF itemVars
  <2> QED
    BY <2>2, <2>3 DEF Places
<1>4. CASE ResetClient(a) \/ Disconnect(a)
  <2>1. /\ th'[Client] = th[Client] /\ handling' = handling
        /\ th'[a].pc # "added"
    BY <1>0, <1>4 DEF ResetClient, Disconnect, Disconnected, itemVars, Thread
  <2> QED
    BY <1>1, <2>1
<1>5. CASE AfterDisconnect(a)
  <2>1. At(a, "disconnected") /\ UNCHANGED itemVars
    BY <1>5 DEF AfterDisconnect
  <2>2. th[a].op \in {"open", "close", "transfer"}
    BY <1>0, <2>1, OpAt DEF OpFits
  <2>3. Done(a) \/ Goto(a, "connectLock") \/ SetException(a)
    BY <1>5, <2>2 DEF AfterDisconnect
  <2>4. th'[Client] = th[Client] /\ th'[a].pc # "added"
    BY <1>0, <2>3 DEF Goto, Done, SetException, Idle, Thread
  <2> QED
    BY <1>1, <2>1, <2>4 DEF itemVars
<1>6. CASE \/ Created(a) \/ ActivateAsync(a) \/ AddNext(a) \/ Subscribed(a)
           \/ AddItem(a) \/ Added(a) \/ AddFailed(a)
  <2>1. /\ th'[Client] = th[Client] /\ th'[a].deact = "none"
        /\ th'[a].pc = "added" => AddItem(a)
    <3>1. CASE AddNext(a) \/ Subscribed(a) \/ Created(a) \/ ActivateAsync(a)
      <4>1. \E l \in {"addLock", "opened", "start", "addNext", "createSub", "async",
                      "activateItems"} :
              \E i : th' = [th EXCEPT ![a].pc = l, ![a].idx = i]
        <5>1. CASE AddNext(a)
          BY <5>1, Zenon DEF AddNext
        <5>2. CASE Subscribed(a) \/ Created(a) \/ ActivateAsync(a)
          BY <5>2 DEF Subscribed, Created, ActivateAsync
        <5> QED
          BY <3>1, <5>1, <5>2
      <4>2. \E k : At(a, k)
        BY <3>1 DEF AddNext, Subscribed, Created, ActivateAsync
      <4> QED
        BY <1>0, <4>1, <4>2 DEF Thread
    <3>2. CASE AddItem(a)
      <4>1. Goto(a, "addFailed")
            \/ \E id : th' = [th EXCEPT ![a].pc = "added", ![a].id = id]
        BY <3>2 DEF AddItem
      <4>2. At(a, "addItem")
        BY <3>2 DEF AddItem
      <4>3. th'[Client] = th[Client] /\ th'[a].deact = "none"
        BY <1>0, <4>1, <4>2 DEF Goto, Thread
      <4> QED
        BY <3>2, <4>3
    <3>3. CASE Added(a) \/ AddFailed(a)
      BY <1>0, <3>3 DEF Added, AddFailed, Thread
    <3> QED
      BY <1>6, <3>1, <3>2, <3>3
  <2>2. handling' = handling
    <3>1. \/ UNCHANGED itemVars \/ HandleException
          \/ \E n, id : MonitorItem(n, id)
          \/ \E S : ActivateItems(S)
      BY <1>6 DEF Created, ActivateAsync, AddNext, Subscribed, AddItem, Added,
                  AddFailed
    <3> QED
      BY <3>1 DEF itemVars, HandleException, MonitorItem, ActivateItems
  <2> QED
    BY <2>1, <2>2 DEF Places
<1>7. CASE Open(a) \/ Close(a) \/ Activate(a) \/ Transfer(a)
  <2>1. th'[a].pc # "added" /\ th'[Client] = th[Client]
    BY <1>0, <1>7 DEF Open, Close, Activate, Transfer, Begin, Thread
  <2>2. handling' = handling
    BY <1>7 DEF Open, Close, Activate, Transfer, itemVars
  <2> QED
    BY <1>1, <2>1, <2>2
<1>8. ASSUME NEW x \in Accessors, Construct(a, x) \/ Destruct(a, x)
      PROVE  Goal
  <2>1. th'[a].pc # "added" /\ th'[Client] = th[Client]
    BY <1>0, <1>8 DEF Construct, Destruct, Begin, Thread
  <2>2. handling' = handling
    BY <1>8 DEF Construct, Destruct, SubscribeNew, SubscribeShared,
                SubscribeThrow, UnsubscribeShared, UnsubscribeLast
  <2> QED
    BY <1>1, <2>1, <2>2
<1>9. ASSUME NEW x \in Accessors, PopException(a, x)
      PROVE  Goal
  <2>1. th'[Client] = th[Client] /\ th'[a].pc = "idle"
    BY <1>0, <1>9 DEF PopException, SetException, Idle
  <2>2. handling' = handling
    BY <1>9 DEF PopException, Pop
  <2> QED
    BY <1>1, <2>1, <2>2
<1> QED
  BY <1>2, <1>3, <1>4, <1>5, <1>6, <1>7, <1>8, <1>9 DEF AppBegin, AppStep

(* The callbacks, the client thread and the environment stay in their      *)
(* places.                                                                 *)
LEMMA OtherPlaces ==
  ASSUME ItemsTypeOK, ThreadsOK, FlagsOK, NEW a \in Apps, Places(a),
         \/ ClientStep \/ Environment \/ UNCHANGED vars
         \/ \E t \in {a, Client} : Deactivate(t) \/ Callback(t)
         \/ \E x \in Accessors : PopValue(x)
  PROVE  /\ Places(a)'
         /\ th'[a].pc = th[a].pc /\ th'[a].id = th[a].id
         /\ handling'[Client] \in {0, handling[Client]} \/ DataCallback(Client)
<1>0. /\ a \in Threads /\ Client \in Threads /\ a # Client
      /\ th \in [Threads -> Thread] /\ th[a] \in Thread /\ th[Client] \in Thread
      /\ handling \in [Threads -> MonIds \cup {0}]
  BY Typed, ManagerAssumption DEF ItemsTypeOK
<1> DEFINE Goal == /\ Places(a)'
                   /\ th'[a].pc = th[a].pc /\ th'[a].id = th[a].id
                   /\ \/ handling'[Client] \in {0, handling[Client]}
                      \/ DataCallback(Client)
<1>1. CASE ClientStep
  <2>1. \E k : At(Client, k)
    BY <1>1 DEF ClientStep, AcquireClientLock, RunLoop, RunIterate, RunExit, RunEnd
  <2>2. th[Client].deact = "none" /\ handling[Client] = 0
    BY <2>1 DEF At
  <2>3. /\ th'[Client].deact = "none" /\ th'[a] = th[a]
        /\ th'[Client].pc \in {"idle", "loop", "iterLock", "iterate", "exitLock",
                               "exit", "exitRun"}
    <3>1. CASE AcquireClientLock(Client)
      <4>1. PICK l \in DOMAIN Section : At(Client, l) /\ Goto(Client, Section[l])
        BY <3>1 DEF AcquireClientLock
      <4>2. l \in {"iterLock", "exitLock"}
        BY <4>1, LabelFacts DEF At, Places
      <4> QED
        BY <1>0, <2>2, <4>1, <4>2 DEF Section, Goto, Thread
    <3>2. CASE RunLoop \/ RunIterate \/ RunExit \/ RunEnd
      BY <1>0, <2>2, <3>2 DEF RunLoop, RunIterate, RunExit, RunEnd, Goto, Done, Idle,
                              Thread
    <3> QED
      BY <1>1, <3>1, <3>2 DEF ClientStep
  <2>4. handling' = handling
    <3>1. UNCHANGED itemVars \/ ResetMonitoredItems
      BY <1>1 DEF ClientStep, AcquireClientLock, RunLoop, RunIterate, RunExit, RunEnd,
                  RemoveSubscription
    <3> QED
      BY <3>1 DEF itemVars, ResetMonitoredItems
  <2> QED
    BY <2>2, <2>3, <2>4 DEF Places
<1>2. CASE Environment \/ UNCHANGED vars \/ \E x \in Accessors : PopValue(x)
  <2>1. th' = th
    BY <1>2 DEF Environment, ValueChange, LoseLink, RestoreLink, PopValue,
                controlVars, vars
  <2>2. handling' = handling
    BY <1>2 DEF Environment, ValueChange, LoseLink, RestoreLink, PopValue, Pop, vars,
                itemVars
  <2> QED
    BY <2>1, <2>2 DEF Places
<1>3. ASSUME NEW t \in {a, Client}, Deactivate(t) PROVE Goal
  <2>1. /\ th[t].deact # "none"
        /\ \A u \in {a, Client} : th'[u].pc = th[u].pc /\ th'[u].id = th[u].id
        /\ \A u \in {a, Client} : u # t => th'[u] = th[u]
    BY <1>0, <1>3 DEF Deactivate, Deact, DeactivateException, DeactivateMapped,
        DeactivateRun, DeactivateSubscription, DeactivateLock, DeactivateRemove,
        DeactivateAsync, Thread
  <2>2. handling' = handling
    <3>1. \/ UNCHANGED itemVars \/ HandleException \/ DeactivateItems
          \/ ResetMonitoredItems
      BY <1>3 DEF Deactivate, DeactivateException, DeactivateMapped, DeactivateRun,
          DeactivateSubscription, DeactivateLock, DeactivateRemove, DeactivateAsync,
          RemoveSubscription
    <3> QED
      BY <3>1 DEF itemVars, HandleException, DeactivateItems, ResetMonitoredItems
  <2> QED
    BY <2>1, <2>2 DEF Places
<1>4. ASSUME NEW t \in {a, Client},
             StateCallback(t) \/ SessionReused(t) \/ InactivityCallback(t)
      PROVE  Goal
  <2>1. /\ \A u \in {a, Client} : th'[u].pc = th[u].pc /\ th'[u].id = th[u].id
        /\ \A u \in {a, Client} : u # t => th'[u] = th[u]
        /\ th[t].pc \in ClientCalls
    BY <1>0, <1>4 DEF StateCallback, Disconnected, SessionReused,
                      InactivityCallback, InCall, At, Thread
  <2>2. handling' = handling
    BY <1>4 DEF StateCallback, SessionReused, InactivityCallback, itemVars
  <2> QED
    BY <2>1, <2>2 DEF Places, ClientCalls
<1>5. ASSUME NEW t \in {a, Client}, DataCallback(t) \/ DataPush(t)
      PROVE  Goal
  <2>1. th' = th
    BY <1>5 DEF DataCallback, DataPush, controlVars
  <2>2. handling'[Client] # 0
          => \/ handling'[Client] = handling[Client]
             \/ DataCallback(Client) /\ th[Client].pc \in ClientCalls
    <3>1. CASE DataCallback(t)
      <4>1. /\ th[t].pc \in ClientCalls
            /\ UNCHANGED itemVars \/ \E id : CheckActive(t, id)
        BY <3>1 DEF DataCallback, InCall, At
      <4>2. CASE t = a
        BY <1>0, <4>1, <4>2 DEF CheckActive, itemVars
      <4> QED
        BY <3>1, <4>1, <4>2
    <3>2. CASE DataPush(t)
      BY <1>0, <3>2 DEF DataPush, PushValue, NullItem
    <3> QED
      BY <1>5, <3>1, <3>2
  <2> QED
    BY <2>1, <2>2 DEF Places, ClientCalls
<1> QED
  BY <1>1, <1>2, <1>3, <1>4, <1>5 DEF Callback

-----------------------------------------------------------------------------
(* What most steps leave alone: the map does not grow, the subscription,   *)
(* its items and the session stay, and no thread is joined.                *)
Untouched(a) ==
  /\ DOMAIN subscriptionMap' \subseteq DOMAIN subscriptionMap
  /\ sm'.id = sm.id /\ srv'.sub = srv.sub /\ srv'.items = srv.items
  /\ cn'.connected => cn.connected
  /\ Ended(a) => Ended(a)'
  /\ ~be'.manager => ~be.manager /\ items' = items

(* Thread a reaches none of the places from elsewhere, or finds there what *)
(* they ask for.                                                           *)
Onward(a) ==
  /\ Creating(a)' => Creating(a) \/ ~sm.id
  /\ th'[a].pc = "added" => th[a].pc = "added" /\ th'[a].id = th[a].id
  /\ th[a].pc = "created" => th'[a].pc = "created"
  /\ Away(a)' => Away(a)
  /\ Emptied(a)' => Emptied(a) \/ NoEntries
  /\ Deleting(a)' => th'[a].id \notin DOMAIN subscriptionMap'

(* What every step keeps: Served, and a session that becomes current finds *)
(* the map empty.                                                          *)
Kept(a) == Served(a)' /\ (Current(a)' => Current(a) \/ NoEntries')

(* Such steps keep it.                                                     *)
LEMMA UntouchedServed ==
  ASSUME NEW a, Served(a), Untouched(a), Onward(a)
  PROVE  Kept(a)
<1>1. Current(a)' => Current(a)
  BY DEF Current, Untouched
<1>2. NoEntries => NoEntries'
  BY DEF NoEntries, Untouched
<1>3. Current(a)' => DOMAIN subscriptionMap' \subseteq srv'.items
  BY <1>1 DEF Served, Untouched
<1>4. /\ Current(a)' /\ ~sm'.id => NoEntries'
      /\ Current(a)' /\ Creating(a)' => NoEntries'
  BY <1>1, <1>2 DEF Served, Untouched, Onward
<1>5. Current(a)' /\ th'[a].pc = "added"
        => sm'.id /\ th'[a].id \in srv'.items \ DOMAIN subscriptionMap'
  BY <1>1 DEF Served, Untouched, Onward
<1>6. /\ cn'.connected /\ srv'.sub => sm'.id \/ th'[a].pc = "created"
      /\ Away(a)' => ~cn'.connected /\ ~srv'.sub
  BY DEF Served, Untouched, Onward
<1>7. /\ Emptied(a)' => NoEntries'
      /\ ~be'.manager => items' = <<>> /\ NoEntries'
  BY <1>2 DEF Served, Untouched, Onward
<1>8. Deleting(a)' => th'[a].id \notin DOMAIN subscriptionMap'
  BY DEF Onward
<1> QED
  BY <1>1, <1>3, <1>4, <1>5, <1>6, <1>7, <1>8 DEF Served, Kept

(* Where thread a may go from label k in an operation op.                  *)
Route(k, l, op) ==
  /\ k \notin {"created", "assign"}
  /\ l \notin {"assign", "added", "disconnected", "joinReset", "lastRun",
               "closeLock", "unsubscribed"}
  /\ l = "createLock" => ~sm.id
  /\ l = "create" => k = "createLock"
  /\ l = "connectLock" => k = "disconnected" /\ op = "open"
  /\ l = "connect" => k = "connectLock"
  /\ l = "joinLast" => k = "lastRun"
  /\ l = "disconnect" => k = "closeLock" \/ op = "transfer"
  /\ l = "unsubLock" => k = "unsubscribed"
  /\ l = "unsub" => k = "unsubLock"

(* A step that leaves map, subscription and session alone.                 *)
Rest ==
  /\ DOMAIN subscriptionMap' \subseteq DOMAIN subscriptionMap /\ items' = items
  /\ sm'.id = sm.id /\ sm'.thread = sm.thread /\ be'.manager = be.manager
  /\ srv'.sub = srv.sub /\ srv'.items = srv.items
  /\ cn'.connected = cn.connected

(* Steps of thread a along a route.                                        *)
LEMMA RouteServed ==
  ASSUME ThreadsOK, FlagsOK, NEW a \in Apps, Served(a),
         NEW k, At(a, k), NEW l, NEW i,
         Route(k, l, th[a].op), Rest,
         \/ Done(a) \/ Goto(a, l)
         \/ th' = [th EXCEPT ![a].pc = l, ![a].idx = i]
  PROVE  Kept(a)
<1>0. /\ th[a].pc = k /\ a # Client /\ a \in Threads /\ Client \in Threads
      /\ th \in [Threads -> Thread] /\ th[a] \in Thread
  BY Typed DEF At
<1>1. th'[Client] = th[Client]
  BY <1>0 DEF Done, Goto
<1>2. \/ th'[a].pc = "idle" /\ th'[a].op = "none"
      \/ th'[a].pc = l /\ th'[a].op = th[a].op /\ th'[a].id = th[a].id
  BY <1>0 DEF Done, Goto, Idle, Thread
<1>3. Untouched(a)
  <2>1. Ended(a) => Ended(a)'
    BY <1>0, <1>1 DEF Ended, Route, Rest
  <2> QED
    BY <2>1 DEF Untouched, Rest
<1>4. Onward(a)
  <2>1. CASE th'[a].pc = "idle" /\ th'[a].op = "none"
    BY <1>0, <2>1 DEF Onward, Creating, Away, Emptied, Deleting, Route
  <2>2. CASE th'[a].pc = l /\ th'[a].op = th[a].op /\ th'[a].id = th[a].id
    <3>1. /\ Creating(a)' => Creating(a) \/ ~sm.id
          /\ th'[a].pc # "added" /\ th[a].pc # "created"
          /\ Away(a)' => Away(a)
      BY <1>0, <2>2 DEF Creating, Away, Route
    <3>2. Emptied(a)' => Emptied(a)
      BY <1>0, <2>2 DEF Emptied, Route
    <3>3. Deleting(a)' => Deleting(a)
      BY <1>0, <2>2 DEF Deleting, Route
    <3> QED
      BY <2>2, <3>1, <3>2, <3>3 DEF Onward, Served, Rest
  <2> QED
    BY <1>2, <2>1, <2>2
<1> QED
  BY <1>3, <1>4, UntouchedServed

(* A step that leaves the map empty.                                       *)
LEMMA EmptyServed ==
  ASSUME NEW a, Served(a), NoEntries', th'[a].pc # "added",
         cn'.connected /\ srv'.sub => sm'.id \/ th'[a].pc = "created",
         Away(a)' => ~cn'.connected /\ ~srv'.sub,
         ~be'.manager => items' = <<>>
  PROVE  Kept(a)
BY DEF Served, NoEntries, Kept

(* What resetMonitoredItems and the removal of a subscription leave.       *)
LEMMA ResetEmpties ==
  ASSUME ResetMonitoredItems
  PROVE  NoEntries' /\ items' = items
BY InitialMap DEF ResetMonitoredItems, NoEntries

(* A removal over a working session leaves no subscription.                *)
LEMMA RemovalEmpties ==
  ASSUME FlagsOK, Failed,
         \/ RemoveSubscription(Removed)
         \/ RemoveSubscription([Removed EXCEPT !.remove = FALSE])
  PROVE  /\ NoEntries' /\ items' = items
         /\ cn.connected => ~srv'.sub
         /\ srv'.sub => srv.sub
         /\ ~sm'.id /\ sm'.thread = sm.thread
<1>1. NoEntries' /\ items' = items
  BY ResetEmpties DEF RemoveSubscription
<1>2. (cn.connected => ~srv'.sub) /\ (srv'.sub => srv.sub)
  BY DEF RemoveSubscription, Failed, Good, NoSubscription, FlagsOK, Server
<1>3. ~sm'.id /\ sm'.thread = sm.thread
  BY DEF RemoveSubscription, Removed, FlagsOK, Flags
<1> QED
  BY <1>1, <1>2, <1>3

-----------------------------------------------------------------------------
(* An operation begins, or the exception state is entered.                 *)
LEMMA BeginServed ==
  ASSUME ThreadsOK, FlagsOK, NEW a \in Apps, Served(a),
         th[a].pc \in {"idle", "disconnected"}, th'[Client] = th[Client],
         th'[a].pc \in {"idle", "joinOpen", "reset", "async", "createSub", "readLock",
                        "subscribed", "start"}
           \/ (th'[a].pc = "unsubscribed" /\ th'[a].id \notin DOMAIN subscriptionMap'),
         DOMAIN subscriptionMap' \subseteq DOMAIN subscriptionMap,
         ~be'.manager => ~be.manager /\ items' = items,
         sm'.id = sm.id, sm'.thread = sm.thread,
         srv' = srv, cn'.connected = cn.connected
  PROVE  Kept(a)
<1>1. Untouched(a)
  BY DEF Untouched, Ended
<1>2. Onward(a)
  BY DEF Onward, Creating, Away, Emptied, Deleting
<1> QED
  BY <1>1, <1>2, UntouchedServed

(* The beginnings of the operations.                                       *)
LEMMA BeginsServed ==
  ASSUME ItemsTypeOK, ThreadsOK, FlagsOK, NEW a \in Apps, Served(a), AppBegin(a)
  PROVE  Kept(a)
<1>0. /\ a \in Threads /\ Client \in Threads /\ a # Client
      /\ th \in [Threads -> Thread] /\ th[a] \in Thread /\ be \in Backend
      /\ sm \in Flags /\ \A k : At(a, k) => th[a].pc = k
  BY Typed DEF At
<1>1. CASE Open(a) \/ Close(a) \/ Activate(a) \/ Transfer(a)
  <2>1. /\ th[a].pc = "idle" /\ th'[Client] = th[Client]
        /\ th'[a].pc \in {"idle", "joinOpen", "reset", "async", "createSub", "readLock"}
    BY <1>0, <1>1 DEF Open, Close, Activate, Transfer, Begin, Thread
  <2>2. be'.manager \/ be'.manager = be.manager
    BY <1>0, <1>1 DEF Open, Close, Activate, Transfer, Opened, Backend
  <2>3. /\ UNCHANGED itemVars /\ sm' = sm /\ srv' = srv /\ cn' = cn
    BY <1>1 DEF Open, Close, Activate, Transfer
  <2> QED
    BY <2>1, <2>2, <2>3, BeginServed DEF itemVars
<1>2. ASSUME NEW x \in Accessors, Construct(a, x) PROVE Kept(a)
  <2>1. /\ th[a].pc = "idle" /\ th'[Client] = th[Client]
        /\ th'[a].pc \in {"subscribed", "start", "idle"}
    BY <1>0, <1>2 DEF Construct, Begin, Thread
  <2>2. /\ be'.manager /\ subscriptionMap' = subscriptionMap
        /\ sm'.id = sm.id /\ sm'.thread = sm.thread /\ srv' = srv /\ cn' = cn
    BY <1>0, <1>2 DEF Construct, SubscribeNew, SubscribeShared, SubscribeThrow,
                      Backend, Flags
  <2> QED
    BY <2>1, <2>2, BeginServed
<1>3. ASSUME NEW x \in Accessors, Destruct(a, x) PROVE Kept(a)
  <2>1. /\ th[a].pc = "idle" /\ sm' = sm /\ srv' = srv /\ cn' = cn /\ be' = be
    BY <1>0, <1>3 DEF Destruct
  <2>2. be.manager
    <3>1. Listed(NodeOf[x])
      BY <1>3 DEF Destruct, UnsubscribeShared, UnsubscribeLast
    <3>2. items # <<>>
      BY <3>1 DEF Listed, ToSet
    <3> QED
      BY <3>2 DEF Served
  <2>3. CASE UnsubscribeShared(x) /\ UNCHANGED th
    BY <2>1, <2>2, <2>3, BeginServed DEF UnsubscribeShared
  <2>4. CASE ~(UnsubscribeShared(x) /\ UNCHANGED th)
    <3> DEFINE id == item[NodeOf[x]].id
    <3>1. /\ DOMAIN subscriptionMap' = DOMAIN subscriptionMap \ {id}
          /\ \/ th' = th
             \/ th' = [th EXCEPT ![a].op = "destruct", ![a].pc = "unsubscribed",
                                 ![a].id = id]
      BY <1>3, <2>4 DEF Destruct, UnsubscribeLast
    <3>2. CASE th' = th
      BY <2>1, <2>2, <3>1, <3>2, BeginServed
    <3>3. CASE th' = [th EXCEPT ![a].op = "destruct", ![a].pc = "unsubscribed",
                                ![a].id = id]
      <4>1. /\ th'[Client] = th[Client] /\ th'[a].pc = "unsubscribed"
            /\ th'[a].id = id
        BY <1>0, <3>3 DEF Thread
      <4> QED
        BY <2>1, <2>2, <3>1, <4>1, BeginServed
    <3> QED
      BY <3>1, <3>2, <3>3
  <2> QED
    BY <2>3, <2>4
<1>4. ASSUME NEW x \in Accessors, PopException(a, x) PROVE Kept(a)
  <2>1. /\ th[a].pc = "idle" /\ th'[Client] = th[Client] /\ th'[a].pc = "idle"
        /\ be'.manager = be.manager
    BY <1>0, <1>4 DEF PopException, SetException, Idle, Backend
  <2>2. /\ sm' = sm /\ srv' = srv /\ cn' = cn /\ items' = items
        /\ subscriptionMap' = subscriptionMap
    BY <1>4 DEF PopException, Pop
  <2> QED
    BY <2>1, <2>2, BeginServed
<1> QED
  BY <1>1, <1>2, <1>3, <1>4 DEF AppBegin

-----------------------------------------------------------------------------
(* The steps of an operation that leave map and subscription alone.        *)
LEMMA PlainServed ==
  ASSUME ItemsTypeOK, ThreadsOK, FlagsOK, NEW a \in Apps, Phase(a), Served(a),
         \/ AcquireClientLock(a) \/ Start(a) \/ FinishOpen(a) \/ CreateSubscription(a)
         \/ CreateFailed(a) \/ ActivateAsync(a) \/ ActivateAll(a) \/ AddNext(a)
         \/ AddFailed(a) \/ Subscribed(a) \/ Unsubscribed(a) \/ StopLast(a)
         \/ TransferDone(a) \/ \E n \in Nodes : HandleError(a, n)
  PROVE  Kept(a)
<1>0. /\ a \in Threads /\ th \in [Threads -> Thread] /\ sm \in Flags
      /\ be \in Backend /\ cn \in Connection
      /\ \A k : At(a, k) => OpFits(k, th[a].op)
  BY Typed, OpAt
<1>1. CASE AcquireClientLock(a)
  <2>1. PICK k \in DOMAIN Section : At(a, k) /\ Goto(a, Section[k])
    BY <1>1 DEF AcquireClientLock
  <2>2. Rest
    BY <1>0, <1>1 DEF AcquireClientLock, Rest, Connection, itemVars
  <2>3. Route(k, Section[k], th[a].op)
    BY LabelFacts DEF Section, Route
  <2> HIDE DEF Section
  <2> QED
    BY <2>1, <2>2, <2>3, RouteServed
<1>2. CASE Start(a) \/ FinishOpen(a) \/ CreateSubscription(a) \/ ActivateAll(a)
           \/ Unsubscribed(a) \/ StopLast(a)
  <2>1. PICK k \in {"start", "opened", "createSub", "activateItems", "unsubscribed",
                    "lastRun"},
             l \in {"spawn", "createRemove", "createLock", "start", "unsubLock",
                    "joinLast"} :
          /\ At(a, k) /\ (Done(a) \/ Goto(a, l))
          /\ l = "createLock" => ~sm.id
          /\ l = "joinLast" => k = "lastRun"
          /\ l = "unsubLock" => k = "unsubscribed"
    BY <1>2 DEF Start, FinishOpen, CreateSubscription, ActivateAll, Unsubscribed,
                StopLast
  <2>2. Rest
    BY <1>0, <1>2 DEF Start, FinishOpen, CreateSubscription, ActivateAll, Unsubscribed,
       StopLast, ActivateItems, Rest, Flags, Backend, Opened, itemVars
  <2>3. Route(k, l, th[a].op)
    BY <2>1 DEF Route
  <2> QED
    BY <2>1, <2>2, <2>3, RouteServed
<1>3. CASE CreateFailed(a)
  <2>1. At(a, "createFailed") /\ Done(a) /\ OpFits("createFailed", th[a].op)
    BY <1>0, <1>3 DEF CreateFailed
  <2>2. UNCHANGED itemVars \/ Terminate \/ \E x : Abandon(x)
    BY <1>3, <2>1 DEF CreateFailed, OpFits
  <2>3. Rest
    BY <1>3, <2>2 DEF CreateFailed, Rest, itemVars, Terminate, Abandon
  <2>4. Route("createFailed", "idle", th[a].op)
    BY DEF Route
  <2> QED
    BY <2>1, <2>3, <2>4, RouteServed
<1>4. CASE ActivateAsync(a) \/ Subscribed(a)
  <2>1. PICK k \in {"async", "subscribed"},
             l \in {"addNext", "activateItems", "start", "createSub"} :
          At(a, k) /\ th' = [th EXCEPT ![a].pc = l, ![a].idx = 1]
    BY <1>4 DEF ActivateAsync, Subscribed
  <2>2. Rest
    BY <1>0, <1>4 DEF ActivateAsync, Subscribed, Rest, Flags, itemVars
  <2>3. Route(k, l, th[a].op)
    BY DEF Route
  <2> QED
    BY <2>1, <2>2, <2>3, RouteServed
<1>5. CASE AddNext(a)
  <2>1. At(a, "addNext")
        /\ \E l \in {"addLock", "opened", "start"} : \E i :
             th' = [th EXCEPT ![a].pc = l, ![a].idx = i]
    BY <1>5, Zenon DEF AddNext
  <2>2. PICK l \in {"addLock", "opened", "start"} :
          \E i : th' = [th EXCEPT ![a].pc = l, ![a].idx = i]
    BY <2>1
  <2>3. Rest
    <3>1. UNCHANGED itemVars \/ \E S : ActivateItems(S)
      BY <1>5 DEF AddNext
    <3>2. UNCHANGED <<sm, be, cn, srv>>
      BY <1>5 DEF AddNext
    <3> QED
      BY <3>1, <3>2 DEF Rest, itemVars, ActivateItems
  <2>4. Route("addNext", l, th[a].op)
    BY DEF Route
  <2> QED
    BY <2>1, <2>2, <2>3, <2>4, RouteServed
<1>6. CASE AddFailed(a)
  <2>1. At(a, "addFailed")
        /\ th' = [th EXCEPT ![a].pc = "addNext", ![a].idx = th[a].idx + 1]
    BY <1>0, <1>6 DEF AddFailed
  <2>2. Rest
    BY <1>6 DEF AddFailed, HandleException, Rest
  <2>3. Route("addFailed", "addNext", th[a].op)
    BY DEF Route
  <2> QED
    BY <2>1, <2>2, <2>3, RouteServed
<1>7. CASE TransferDone(a) \/ \E n \in Nodes : HandleError(a, n)
  <2>1. PICK k \in {"read", "readError"}, l \in {"readError", "disconnect"} :
          At(a, k) /\ (Done(a) \/ Goto(a, l))
    BY <1>7 DEF TransferDone, HandleError
  <2>2. Rest
    BY <1>0, <1>7 DEF TransferDone, HandleError, SetExternalError, Rest, Unlock,
                      Connection, itemVars
  <2>3. Route(k, l, th[a].op)
    BY <1>0, <2>1 DEF Route, OpFits
  <2> QED
    BY <2>1, <2>2, <2>3, RouteServed
<1> QED
  BY <1>1, <1>2, <1>3, <1>4, <1>5, <1>6, <1>7

(* The handle of the client thread, and the way through open and close.    *)
LEMMA LifecycleServed ==
  ASSUME ItemsTypeOK, ThreadsOK, FlagsOK, ~Reconnects,
         NEW a \in Apps, Phase(a), ClientOK(a), Served(a),
         \/ Join(a) \/ Spawn(a) \/ Assign(a) \/ ResetClient(a) \/ ResetItems(a)
         \/ Disconnect(a) \/ AfterDisconnect(a) \/ Connect(a)
  PROVE  Kept(a)
<1>0. /\ a \in Threads /\ Client \in Threads /\ a # Client
      /\ th \in [Threads -> Thread] /\ th[a] \in Thread /\ sm \in Flags
      /\ be \in Backend /\ cn \in Connection /\ srv \in Server
      /\ \A k : At(a, k) => th[a].pc = k /\ OpFits(k, th[a].op)
  BY Typed, OpAt DEF At, FlagsOK
<1>1. CASE Join(a)
  <2>1. PICK l \in DOMAIN AfterJoin :
          /\ At(a, l)
          /\ IF AfterJoin[l] = "idle" THEN Done(a) ELSE Goto(a, AfterJoin[l])
    BY <1>1 DEF Join
  <2>2. /\ items' = items /\ subscriptionMap' = subscriptionMap
        /\ be' = be /\ cn' = cn /\ srv' = srv /\ sm'.id = sm.id
    BY <1>0, <1>1 DEF Join, itemVars, Flags
  <2>3. th'[a].pc \in {"reset", "closeLock", "idle"}
    BY <1>0, <2>1, LabelFacts DEF AfterJoin, Goto, Done, Idle, Thread
  <2>4. CASE l = "joinOpen"
    <3>1. ~cn.connected /\ th'[a].pc = "reset"
      BY <1>0, <2>1, <2>4 DEF Phase, AfterJoin, Goto, Thread
    <3> QED
      BY <2>2, <3>1
         DEF Kept, Served, Current, Creating, Away, Emptied, Deleting, NoEntries
  <2>5. CASE l # "joinOpen"
    <3>1. NoEntries
      BY <1>0, <2>1, <2>5, LabelFacts DEF Served, Emptied
    <3>2. ~be'.manager => items' = <<>>
      BY <2>2 DEF Served
    <3>3. cn'.connected /\ srv'.sub => sm'.id
      BY <1>0, <2>1, <2>2, LabelFacts DEF Served
    <3> QED
      BY <2>2, <2>3, <3>1, <3>2, <3>3, EmptyServed DEF NoEntries, Away
  <2> QED
    BY <2>4, <2>5
<1>2. CASE Spawn(a)
  <2>1. /\ th[a].pc = "spawn" /\ th[Client].pc = "idle"
        /\ th'[a].pc = "assign" /\ th'[Client].pc = "loop"
    BY <1>0, <1>2, StartSucceeds DEF Spawn, Idle, Thread
  <2>2. ~Ended(a)
    BY <2>1 DEF Ended, Phase
  <2>3. Untouched(a)
    BY <1>2, <2>2, StartSucceeds DEF Spawn, Untouched, itemVars
  <2>4. Onward(a)
    BY <2>1 DEF Onward, Creating, Away, Emptied, Deleting
  <2> QED
    BY <2>3, <2>4, UntouchedServed
<1>3. CASE Assign(a)
  <2>1. /\ th[a].pc = "assign" /\ th'[a].pc = "idle" /\ th'[Client] = th[Client]
        /\ sm'.thread = TRUE /\ sm'.id = sm.id
    BY <1>0, <1>3, StartSucceeds DEF Assign, Done, Idle, Thread, Flags
  <2>2. Untouched(a)
    BY <1>3, <2>1, StartSucceeds DEF Assign, Untouched, Ended, itemVars
  <2>3. Onward(a)
    BY <2>1 DEF Onward, Creating, Away, Emptied, Deleting
  <2> QED
    BY <2>2, <2>3, UntouchedServed
<1>4. CASE ResetClient(a)
  <2>1. /\ th[a].pc = "reset" /\ th'[Client] = th[Client]
        /\ th'[a].pc = IF be.manager THEN "resetItems" ELSE "closeLock"
    BY <1>0, <1>4 DEF ResetClient, Thread
  <2>2. Untouched(a)
    BY <1>4, <2>1 DEF ResetClient, Untouched, Ended, itemVars
  <2>3. Onward(a)
    BY <2>1 DEF Onward, Creating, Away, Emptied, Deleting, Served
  <2> QED
    BY <2>2, <2>3, UntouchedServed
<1>5. CASE ResetItems(a)
  <2>1. /\ NoEntries' /\ items' = items
    BY <1>5, ResetEmpties DEF ResetItems
  <2>2. /\ th'[a].pc = "joinReset" /\ th[a].pc = "resetItems"
        /\ sm' = sm /\ be' = be /\ cn' = cn /\ srv' = srv
    BY <1>0, <1>5 DEF ResetItems, Goto, Thread
  <2> QED
    BY <2>1, <2>2, EmptyServed DEF Served, Away
<1>6. CASE Disconnect(a)
  <2>1. /\ th[a].pc = "disconnect" /\ th'[a].pc = "disconnected"
        /\ th'[a].op = th[a].op
    BY <1>0, <1>6 DEF Disconnect, Disconnected, Thread
  <2>2. ~cn'.connected
    BY <1>0, <1>6 DEF Disconnect, Disconnected, Connection
  <2>3. ~srv'.sub
    BY <1>0, <1>6 DEF Disconnect, NoSubscription, Server
  <2>4. items' = items /\ subscriptionMap' = subscriptionMap /\ be' = be
    BY <1>6 DEF Disconnect, itemVars
  <2>5. Emptied(a)' => NoEntries'
    BY <2>1, <2>4 DEF Emptied, Served, NoEntries
  <2> QED
    BY <2>1, <2>2, <2>3, <2>4, <2>5
       DEF Kept, Served, Current, Creating, Away, Deleting, NoEntries
<1>7. CASE AfterDisconnect(a)
  <2>1. At(a, "disconnected") /\ th[a].op \in {"open", "close", "transfer"}
    BY <1>0, <1>7 DEF AfterDisconnect, OpFits
  <2>2. /\ UNCHANGED itemVars /\ sm' = sm /\ srv' = srv
        /\ cn'.connected = cn.connected
    BY <1>0, <1>7 DEF AfterDisconnect, Unlock, Connection
  <2>3. CASE SetException(a)
    <3>1. /\ th'[Client] = th[Client] /\ th'[a].pc = "idle"
          /\ be'.manager = be.manager
      BY <1>0, <2>3 DEF SetException, Idle, Backend
    <3> QED
      BY <1>0, <2>1, <2>2, <3>1, BeginServed DEF itemVars
  <2>4. CASE ~SetException(a)
    <3>1. /\ be' = be
          /\ Done(a) \/ (Goto(a, "connectLock") /\ th[a].op = "open")
      BY <1>7, <2>1, <2>4 DEF AfterDisconnect
    <3>2. Rest
      BY <2>2, <3>1 DEF Rest, itemVars
    <3>3. CASE Done(a)
      <4>1. Route("disconnected", "idle", th[a].op)
        BY DEF Route
      <4> QED
        BY <2>1, <3>2, <3>3, <4>1, RouteServed
    <3>4. CASE Goto(a, "connectLock") /\ th[a].op = "open"
      <4>1. Route("disconnected", "connectLock", th[a].op)
        BY <3>4 DEF Route
      <4> QED
        BY <2>1, <3>2, <3>4, <4>1, RouteServed
    <3> QED
      BY <3>1, <3>3, <3>4
  <2> QED
    BY <2>3, <2>4
<1>8. CASE Connect(a)
  <2>1. /\ At(a, "connect") /\ UNCHANGED itemVars
        /\ sm' = sm /\ be' = be /\ srv' = srv
    BY <1>8 DEF Connect
  <2>2. NoEntries /\ ~srv.sub /\ (~be.manager => items = <<>>)
    BY <1>0, <2>1 DEF Served, Emptied, Away
  <2>3. th'[a].pc \in {"createSub", "opened", "idle"}
    BY <1>0, <1>8 DEF Connect, Goto, Done, Idle, Thread
  <2> QED
    BY <2>1, <2>2, <2>3, EmptyServed DEF NoEntries, Away, itemVars
<1> QED
  BY <1>1, <1>2, <1>3, <1>4, <1>5, <1>6, <1>7, <1>8

(* The subscription and its items.                                         *)
LEMMA SubscriptionServed ==
  ASSUME ItemsTypeOK, ThreadsOK, FlagsOK, NEW a \in Apps, Served(a),
         \/ CreateRemove(a) \/ Create(a) \/ Created(a) \/ AddItem(a) \/ Added(a)
         \/ DeleteItem(a) \/ RemoveLast(a)
  PROVE  Kept(a)
<1>0. /\ a \in Threads /\ Client \in Threads /\ a # Client
      /\ th \in [Threads -> Thread] /\ th[a] \in Thread /\ sm \in Flags
      /\ be \in Backend /\ cn \in Connection /\ srv \in Server
      /\ \A k : At(a, k) => th[a].pc = k
  BY Typed DEF At, FlagsOK
<1>1. CASE CreateRemove(a) \/ RemoveLast(a)
  <2>1. Failed /\ RemoveSubscription(Removed) /\ be' = be
    BY <1>1 DEF CreateRemove, RemoveLast
  <2>2. /\ th'[a].pc \in {"createLock", "lastRun"}
        /\ cn'.connected = cn.connected
    BY <1>0, <1>1 DEF CreateRemove, RemoveLast, Goto, Unlock, Thread, Connection
  <2>3. NoEntries' /\ items' = items /\ (cn.connected => ~srv'.sub)
    BY <2>1, RemovalEmpties
  <2> QED
    BY <2>1, <2>2, <2>3, EmptyServed DEF Served, Away
<1>2. CASE Create(a)
  <2>1. /\ At(a, "create") /\ UNCHANGED itemVars /\ sm' = sm /\ be' = be
        /\ cn'.connected = cn.connected
    BY <1>0, <1>2 DEF Create, Unlock, Connection
  <2>2. CASE Goto(a, "createFailed") /\ UNCHANGED srv
    <3>1. Rest /\ Route("create", "createFailed", th[a].op)
      BY <2>1, <2>2 DEF Rest, Route, itemVars
    <3> QED
      BY <2>1, <2>2, <3>1, RouteServed
  <2>3. CASE ~(Goto(a, "createFailed") /\ UNCHANGED srv)
    <3>1. Goto(a, "created")
      BY <1>2, <2>3 DEF Create
    <3>2. /\ th'[a].pc = "created" /\ th[a].pc = "create" /\ th'[Client] = th[Client]
      BY <1>0, <2>1, <3>1 DEF Goto, Thread
    <3>3. Current(a)' => Current(a)
      BY <2>1, <3>2 DEF Current, Ended
    <3>4. Current(a)' => NoEntries'
      BY <2>1, <3>2, <3>3 DEF Served, Creating, NoEntries, itemVars
    <3>5. ~be'.manager => items' = <<>> /\ NoEntries'
      BY <2>1 DEF Served, NoEntries, itemVars
    <3> QED
      BY <3>2, <3>4, <3>5 DEF Kept, Served, Away, Emptied, Deleting, NoEntries
  <2> QED
    BY <2>2, <2>3
<1>3. CASE Created(a)
  <2>1. /\ th[a].pc = "created" /\ th'[Client] = th[Client]
        /\ th'[a].pc \in {"async", "addNext"}
    <3>1. PICK l \in {"async", "addNext"} : th' = [th EXCEPT ![a].pc = l, ![a].idx = 1]
      BY <1>3 DEF Created
    <3> QED
      BY <1>0, <1>3, <3>1 DEF Created, Thread
  <2>2. /\ UNCHANGED itemVars /\ be' = be /\ cn' = cn /\ srv' = srv
        /\ sm'.id /\ sm'.thread = sm.thread
    BY <1>0, <1>3 DEF Created, Flags
  <2>3. Current(a)' => Current(a)
    BY <2>1, <2>2 DEF Current, Ended
  <2>4. /\ Current(a)' => DOMAIN subscriptionMap' \subseteq srv'.items
        /\ ~be'.manager => items' = <<>> /\ NoEntries'
    BY <2>2, <2>3 DEF Served, NoEntries, itemVars
  <2> QED
    BY <2>1, <2>2, <2>3, <2>4 DEF Kept, Served, Creating, Away, Emptied, Deleting
<1>4. CASE AddItem(a)
  <2>1. /\ At(a, "addItem") /\ UNCHANGED itemVars /\ sm' = sm /\ be' = be
        /\ cn'.connected = cn.connected
    BY <1>0, <1>4 DEF AddItem, Unlock, Connection
  <2>2. CASE Goto(a, "addFailed") /\ UNCHANGED srv
    <3>1. Rest /\ Route("addItem", "addFailed", th[a].op)
      BY <2>1, <2>2 DEF Rest, Route, itemVars
    <3> QED
      BY <2>1, <2>2, <3>1, RouteServed
  <2>3. CASE ~(Goto(a, "addFailed") /\ UNCHANGED srv)
    <3>1. PICK id \in MonIds \ srv.items :
            /\ srv.sub
            /\ srv' = [srv EXCEPT !.items = srv.items \cup {id},
                                  !.pending = srv.pending \cup {id}]
            /\ th' = [th EXCEPT ![a].pc = "added", ![a].id = id]
      BY <1>4, <2>3 DEF AddItem
    <3>2. /\ th[a].pc = "addItem" /\ th'[a].pc = "added" /\ th'[a].id = id
          /\ th'[Client] = th[Client]
      BY <1>0, <2>1, <3>1 DEF Thread
    <3>3. srv'.items = srv.items \cup {id} /\ srv'.sub = srv.sub
      BY <1>0, <3>1 DEF Server
    <3>4. Current(a)' => Current(a)
      BY <2>1, <3>2 DEF Current, Ended
    <3>5. Current(a) => sm.id /\ id \notin DOMAIN subscriptionMap
      BY <3>1, <3>2 DEF Served, Current
    <3>6. /\ Current(a)' => DOMAIN subscriptionMap' \subseteq srv'.items
          /\ Current(a)' => sm'.id /\ th'[a].id \in srv'.items \ DOMAIN subscriptionMap'
      BY <2>1, <3>2, <3>3, <3>4, <3>5 DEF Served, itemVars
    <3>7. /\ cn'.connected /\ srv'.sub => sm'.id
          /\ ~be'.manager => items' = <<>> /\ NoEntries'
      BY <2>1, <3>2, <3>3 DEF Served, NoEntries, itemVars
    <3> QED
      BY <3>2, <3>4, <3>6, <3>7 DEF Kept, Served, Creating, Away, Emptied, Deleting
  <2> QED
    BY <2>2, <2>3
<1>5. CASE Added(a)
  <2>1. /\ th[a].pc = "added" /\ th'[a].pc = "addNext" /\ th'[Client] = th[Client]
        /\ sm' = sm /\ be' = be /\ cn' = cn /\ srv' = srv
    BY <1>0, <1>5 DEF Added, Thread
  <2>2. /\ DOMAIN subscriptionMap' = DOMAIN subscriptionMap \cup {th[a].id}
        /\ Listed(items[th[a].idx])
    BY <1>5 DEF Added, MonitorItem
  <2>3. be.manager
    BY <2>2 DEF Listed, ToSet, Served
  <2>4. Current(a)' => Current(a)
    BY <2>1 DEF Current, Ended
  <2>5. Current(a)' => sm'.id /\ DOMAIN subscriptionMap' \subseteq srv'.items
    BY <2>1, <2>2, <2>4 DEF Served
  <2>6. cn'.connected /\ srv'.sub => sm'.id
    BY <2>1 DEF Served
  <2> QED
    BY <2>1, <2>3, <2>4, <2>5, <2>6 DEF Kept, Served, Creating, Away, Emptied, Deleting
<1>6. CASE DeleteItem(a)
  <2>1. /\ th[a].pc = "unsub" /\ th'[a].pc \in {"lastLock", "idle"}
        /\ th'[Client] = th[Client]
    BY <1>0, <1>6 DEF DeleteItem, Goto, Done, Idle, Thread
  <2>2. /\ UNCHANGED itemVars /\ sm' = sm /\ be' = be
        /\ cn'.connected = cn.connected
        /\ srv'.sub = srv.sub /\ srv.items \ {th[a].id} \subseteq srv'.items
    BY <1>0, <1>6 DEF DeleteItem, Unlock, Connection, Server
  <2>3. Current(a)' => Current(a)
    BY <2>1, <2>2 DEF Current, Ended
  <2>4. Current(a)' => DOMAIN subscriptionMap' \subseteq srv'.items
    BY <2>1, <2>2, <2>3 DEF Served, Deleting, itemVars
  <2>5. /\ Current(a)' /\ ~sm'.id => NoEntries'
        /\ ~be'.manager => items' = <<>> /\ NoEntries'
        /\ cn'.connected /\ srv'.sub => sm'.id
    BY <2>1, <2>2, <2>3 DEF Served, NoEntries, itemVars
  <2> QED
    BY <2>1, <2>3, <2>4, <2>5 DEF Kept, Served, Creating, Away, Emptied, Deleting
<1> QED
  BY <1>1, <1>2, <1>3, <1>4, <1>5, <1>6

-----------------------------------------------------------------------------
(* Steps beside thread a.                                                  *)
LEMMA AsideServed ==
  ASSUME NEW a, Served(a), Untouched(a),
         th'[a].pc = th[a].pc, th'[a].op = th[a].op, th'[a].id = th[a].id
  PROVE  Kept(a)
<1>1. Onward(a)
  BY DEF Onward, Creating, Away, Emptied, Deleting, Served, Untouched
<1> QED
  BY <1>1, UntouchedServed

(* The client thread, deactivate, the callbacks and the environment.       *)
LEMMA OthersServed ==
  ASSUME ItemsTypeOK, ThreadsOK, FlagsOK, ~Reconnects, NEW a, Apps = {a},
         ClientOK(a), Served(a), Places(a),
         \/ ClientStep \/ Environment \/ UNCHANGED vars
         \/ \E t \in {a, Client} : Deactivate(t) \/ Callback(t)
         \/ \E x \in Accessors : PopValue(x)
  PROVE  Kept(a)
<1>0. /\ a \in Apps /\ a \in Threads /\ Client \in Threads /\ a # Client
      /\ th \in [Threads -> Thread] /\ th[a] \in Thread /\ th[Client] \in Thread
      /\ sm \in Flags /\ be \in Backend /\ cn \in Connection /\ srv \in Server
      /\ \A k : At(Client, k) => th[Client].pc = k
  BY Typed DEF At, FlagsOK
<1>1. CASE AcquireClientLock(Client) \/ RunLoop \/ RunIterate
  <2>1. th[Client].pc \in {"loop", "iterLock", "iterate", "exitLock", "exit"}
    BY <1>0, <1>1, LabelFacts DEF AcquireClientLock, RunLoop, RunIterate, Places
  <2>2. th'[a] = th[a]
    BY <1>0, <1>1 DEF AcquireClientLock, RunLoop, RunIterate, Goto
  <2>3. /\ UNCHANGED itemVars /\ sm' = sm /\ be' = be /\ srv' = srv
        /\ cn'.connected = cn.connected
    BY <1>0, <1>1 DEF AcquireClientLock, RunLoop, RunIterate, Unlock, Connection
  <2>4. Untouched(a)
    BY <2>1, <2>3 DEF Untouched, Ended, itemVars
  <2> QED
    BY <2>2, <2>4, AsideServed
<1>2. CASE RunExit
  <2>1. /\ th'[Client].pc = "exitRun" /\ th'[a] = th[a] /\ be' = be
        /\ cn'.connected = cn.connected
    BY <1>0, <1>2 DEF RunExit, Goto, Unlock, Thread, Connection
  <2>2. CASE ~sm.remove /\ UNCHANGED <<itemVars, sm, srv>>
    <3>1. Untouched(a)
      BY <2>1, <2>2 DEF Untouched, Ended, itemVars
    <3> QED
      BY <2>1, <3>1, AsideServed
  <2>3. CASE Failed /\ RemoveSubscription([Removed EXCEPT !.remove = FALSE])
    <3>1. /\ NoEntries' /\ items' = items /\ (cn.connected => ~srv'.sub)
          /\ srv'.sub => srv.sub
      BY <2>3, RemovalEmpties
    <3>2. ~Current(a)'
      BY <2>1 DEF Current, Ended
    <3>3. /\ cn'.connected /\ srv'.sub => sm'.id
          /\ Away(a)' => ~cn'.connected /\ ~srv'.sub
          /\ ~be'.manager => items' = <<>>
      BY <2>1, <3>1 DEF Served, Away
    <3> QED
      BY <3>1, <3>2, <3>3 DEF Kept, Served, NoEntries
  <2> QED
    BY <1>2, <2>2, <2>3 DEF RunExit
<1>3. CASE RunEnd
  <2>1. /\ th[Client].pc = "exitRun" /\ th'[Client].pc = "idle" /\ th'[a] = th[a]
        /\ sm'.thread = sm.thread /\ sm'.id = sm.id
    BY <1>0, <1>3 DEF RunEnd, Done, Idle, Flags
  <2>2. Ended(a)'
    BY <2>1 DEF Ended, ClientOK
  <2>3. Untouched(a)
    BY <1>3, <2>1, <2>2 DEF RunEnd, Untouched, itemVars
  <2> QED
    BY <2>1, <2>3, AsideServed
<1>4. CASE Environment \/ UNCHANGED vars \/ \E x \in Accessors : PopValue(x)
  <2>1. /\ th' = th /\ sm' = sm /\ be' = be /\ cn' = cn
        /\ items' = items /\ subscriptionMap' = subscriptionMap
    BY <1>4 DEF Environment, ValueChange, LoseLink, RestoreLink, PopValue, Pop,
                controlVars, vars, itemVars
  <2>2. srv'.sub = srv.sub /\ srv'.items = srv.items
    BY <1>0, <1>4 DEF Environment, ValueChange, LoseLink, RestoreLink, PopValue,
                controlVars, vars, Server
  <2>3. Untouched(a)
    BY <2>1, <2>2 DEF Untouched, Ended
  <2> QED
    BY <2>1, <2>3, AsideServed
<1>5. ASSUME NEW t \in {a, Client}, Deactivate(t) PROVE Kept(a)
  <2>1. /\ \A u \in {a, Client} :
             th'[u].pc = th[u].pc /\ th'[u].op = th[u].op /\ th'[u].id = th[u].id
        /\ be' = be
    BY <1>0, <1>5 DEF Deactivate, DeactivateException, DeactivateMapped,
        DeactivateRun, DeactivateSubscription, DeactivateLock, DeactivateRemove,
        DeactivateAsync, Thread
  <2>2. CASE DeactivateRemove(t)
    <3>1. /\ th[t].deact = "remove" /\ RemoveSubscription(Removed)
          /\ cn'.connected = (cn.connected /\ srv.link)
      BY <1>0, <2>2 DEF DeactivateRemove, Deact, Connection
    <3>2. t = a
      <4>1. th[t].pc \notin Locked
        BY <1>0, <3>1 DEF ThreadsOK, Fits
      <4> QED
        BY <3>1, <4>1, LabelFacts DEF Places
    <3>3. NoEntries' /\ items' = items
      BY <3>1, ResetEmpties DEF RemoveSubscription
    <3>4. (cn'.connected => ~srv'.sub) /\ (srv'.sub => srv.sub)
      BY <1>0, <3>1 DEF RemoveSubscription, Good, NoSubscription, Server
    <3>5. th'[a].pc # "added"
      BY <2>1, <3>1, <3>2 DEF Places
    <3>6. Away(a)' => ~cn'.connected /\ ~srv'.sub
      BY <2>1, <3>1, <3>4 DEF Served, Away
    <3> QED
      BY <2>1, <3>3, <3>4, <3>5, <3>6, EmptyServed DEF Served
  <2>3. CASE ~DeactivateRemove(t)
    <3>1. /\ items' = items /\ subscriptionMap' = subscriptionMap /\ srv' = srv
      BY <1>5, <2>3 DEF Deactivate, DeactivateException, DeactivateMapped,
        DeactivateRun, DeactivateSubscription, DeactivateLock, DeactivateAsync,
        HandleException, DeactivateItems, itemVars
    <3>2. sm'.id = sm.id /\ sm'.thread = sm.thread /\ (cn'.connected => cn.connected)
      BY <1>0, <1>5, <2>3 DEF Deactivate, DeactivateException, DeactivateMapped,
        DeactivateRun, DeactivateSubscription, DeactivateLock, DeactivateAsync,
        Flags, Connection
    <3>3. Untouched(a)
      BY <2>1, <3>1, <3>2 DEF Untouched, Ended
    <3> QED
      BY <2>1, <3>3, AsideServed
  <2> QED
    BY <2>2, <2>3
<1>6. ASSUME NEW t \in {a, Client}, Callback(t) PROVE Kept(a)
  <2>1. \A u \in {a, Client} :
          th'[u].pc = th[u].pc /\ th'[u].op = th[u].op /\ th'[u].id = th[u].id
    BY <1>0, <1>6 DEF Callback, StateCallback, Disconnected, SessionReused,
        InactivityCallback, DataCallback, DataPush, controlVars, Thread
  <2>2. items' = items /\ subscriptionMap' = subscriptionMap
    BY <1>6 DEF Callback, StateCallback, SessionReused, InactivityCallback,
        DataCallback, DataPush, CheckActive, PushValue, NullItem, itemVars
  <2>3. /\ sm' = sm /\ be' = be /\ srv'.sub = srv.sub /\ srv'.items = srv.items
    BY <1>0, <1>6 DEF Callback, StateCallback, SessionReused, InactivityCallback,
        DataCallback, DataPush, controlVars, Server
  <2>4. cn'.connected => cn.connected
    BY <1>0, <1>6 DEF Callback, StateCallback, Disconnected, SessionReused,
        InactivityCallback, DataCallback, DataPush, controlVars, Connection
  <2>5. Untouched(a)
    BY <2>1, <2>2, <2>3, <2>4 DEF Untouched, Ended
  <2> QED
    BY <2>1, <2>5, AsideServed
<1> QED
  BY <1>1, <1>2, <1>3, <1>4, <1>5, <1>6 DEF ClientStep

-----------------------------------------------------------------------------
(* The invariant: the phases and places of the threads, and Served.        *)
ServingInv(a) == OneInv(a) /\ Places(a) /\ Served(a)

(* The kinds of steps, with one application thread.                        *)
LEMMA OneNext ==
  ASSUME NEW a, Apps = {a}, [Next]_vars
  PROVE  \/ AppBegin(a) \/ AppStep(a)
         \/ ClientStep \/ Environment \/ UNCHANGED vars
         \/ \E t \in {a, Client} : Deactivate(t) \/ Callback(t)
         \/ \E x \in Accessors : PopValue(x)
BY DEF Next, Threads

(* It holds initially.                                                     *)
LEMMA ServingInit ==
  ASSUME NEW a, Apps = {a}, Init
  PROVE  ServingInv(a)
<1>1. OneInv(a)
  BY OneInit
<1>2. /\ th[a] = Idle /\ th[Client] = Idle
      /\ items = <<>> /\ DOMAIN subscriptionMap = {}
      /\ handling[Client] = 0 /\ ~srv.sub /\ ~be.manager
  BY InitialMap, ManagerAssumption DEF Init, ItemsInit, Threads
<1> QED
  BY <1>1, <1>2 DEF ServingInv, Places, Served, Creating, Away, Emptied, Deleting,
                    NoEntries, Idle

(* Every step keeps it.                                                    *)
LEMMA ServingStep ==
  ASSUME NEW a, Apps = {a}, ~Reconnects, ServingInv(a), [Next]_vars
  PROVE  ServingInv(a)' /\ Kept(a)
<1>1. OneInv(a)'
  BY OneStep DEF ServingInv
<1>2. /\ a \in Apps /\ ItemsTypeOK /\ ThreadsOK /\ FlagsOK /\ Phase(a) /\ ClientOK(a)
      /\ Places(a) /\ Served(a)
  BY DEF ServingInv, OneInv, ControlInv
<1>3. Kept(a)
  <2>1. CASE AppBegin(a)
    BY <1>2, <2>1, BeginsServed
  <2>2. CASE AppStep(a)
    BY <1>2, <2>2, PlainServed, LifecycleServed, SubscriptionServed DEF AppStep
  <2>3. CASE ~AppBegin(a) /\ ~AppStep(a)
    <3>1. \/ ClientStep \/ Environment \/ UNCHANGED vars
          \/ \E t \in {a, Client} : Deactivate(t) \/ Callback(t)
          \/ \E x \in Accessors : PopValue(x)
      BY <2>3, OneNext
    <3> QED
      BY <1>2, <3>1, OthersServed
  <2> QED
    BY <2>1, <2>2, <2>3
<1>4. Places(a)'
  BY <1>2, OneNext, AppPlaces, OtherPlaces
<1> QED
  BY <1>1, <1>3, <1>4 DEF ServingInv, Kept

(* It holds in every state.                                                *)
LEMMA ServingInvariant ==
  ASSUME NEW a, Apps = {a}, ~Reconnects
  PROVE  Spec => []ServingInv(a)
<1>1. Init => ServingInv(a)
  BY ServingInit
<1>2. ServingInv(a) /\ [Next]_vars => ServingInv(a)'
  BY ServingStep
<1> QED
  BY <1>1, <1>2, PTL DEF Spec

(* While the client thread serves, the session is current.                 *)
LEMMA ServingCurrent ==
  ASSUME NEW a, Serving
  PROVE  Current(a)
BY DEF Serving, Current, Ended

(* While the client thread serves, every entry of subscriptionMap is an    *)
(* item the server still has, whatever subscriptions have been removed,    *)
(* replaced or lost before.  The client library does not take up a lost    *)
(* session by itself: after a session that came back this way the entries  *)
(* of the subscription deactivate has given up would still be there.       *)
THEOREM EntriesAlwaysServed ==
  ASSUME NEW a, Apps = {a}, ~Reconnects
  PROVE  Spec => []EntriesServed
<1>1. ServingInv(a) => EntriesServed
  BY ServingCurrent DEF ServingInv, Served, EntriesServed
<1> QED
  BY <1>1, ServingInvariant, PTL

-----------------------------------------------------------------------------
(* The marks of an application that keeps its accessors.                   *)

(* The sections of the mutex that leave the map alone.                     *)
Gentle ==
  \/ UNCHANGED itemVars
  \/ \E x \in Accessors :
       \/ SubscribeNew(x) \/ SubscribeShared(x) \/ SubscribeThrow(x)
       \/ Abandon(x) \/ Pop(x)
  \/ \E S : ActivateItems(S)
  \/ DeactivateItems \/ HandleException \/ Terminate
  \/ \E n \in Nodes : SetExternalError(n)
  \/ \E h \in Handlers : \/ \E id \in MonIds : CheckActive(h, id)
                         \/ \E v \in Values : PushValue(h, v)
                         \/ NullItem(h)

(* They mark no item.                                                      *)
LEMMA GentleMarks ==
  ASSUME ItemsTypeOK, Gentle, NEW n \in Nodes, item'[n].isMonitored
  PROVE  item[n].isMonitored
<1>0. item \in [Nodes -> Item] /\ item[n] \in Item
  BY DEF ItemsTypeOK
<1>1. CASE \/ UNCHANGED itemVars
           \/ \E x \in Accessors : Abandon(x) \/ Pop(x)
           \/ Terminate
           \/ \E h \in Handlers : NullItem(h) \/ \E id \in MonIds : CheckActive(h, id)
  BY <1>1 DEF itemVars, Abandon, Pop, Terminate, NullItem, CheckActive
<1>2. ASSUME NEW x \in Accessors, SubscribeNew(x)
      PROVE  item[n].isMonitored
  BY <1>0, <1>2 DEF SubscribeNew, Fresh
<1>3. ASSUME NEW x \in Accessors, SubscribeShared(x) \/ SubscribeThrow(x)
      PROVE  item[n].isMonitored
  <2>1. \E l : item' = [item EXCEPT ![NodeOf[x]].accessors = l]
    BY <1>3 DEF SubscribeShared, SubscribeThrow
  <2> QED
    BY <1>0, <2>1 DEF Item
<1>4. ASSUME NEW S, ActivateItems(S) PROVE item[n].isMonitored
  BY <1>0, <1>4 DEF ActivateItems, Item
<1>5. CASE DeactivateItems
  BY <1>0, <1>5 DEF DeactivateItems, Item
<1>6. CASE HandleException
  BY <1>0, <1>6 DEF HandleException, Item
<1>7. ASSUME NEW k \in Nodes, SetExternalError(k) PROVE item[n].isMonitored
  BY <1>0, <1>7 DEF SetExternalError, Item
<1>8. ASSUME NEW h \in Handlers, NEW v \in Values, PushValue(h, v)
      PROVE  item[n].isMonitored
  <2>1. \/ item' = item
        \/ item' = [item EXCEPT ![ItemAt(handling[h])].hasException = FALSE]
    BY <1>8 DEF PushValue
  <2>2. item'[n] = item[n] \/ item'[n] = [item[n] EXCEPT !.hasException = FALSE]
    BY <1>0, <2>1
  <2> QED
    BY <1>0, <2>2 DEF Item
<1> QED
  BY <1>1, <1>2, <1>3, <1>4, <1>5, <1>6, <1>7, <1>8 DEF Gentle

(* What a step does to the items: a section that leaves the map alone, a   *)
(* reset, or the bookkeeping of addMonitoredItems.                         *)
LEMMA KindOfStep ==
  ASSUME ItemsTypeOK, ThreadsOK, FlagsOK, NEW a, Apps = {a}, "destruct" \notin Ops,
         [Next]_vars
  PROVE  Gentle \/ Cleared \/ Added(a)
<1>0. /\ a \in Threads /\ Client \in Threads /\ a # Client
      /\ th \in [Threads -> Thread] /\ srv \in Server /\ Threads = Handlers
  BY Typed, ManagerAssumption DEF FlagsOK
<1>1. CASE AppBegin(a)
  <2>1. \/ UNCHANGED itemVars
        \/ \E x \in Accessors : \/ SubscribeNew(x) \/ SubscribeShared(x)
                                 \/ SubscribeThrow(x) \/ Pop(x)
    BY <1>1 DEF AppBegin, Open, Close, Activate, Transfer, Construct, PopException
  <2> QED
    BY <2>1 DEF Gentle
<1>2. CASE AppStep(a)
  <2>1. CASE ResetItems(a) \/ CreateRemove(a) \/ RemoveLast(a)
    BY <2>1, ResetClears, RemovalClears DEF ResetItems, CreateRemove, RemoveLast
  <2>2. CASE CreateFailed(a)
    <3>1. At(a, "createFailed")
      BY <2>2 DEF CreateFailed
    <3>2. OpFits("createFailed", th[a].op) /\ th[a].new \in SUBSET Accessors
      BY <1>0, <3>1, OpAt DEF Thread
    <3>3. \/ UNCHANGED itemVars \/ Terminate \/ \E x \in Accessors : Abandon(x)
      BY <2>2, <3>2 DEF CreateFailed, OpFits
    <3> QED
      BY <3>3 DEF Gentle
  <2>3. CASE \/ AcquireClientLock(a) \/ Join(a) \/ Start(a) \/ Spawn(a) \/ Assign(a)
             \/ ResetClient(a) \/ Disconnect(a) \/ AfterDisconnect(a) \/ Connect(a)
             \/ FinishOpen(a) \/ CreateSubscription(a) \/ Create(a) \/ Created(a)
             \/ ActivateAsync(a) \/ AddItem(a) \/ Subscribed(a) \/ Unsubscribed(a)
             \/ DeleteItem(a) \/ StopLast(a) \/ TransferDone(a)
    <3>1. UNCHANGED itemVars \/ Terminate
      BY <2>3 DEF AcquireClientLock, Join, Start, Spawn, Assign, ResetClient,
          Disconnect, AfterDisconnect, Connect, FinishOpen, CreateSubscription,
          Create, Created, ActivateAsync, AddItem, Subscribed, Unsubscribed,
          DeleteItem, StopLast, TransferDone
    <3> QED
      BY <3>1 DEF Gentle
  <2>4. CASE \/ ActivateAll(a) \/ AddNext(a) \/ AddFailed(a)
             \/ \E n \in Nodes : HandleError(a, n)
    <3>1. \/ UNCHANGED itemVars \/ HandleException \/ \E S : ActivateItems(S)
          \/ \E n \in Nodes : SetExternalError(n)
      BY <2>4 DEF ActivateAll, AddNext, AddFailed, HandleError
    <3> QED
      BY <3>1 DEF Gentle
  <2> QED
    BY <1>2, <2>1, <2>2, <2>3, <2>4 DEF AppStep
<1>3. CASE \/ ClientStep \/ Environment \/ UNCHANGED vars
           \/ \E x \in Accessors : PopValue(x)
  <2>1. \/ UNCHANGED itemVars \/ \E r : RemoveSubscription(r)
        \/ \E x \in Accessors : Pop(x)
    BY <1>3 DEF ClientStep, AcquireClientLock, RunLoop, RunIterate, RunExit, RunEnd,
        Environment, ValueChange, LoseLink, RestoreLink, PopValue, vars
  <2> QED
    BY <2>1, RemovalClears DEF Gentle
<1>4. ASSUME NEW t \in {a, Client}, Deactivate(t) PROVE Gentle \/ Cleared
  <2>1. \/ UNCHANGED itemVars \/ HandleException \/ DeactivateItems
        \/ \E r : RemoveSubscription(r)
    BY <1>4 DEF Deactivate, DeactivateException, DeactivateMapped, DeactivateRun,
        DeactivateSubscription, DeactivateLock, DeactivateRemove, DeactivateAsync
  <2> QED
    BY <2>1, RemovalClears DEF Gentle
<1>5. ASSUME NEW t \in {a, Client}, Callback(t) PROVE Gentle
  <2>1. t \in Handlers
    BY <1>0
  <2>2. CASE DataCallback(t)
    <3>1. PICK id \in srv.pending :
            CheckActive(t, id) \/ (~IsActive(id) /\ UNCHANGED itemVars)
      BY <2>2 DEF DataCallback
    <3>2. id \in MonIds
      BY <1>0, <3>1 DEF Server
    <3> QED
      BY <2>1, <3>1, <3>2 DEF Gentle
  <2>3. CASE DataPush(t)
    BY <2>1, <2>3 DEF DataPush, Gentle
  <2>4. CASE StateCallback(t) \/ SessionReused(t) \/ InactivityCallback(t)
    BY <2>4 DEF StateCallback, SessionReused, InactivityCallback, Gentle
  <2> QED
    BY <1>5, <2>2, <2>3, <2>4 DEF Callback
<1> QED
  BY <1>1, <1>2, <1>3, <1>4, <1>5, OneNext

-----------------------------------------------------------------------------
(* A marked item has an entry of its own in a current session, and in any  *)
(* session none is marked while the map is empty.                          *)
OwnEntry(n) ==
  /\ item[n].id \in DOMAIN subscriptionMap /\ LiveSlot(item[n].id)
  /\ ItemAt(item[n].id) = n

Marked(a) ==
  /\ NoEntries => \A n \in Nodes : ~item[n].isMonitored
  /\ Current(a) => \A n \in Nodes : item[n].isMonitored => OwnEntry(n)

(* Sections that leave the map alone keep this.                            *)
LEMMA GentleMarked ==
  ASSUME ItemsTypeOK, NEW a, Marked(a), Gentle,
         Current(a)' => Current(a) \/ NoEntries'
  PROVE  Marked(a)'
<1>1. Calm
  BY CalmSections DEF Gentle
<1>2. NoEntries' <=> NoEntries
  BY <1>1 DEF Calm, NoEntries
<1>3. NoEntries' => \A n \in Nodes : ~item'[n].isMonitored
  BY <1>2, GentleMarks DEF Marked
<1>4. ASSUME Current(a), NEW n \in Nodes, item'[n].isMonitored
      PROVE  OwnEntry(n)'
  <2>1. OwnEntry(n)
    BY <1>4, GentleMarks DEF Marked
  <2> DEFINE i == subscriptionMap[item[n].id]
  <2>2. i \in DOMAIN items /\ items[i] = n
    BY <2>1 DEF OwnEntry, LiveSlot, ItemAt
  <2>3. Listed(n)
    BY <2>2, ListedNodes
  <2>4. /\ item'[n].id = item[n].id /\ i \in DOMAIN items' /\ items'[i] = n
        /\ subscriptionMap' = subscriptionMap
    BY <1>1, <2>2, <2>3 DEF Calm
  <2> QED
    BY <2>1, <2>4 DEF OwnEntry, LiveSlot, ItemAt
<1> QED
  BY <1>3, <1>4 DEF Marked

(* So does the bookkeeping of addMonitoredItems, because the server's id   *)
(* is new to the map of a current session.                                 *)
LEMMA AddedMarked ==
  ASSUME ItemsTypeOK, ItemsInUse, ThreadsOK, NEW a \in Apps, Mapped(a), Marked(a),
         Served(a), Added(a), Current(a)' => Current(a) \/ NoEntries'
  PROVE  Marked(a)'
<1> DEFINE i == th[a].idx
           n == items[i]
           m == th[a].id
<1>0. /\ a \in Threads /\ item \in [Nodes -> Item] /\ th[a].pc = "added"
      /\ MonitorItem(n, m)
  BY DEF Threads, ItemsTypeOK, Added, At
<1>1. i \in DOMAIN items /\ n \in Nodes
  BY <1>0, ListedNodes DEF Mapped, Adding
<1>2. IndexOf(items, n) = i
  <2>1. IndexOf(items, n) \in DOMAIN items /\ items[IndexOf(items, n)] = n
    BY <1>1, ListedNodes, IndexOfProperties DEF ItemsTypeOK, Listed
  <2> QED
    BY <1>1, <2>1 DEF ItemsInUse
<1>3. /\ items' = items /\ DOMAIN subscriptionMap' = DOMAIN subscriptionMap \cup {m}
      /\ subscriptionMap'[m] = i
      /\ \A id \in DOMAIN subscriptionMap \ {m} :
           subscriptionMap'[id] = subscriptionMap[id]
  BY <1>0, <1>2 DEF MonitorItem
<1>4. item'[n].id = m /\ \A k \in Nodes \ {n} : item'[k] = item[k]
  BY <1>0, <1>1 DEF MonitorItem, Item
<1>5. ~NoEntries'
  BY <1>3 DEF NoEntries
<1>6. ASSUME Current(a), NEW k \in Nodes, item'[k].isMonitored
      PROVE  OwnEntry(k)'
  <2>1. CASE k = n
    BY <1>1, <1>3, <1>4, <2>1 DEF OwnEntry, LiveSlot, ItemAt
  <2>2. CASE k # n
    <3>1. item'[k] = item[k] /\ OwnEntry(k)
      BY <1>4, <1>6, <2>2 DEF Marked
    <3>2. m \notin DOMAIN subscriptionMap
      BY <1>0, <1>6 DEF Served
    <3>3. /\ item[k].id \in DOMAIN subscriptionMap'
          /\ subscriptionMap'[item[k].id] = subscriptionMap[item[k].id]
      BY <1>3, <3>1, <3>2 DEF OwnEntry
    <3> QED
      BY <1>3, <3>1, <3>3 DEF OwnEntry, LiveSlot, ItemAt
  <2> QED
    BY <2>1, <2>2
<1> QED
  BY <1>5, <1>6 DEF Marked

(* The invariants together.                                                *)
MarkInv(a) == ServingInv(a) /\ Mapped(a) /\ Marked(a)

(* They hold initially ...                                                 *)
LEMMA MarkInit ==
  ASSUME NEW a, Apps = {a}, Init
  PROVE  MarkInv(a)
<1>1. ServingInv(a) /\ Mapped(a)
  BY ServingInit, MapInit DEF MapInv
<1>2. \A n \in Nodes : ~item[n].isMonitored
  BY DEF Init, ItemsInit, Fresh
<1> QED
  BY <1>1, <1>2 DEF MarkInv, Marked

(* ... and every step keeps them.                                          *)
LEMMA MarkStep ==
  ASSUME NEW a, Apps = {a}, "destruct" \notin Ops, ~Reconnects,
         MarkInv(a), [Next]_vars
  PROVE  MarkInv(a)'
<1>1. /\ a \in Apps /\ ControlInv /\ ItemsTypeOK /\ ItemsInUse /\ ThreadsOK /\ FlagsOK
      /\ Mapped(a) /\ Marked(a) /\ Served(a) /\ ServingInv(a)
  BY DEF MarkInv, ServingInv, OneInv, ControlInv
<1>2. ServingInv(a)' /\ Kept(a)
  BY <1>1, ServingStep
<1>3. Mapped(a)'
  BY <1>1, MapStep DEF MapInv
<1>4. Current(a)' => Current(a) \/ NoEntries'
  BY <1>2 DEF Kept
<1>5. Marked(a)'
  <2>1. CASE Gentle
    BY <1>1, <1>4, <2>1, GentleMarked
  <2>2. CASE Cleared
    BY <2>2 DEF Cleared, Marked
  <2>3. CASE Added(a)
    BY <1>1, <1>4, <2>3, AddedMarked
  <2> QED
    BY <1>1, <2>1, <2>2, <2>3, KindOfStep
<1> QED
  BY <1>2, <1>3, <1>5 DEF MarkInv

(* They hold in every state.                                               *)
LEMMA MarkInvariant ==
  ASSUME NEW a, Apps = {a}, "destruct" \notin Ops, ~Reconnects
  PROVE  Spec => []MarkInv(a)
<1>1. Init => MarkInv(a)
  BY MarkInit
<1>2. MarkInv(a) /\ [Next]_vars => MarkInv(a)'
  BY MarkStep
<1> QED
  BY <1>1, <1>2, PTL DEF Spec

(* While the client thread serves, a mark isMonitored is no leftover of an *)
(* earlier subscription: its item has an entry of its own, so what         *)
(* addMonitoredItems passes over is monitored.  Here, too, the client      *)
(* library takes up no lost session by itself.                             *)
THEOREM MarksAlwaysServed ==
  ASSUME NEW a, Apps = {a}, "destruct" \notin Ops, ~Reconnects
  PROVE  Spec => []MarksServed
<1>1. MarkInv(a) => MarksServed
  <2> SUFFICES ASSUME MarkInv(a), Serving, NEW n \in ToSet(items), item[n].isMonitored
               PROVE  OwnEntry(n)
    BY DEF MarksServed, OwnEntry
  <2>1. n \in Nodes
    BY ToSetProperties DEF MarkInv, ServingInv, OneInv, ControlInv, ItemsTypeOK
  <2> QED
    BY <2>1, ServingCurrent DEF MarkInv, Marked
<1> QED
  BY <1>1, MarkInvariant, PTL

-----------------------------------------------------------------------------
(* The id responseHandler has looked up.                                   *)

(* The client thread delivers for another id than addMonitoredItems is     *)
(* about to enter: that one was not in the map at the look-up, and the     *)
(* server answers under the lock the client thread holds.                  *)
Disjoint(a) ==
  handling[Client] # 0 /\ th[a].pc = "added" => th[a].id # handling[Client]

(* Every step keeps this.                                                  *)
LEMMA DisjointStep ==
  ASSUME NEW a, Apps = {a}, ServingInv(a), Disjoint(a), [Next]_vars
  PROVE  Disjoint(a)'
<1>0. /\ a \in Apps /\ a \in Threads /\ Client \in Threads /\ a # Client
      /\ ItemsTypeOK /\ ThreadsOK /\ FlagsOK /\ Phase(a) /\ ClientOK(a)
      /\ Places(a) /\ Served(a)
      /\ handling \in [Threads -> MonIds \cup {0}]
  BY Typed, ManagerAssumption DEF ServingInv, OneInv, ControlInv, ItemsTypeOK
<1>1. CASE AppBegin(a) \/ AppStep(a)
  <2>1. /\ handling' = handling
        /\ th'[a].pc = "added" => AddItem(a)
    BY <1>0, <1>1, AppPlaces
  <2>2. AddItem(a) => handling[Client] = 0
    <3> SUFFICES ASSUME AddItem(a), handling[Client] # 0 PROVE FALSE
      OBVIOUS
    <3>1. HasLock(th[a])
      BY LabelFacts DEF AddItem, At, HasLock
    <3>2. HasLock(th[Client])
      BY <1>0, LabelFacts DEF Places, HasLock
    <3> QED
      BY <1>0, <3>1, <3>2 DEF ThreadsOK
  <2> QED
    BY <2>1, <2>2 DEF Disjoint
<1>2. CASE ~AppBegin(a) /\ ~AppStep(a)
  <2>1. /\ th'[a].pc = th[a].pc /\ th'[a].id = th[a].id
        /\ handling'[Client] \in {0, handling[Client]} \/ DataCallback(Client)
    BY <1>0, <1>2, OneNext, OtherPlaces
  <2>2. CASE handling'[Client] \in {0, handling[Client]}
    BY <2>1, <2>2 DEF Disjoint
  <2>3. CASE DataCallback(Client)
    <3>1. /\ th[Client].pc \in ClientCalls /\ cn.connected
          /\ \/ handling' = handling
             \/ \E id : handling' = [handling EXCEPT ![Client] = id]
                        /\ id \in DOMAIN subscriptionMap
      BY <2>3 DEF DataCallback, InCall, At, CheckActive, IsActive, itemVars
    <3>2. Current(a)
      BY <3>1 DEF Current, Ended, ClientCalls
    <3>3. th[a].pc = "added" => th[a].id \notin DOMAIN subscriptionMap
      BY <1>0, <3>2 DEF Served
    <3> QED
      BY <1>0, <2>1, <3>1, <3>3 DEF Disjoint
  <2> QED
    BY <2>1, <2>2, <2>3
<1> QED
  BY <1>1, <1>2

(* No step moves the item of an id that is being delivered.                *)
LEMMA HandledStep ==
  ASSUME NEW a, Apps = {a}, "destruct" \notin Ops, MarkInv(a), Disjoint(a),
         [Next]_vars, NEW t \in Threads, handling[t] # 0,
         handling'[t] = handling[t], handling[t] \in DOMAIN subscriptionMap'
  PROVE  LET id == handling[t]
         IN  /\ id \in DOMAIN subscriptionMap
             /\ LiveSlot(id) /\ subscriptionMap'[id] \in DOMAIN items'
             /\ items'[subscriptionMap'[id]] = ItemAt(id)
<1> DEFINE id == handling[t]
<1>0. /\ ItemsTypeOK /\ ThreadsOK /\ FlagsOK /\ Linked
      /\ Threads = {a, Client} /\ a # Client
  BY ManagerAssumption DEF MarkInv, ServingInv, OneInv, ControlInv, Mapped, Threads
<1>1. id \in DOMAIN subscriptionMap => LiveSlot(id)
  BY <1>0 DEF Linked, MapLinksItem
<1>2. CASE Gentle
  <2>1. Calm
    BY <1>0, <1>2, CalmSections DEF Gentle
  <2> QED
    BY <1>1, <2>1 DEF Calm, LiveSlot, ItemAt
<1>3. CASE Cleared
  BY <1>3, InitialMap DEF Cleared
<1>4. CASE Added(a)
  <2>1. At(a, "added") /\ MonitorItem(items[th[a].idx], th[a].id)
    BY <1>4 DEF Added
  <2>2. t = Client /\ id # th[a].id
    BY <1>0, <2>1 DEF At, Disjoint
  <2>3. /\ id \in DOMAIN subscriptionMap /\ items' = items
        /\ subscriptionMap'[id] = subscriptionMap[id]
    BY <2>1, <2>2 DEF MonitorItem
  <2> QED
    BY <1>1, <2>3 DEF LiveSlot, ItemAt
<1> QED
  BY <1>0, <1>2, <1>3, <1>4, KindOfStep

(* As long as an id is in the map, responseHandler finds under the mutex   *)
(* the item it found active before, whatever became of the list and of the *)
(* subscription meanwhile (and the client library takes up no lost session *)
(* by itself, on which the ids of the server being new rest).              *)
THEOREM HandledItemKept ==
  ASSUME NEW a, Apps = {a}, "destruct" \notin Ops, ~Reconnects
  PROVE  Spec => HandledItemStays
<1> DEFINE Inv == MarkInv(a) /\ Disjoint(a)
           ItemStays == \A t \in Threads : LET id == handling[t] IN
             id # 0 /\ handling'[t] = id /\ id \in DOMAIN subscriptionMap'
             => /\ id \in DOMAIN subscriptionMap
                /\ LiveSlot(id) /\ LiveSlot(id)'
                /\ ItemAt(id)' = ItemAt(id)
<1>1. Init => Inv
  <2>1. ASSUME Init PROVE Disjoint(a)
    BY <2>1, ManagerAssumption DEF Init, ItemsInit, Disjoint, Threads
  <2> QED
    BY <2>1, MarkInit
<1>2. Inv /\ [Next]_vars => Inv'
  BY MarkStep, DisjointStep DEF MarkInv
<1>3. Inv /\ [Next]_vars => [ItemStays]_vars
  <2> SUFFICES ASSUME Inv, [Next]_vars, NEW t \in Threads, handling[t] # 0,
                      handling'[t] = handling[t],
                      handling[t] \in DOMAIN subscriptionMap'
               PROVE  /\ handling[t] \in DOMAIN subscriptionMap
                      /\ LiveSlot(handling[t]) /\ LiveSlot(handling[t])'
                      /\ ItemAt(handling[t])' = ItemAt(handling[t])
    OBVIOUS
  <2>1. /\ handling[t] \in DOMAIN subscriptionMap
        /\ LiveSlot(handling[t]) /\ subscriptionMap'[handling[t]] \in DOMAIN items'
        /\ items'[subscriptionMap'[handling[t]]] = ItemAt(handling[t])
    BY HandledStep
  <2> QED
    BY <2>1 DEF LiveSlot, ItemAt
<1> QED
  BY <1>1, <1>2, <1>3, PTL DEF Spec, HandledItemStays

=============================================================================
