--------------------------- MODULE MonitoredItems ---------------------------
(***************************************************************************)
(* The data of OPCUASubscriptionManager: the monitored items, the map from *)
(* the server's monitored item ids to them, and the notification queues of *)
(* the register accessors they feed.                                       *)
(*                                                                         *)
(* Every action is one critical section of OPCUASubscriptionManager::mutex *)
(* (or an unlocked read the code makes beside it).  The mutex is a leaf:   *)
(* no section calls the client or takes another lock that waits for it, so *)
(* a section is one step, and any thread may run the next one.  What makes *)
(* a thread run a section is SubscriptionManager.tla's subject.            *)
(***************************************************************************)
EXTENDS Naturals, Sequences, SequencesExt

CONSTANTS
  Nodes,      \* process variables of the server (MonitorItem::browseName)
  Accessors,  \* register accessors using wait_for_new_data
  NodeOf,     \* the node each accessor reads
  Handlers,   \* threads that may run responseHandler
  MonIds,     \* monitored item ids the server hands out; 0 means "none"
  Values,     \* contents of a data change notification
  Exception,  \* an exception pushed into a notification queue
  NoData,     \* a ManagedDataValue without value
  QueueLen    \* length of a notification queue (3 in the code)

ASSUME ItemsAssumption ==
  /\ NodeOf \in [Accessors -> Nodes]
  /\ MonIds \subseteq Nat \ {0}
  /\ QueueLen \in Nat \ {0}
  /\ Exception \notin Values /\ NoData \notin Values
  /\ Exception # NoData

VARIABLES
  items,           \* _items: the nodes in the order of the std::deque
  item,            \* the MonitorItem of each node (Fresh when not in _items)
  subscriptionMap, \* id -> slot of the deque its MonitorItem* points to
  queue,           \* notifications of each accessor
  data,            \* OpcUABackendRegisterAccessorBase::data
  obj,             \* "none", "live" or "dangling" (destroyed while listed)
  handling,        \* the id a responseHandler found active, 0 for none
  crashed,         \* a null MonitorItem* was dereferenced
  latest,          \* history: what was pushed last to each accessor
  excRun           \* history: exceptions pushed since the last value

itemVars == <<items, item, subscriptionMap, queue, data, obj, handling,
              crashed, latest, excRun>>

-----------------------------------------------------------------------------
Contents == Values \cup {Exception}

Item == [accessors : Seq(Accessors), id : MonIds \cup {0}, active : BOOLEAN,
         isMonitored : BOOLEAN, hasException : BOOLEAN]

Fresh == [accessors |-> <<>>, id |-> 0, active |-> FALSE,
          isMonitored |-> FALSE, hasException |-> FALSE]

Listed(n) == n \in ToSet(items)

Users(n) == ToSet(item[n].accessors)

IndexOf(s, e) == CHOOSE i \in DOMAIN s : s[i] = e

(* Mutations of PushOverwrite: a queue without limit, and a push that a    *)
(* full queue refuses.                                                     *)
PushUnlimited(q, c) == Append(q, c)

PushRefused(q, c) == IF Len(q) < QueueLen THEN Append(q, c) ELSE q

(* future_queue::push_overwrite: a full queue loses its newest element.    *)
PushOverwrite(q, c) ==
  IF Len(q) < QueueLen THEN Append(q, c) ELSE Append(Front(q), c)

(* Push c to the accessors in S.  An accessor that was destroyed without   *)
(* being taken off the list has no queue any more.                         *)
PushTo(S, c) ==
  LET L == {a \in S : obj[a] = "live"}
  IN  /\ queue' = [a \in Accessors |->
                     IF a \in L THEN PushOverwrite(queue[a], c) ELSE queue[a]]
      /\ latest' = [a \in Accessors |-> IF a \in L THEN c ELSE latest[a]]
      /\ excRun' = [a \in Accessors |->
                      IF a \notin L THEN excRun[a]
                      ELSE IF c = Exception THEN excRun[a] + 1 ELSE 0]

-----------------------------------------------------------------------------
(* std::deque::erase at position i.  libstdc++ moves the shorter part over *)
(* the gap: the elements before i up by one slot when i is in the first    *)
(* half, else those behind it down by one.  A MonitorItem* keeps pointing  *)
(* to its slot.  Slots are counted from the current first element; slot 0  *)
(* and slots behind the last element hold a moved-from, destroyed item,    *)
(* whose accessor vector is empty.                                         *)
SlotAfterErase(k, i) ==
  IF i <= Len(items) \div 2 THEN (IF k = 0 THEN 0 ELSE k - 1) ELSE k

LiveSlot(id) == subscriptionMap[id] \in DOMAIN items

ItemAt(id) == items[subscriptionMap[id]]

-----------------------------------------------------------------------------
ItemsInit ==
  /\ items = <<>>
  /\ item = [n \in Nodes |-> Fresh]
  /\ subscriptionMap = <<>>
  /\ queue = [a \in Accessors |-> <<>>]
  /\ data = [a \in Accessors |-> NoData]
  /\ obj = [a \in Accessors |-> "none"]
  /\ handling = [h \in Handlers |-> 0]
  /\ crashed = FALSE
  /\ latest = [a \in Accessors |-> NoData]
  /\ excRun = [a \in Accessors |-> 0]

(* subscribe for a node nobody reads yet: a new item at the end.           *)
SubscribeNew(a) ==
  LET n == NodeOf[a]
  IN  /\ obj[a] = "none" /\ ~Listed(n)
      /\ items' = Append(items, n)
      /\ item' = [item EXCEPT ![n] = [Fresh EXCEPT !.accessors = <<a>>]]
      /\ obj' = [obj EXCEPT ![a] = "live"]
      /\ UNCHANGED <<subscriptionMap, queue, data, handling, crashed, latest,
                     excRun>>

(* What a new accessor of an active item starts with: the oldest element   *)
(* of the queue of the accessor added before it, or else that accessor's   *)
(* data.                                                                   *)
InitialValue(tmp) == IF queue[tmp] = <<>> THEN data[tmp] ELSE Head(queue[tmp])

(* That oldest element is an exception, which reading it throws again.     *)
InitialException(a) ==
  LET n == NodeOf[a]
  IN  item[n].active /\ InitialValue(Last(item[n].accessors)) = Exception

(* subscribe for a node that has an item: the accessor joins it.           *)
SubscribeShared(a) ==
  LET n == NodeOf[a]
      tmp == Last(item[n].accessors)
      v == InitialValue(tmp)
  IN  /\ obj[a] = "none" /\ Listed(n) /\ ~InitialException(a)
      /\ item' = [item EXCEPT ![n].accessors = Append(@, a)]
      /\ obj' = [obj EXCEPT ![a] = "live"]
      /\ IF item[n].active /\ v \in Values
         THEN /\ queue' = [queue EXCEPT ![a] = <<v>>]
              /\ latest' = [latest EXCEPT ![a] = v]
         ELSE UNCHANGED <<queue, latest>>
      /\ UNCHANGED <<items, subscriptionMap, data, handling, crashed, excRun>>

(* subscribe throws after it listed the accessor, whose constructor passes *)
(* the exception on: the accessor stays in the list.  subscribe leaves the *)
(* mutex locked; who waits for it from then on is SubscriptionManager's    *)
(* subject, here the actions that need it go on.                           *)
SubscribeThrow(a) ==
  LET n == NodeOf[a]
  IN  /\ obj[a] = "none" /\ Listed(n) /\ InitialException(a)
      /\ item' = [item EXCEPT ![n].accessors = Append(@, a)]
      /\ obj' = [obj EXCEPT ![a] = "dangling"]
      /\ UNCHANGED <<items, subscriptionMap, queue, data, handling, crashed,
                     latest, excRun>>

(* The object is gone; a later accessor starts with a queue of its own.    *)
Destroy(a) ==
  /\ obj' = [obj EXCEPT ![a] = "none"]
  /\ queue' = [queue EXCEPT ![a] = <<>>]
  /\ data' = [data EXCEPT ![a] = NoData]
  /\ latest' = [latest EXCEPT ![a] = NoData]
  /\ excRun' = [excRun EXCEPT ![a] = 0]

(* Mutation of UnsubscribeShared: the first accessor of the list goes.     *)
UnsubscribeFirst(a) ==
  LET n == NodeOf[a]
  IN  /\ obj[a] = "live" /\ Listed(n) /\ Len(item[n].accessors) > 1
      /\ item' = [item EXCEPT ![n].accessors = Tail(@)]
      /\ Destroy(a)
      /\ UNCHANGED <<items, subscriptionMap, handling, crashed>>

(* unsubscribe while the item has other accessors.                         *)
UnsubscribeShared(a) ==
  LET n == NodeOf[a]
  IN  /\ obj[a] = "live" /\ Listed(n) /\ Len(item[n].accessors) > 1
      /\ item' = [item EXCEPT ![n].accessors = RemoveAt(@, IndexOf(@, a))]
      /\ Destroy(a)
      /\ UNCHANGED <<items, subscriptionMap, handling, crashed>>

(* unsubscribe of the only accessor: the item and its map entry go.        *)
UnsubscribeLast(a) ==
  LET n == NodeOf[a]
      i == IndexOf(items, n)
  IN  /\ obj[a] = "live" /\ Listed(n) /\ Len(item[n].accessors) <= 1
      /\ items' = RemoveAt(items, i)
      /\ subscriptionMap' = [id \in DOMAIN subscriptionMap \ {item[n].id} |->
                               SlotAfterErase(subscriptionMap[id], i)]
      /\ item' = [item EXCEPT ![n] = Fresh]
      /\ Destroy(a)
      /\ UNCHANGED <<handling, crashed>>

(* The constructor throws after subscribe listed the accessor: its memory  *)
(* is freed, `subscribed` was never set, and nothing takes it off the list.*)
Abandon(a) ==
  /\ obj[a] = "live"
  /\ obj' = [obj EXCEPT ![a] = "dangling"]
  /\ UNCHANGED <<items, item, subscriptionMap, queue, data, handling, crashed,
                 latest, excRun>>

-----------------------------------------------------------------------------
(* addMonitoredItems, after the server accepted the item of node n as id.  *)
MonitorItem(n, id) ==
  /\ Listed(n)
  /\ item' = [item EXCEPT ![n].id = id, ![n].isMonitored = TRUE]
  /\ subscriptionMap' = [j \in DOMAIN subscriptionMap \cup {id} |->
                           IF j = id THEN IndexOf(items, n)
                           ELSE subscriptionMap[j]]
  /\ UNCHANGED <<items, queue, data, obj, handling, crashed, latest, excRun>>

(* activate, and addMonitoredItems while asynchronous reading is active.   *)
ActivateItems(S) ==
  /\ item' = [n \in Nodes |->
                IF n \in S /\ Listed(n) THEN [item[n] EXCEPT !.active = TRUE]
                ELSE item[n]]
  /\ UNCHANGED <<items, subscriptionMap, queue, data, obj, handling, crashed,
                 latest, excRun>>

(* deactivate reaches the items through the map.                           *)
DeactivateItems ==
  LET S == {ItemAt(id) : id \in {j \in DOMAIN subscriptionMap : LiveSlot(j)}}
  IN  /\ item' = [n \in Nodes |->
                    IF n \in S THEN [item[n] EXCEPT !.active = FALSE]
                    ELSE item[n]]
      /\ UNCHANGED <<items, subscriptionMap, queue, data, obj, handling,
                     crashed, latest, excRun>>

(* Mutation of ResetMonitoredItems: the map is not cleared.                *)
ResetFlagsOnly ==
  /\ item' = [n \in Nodes |-> [item[n] EXCEPT !.isMonitored = FALSE]]
  /\ UNCHANGED <<items, subscriptionMap, queue, data, obj, handling, crashed,
                 latest, excRun>>

(* Mutation of ResetMonitoredItems: isMonitored stays.                     *)
ResetMapOnly ==
  /\ subscriptionMap' = <<>>
  /\ UNCHANGED <<items, item, queue, data, obj, handling, crashed, latest,
                 excRun>>

(* The ids of the items survive.                                           *)
ResetMonitoredItems ==
  /\ item' = [n \in Nodes |-> [item[n] EXCEPT !.isMonitored = FALSE]]
  /\ subscriptionMap' = <<>>
  /\ UNCHANGED <<items, queue, data, obj, handling, crashed, latest, excRun>>

(* Mutation of Failing: hasException is not looked at.                    *)
FailingAgain == {n \in ToSet(items) : item[n].active}

(* Items that are not active or have an exception already get none.        *)
Failing == {n \in ToSet(items) : item[n].active /\ ~item[n].hasException}

HandleException ==
  /\ item' = [n \in Nodes |->
                IF n \in Failing THEN [item[n] EXCEPT !.hasException = TRUE]
                ELSE item[n]]
  /\ PushTo(UNION {Users(n) : n \in Failing}, Exception)
  /\ UNCHANGED <<items, subscriptionMap, data, obj, handling, crashed>>

SetExternalError(n) ==
  /\ Listed(n)
  /\ item' = [item EXCEPT ![n].hasException = TRUE]
  /\ UNCHANGED <<items, subscriptionMap, queue, data, obj, handling, crashed,
                 latest, excRun>>

-----------------------------------------------------------------------------
(* responseHandler reads the map and the item without the mutex ...        *)
IsActive(id) ==
  id \in DOMAIN subscriptionMap /\ LiveSlot(id) /\ item[ItemAt(id)].active

CheckActive(h, id) ==
  /\ handling[h] = 0 /\ IsActive(id)
  /\ handling' = [handling EXCEPT ![h] = id]
  /\ UNCHANGED <<items, item, subscriptionMap, queue, data, obj, crashed,
                 latest, excRun>>

(* ... and then delivers under the mutex, looking the id up again.         *)
PushValue(h, v) ==
  LET id == handling[h]
  IN  /\ id # 0 /\ id \in DOMAIN subscriptionMap
      /\ handling' = [handling EXCEPT ![h] = 0]
      /\ IF LiveSlot(id)
         THEN /\ item' = [item EXCEPT ![ItemAt(id)].hasException = FALSE]
              /\ PushTo(Users(ItemAt(id)), v)
         ELSE UNCHANGED <<item, queue, latest, excRun>>
      /\ UNCHANGED <<items, subscriptionMap, data, obj, crashed>>

(* subscriptionMap[monId] inserts a null pointer for an id that was erased *)
(* since the check, and the next access to it ends the process.            *)
NullItem(h) ==
  /\ handling[h] # 0 /\ handling[h] \notin DOMAIN subscriptionMap
  /\ crashed' = TRUE
  /\ UNCHANGED <<items, item, subscriptionMap, queue, data, obj, handling,
                 latest, excRun>>

(* std::terminate, for whatever reason the process has.                    *)
Terminate ==
  /\ crashed' = TRUE
  /\ UNCHANGED <<items, item, subscriptionMap, queue, data, obj, handling,
                 latest, excRun>>

(* The reader takes one element; the continuation of the queue moves a     *)
(* value into data, an exception reaches the caller and leaves data.       *)
Pop(a) ==
  /\ obj[a] = "live" /\ queue[a] # <<>>
  /\ queue' = [queue EXCEPT ![a] = Tail(@)]
  /\ data' = [data EXCEPT ![a] = IF Head(queue[a]) = Exception THEN @
                                 ELSE Head(queue[a])]
  /\ UNCHANGED <<items, item, subscriptionMap, obj, handling, crashed, latest,
                 excRun>>

-----------------------------------------------------------------------------
ItemsNext ==
  /\ ~crashed
  /\ \/ \E a \in Accessors : \/ SubscribeNew(a) \/ SubscribeShared(a)
                             \/ SubscribeThrow(a)
                             \/ UnsubscribeShared(a) \/ UnsubscribeLast(a)
                             \/ Abandon(a) \/ Pop(a)
     \/ \E n \in Nodes, id \in MonIds : MonitorItem(n, id)
     \/ \E S \in SUBSET Nodes : ActivateItems(S)
     \/ DeactivateItems
     \/ ResetMonitoredItems
     \/ HandleException
     \/ Terminate
     \/ \E n \in Nodes : SetExternalError(n)
     \/ \E h \in Handlers : \/ \E id \in MonIds : CheckActive(h, id)
                            \/ \E v \in Values : PushValue(h, v)
                            \/ NullItem(h)

ItemsSpec == ItemsInit /\ [][ItemsNext]_itemVars

-----------------------------------------------------------------------------
(* The values the state of the manager's data can take.                    *)
ItemsTypeOK ==
  /\ items \in Seq(Nodes)
  /\ item \in [Nodes -> Item]
  /\ DOMAIN subscriptionMap \subseteq MonIds
  /\ subscriptionMap \in [DOMAIN subscriptionMap -> Nat]
  /\ queue \in [Accessors -> Seq(Contents)]
  /\ \A a \in Accessors : Len(queue[a]) <= QueueLen
  /\ data \in [Accessors -> Values \cup {NoData}]
  /\ obj \in [Accessors -> {"none", "live", "dangling"}]
  /\ handling \in [Handlers -> MonIds \cup {0}]
  /\ crashed \in BOOLEAN
  /\ latest \in [Accessors -> Contents \cup {NoData}]
  /\ excRun \in [Accessors -> Nat]

(* The list and the accessors' own lifetimes agree: no node has two items, *)
(* an item has an accessor as long as it exists, and an accessor is in the *)
(* list of its node, once, from its construction to its destruction.       *)
(* subscribe and unsubscribe keep this over every order of constructions   *)
(* and destructions, also after constructors that threw.                   *)
ItemsInUse ==
  /\ \A i, j \in DOMAIN items : items[i] = items[j] => i = j
  /\ \A n \in Nodes : Listed(n) <=> item[n].accessors # <<>>
  /\ \A n \in Nodes : \A i, j \in DOMAIN item[n].accessors :
       item[n].accessors[i] = item[n].accessors[j] => i = j
  /\ \A a \in Accessors, n \in Nodes :
       a \in Users(n) <=> obj[a] # "none" /\ NodeOf[a] = n

(* hasException does its job: however losses of the connection, failed     *)
(* items, deactivations and notifications interleave, an accessor that was *)
(* sent an exception is not sent another one before it was sent a value.   *)
NoRepeatedException == \A a \in Accessors : excRun[a] <= 1

(* What makes NoRepeatedException inductive: an item whose flag is down    *)
(* has sent no exception to its accessors since their last value.          *)
FlagCoversExceptions ==
  \A a \in Accessors :
    /\ excRun[a] <= 1
    /\ obj[a] = "none" => excRun[a] = 0
    /\ obj[a] = "live" /\ excRun[a] = 1 => item[NodeOf[a]].hasException

(* Overflow never hides the present: an accessor that drains its queue     *)
(* ends with what was pushed last, however many pushes a full queue has    *)
(* swallowed before.                                                       *)
NewestKept ==
  \A a \in Accessors :
    IF queue[a] # <<>> THEN Last(queue[a]) = latest[a]
    ELSE latest[a] \in Values => data[a] = latest[a]

(* Every entry of subscriptionMap leads to the item that has its id: the   *)
(* comment on subscriptionMap, "map that links a monitoredItemId to the    *)
(* corresponding MonitoredItem in _items".                                 *)
MapLinksItem ==
  \A id \in DOMAIN subscriptionMap :
    LiveSlot(id) /\ item[ItemAt(id)].id = id

=============================================================================
