------------------------ MODULE OneApplicationProofs ------------------------
(***************************************************************************)
(* Proofs about SubscriptionManager with one application thread, which is  *)
(* how the lifecycle functions of a backend are used by a single-threaded  *)
(* application; the client thread, its callbacks and the server run beside *)
(* it.                                                                     *)
(*                                                                         *)
(* What close, setException and stopClientThread promise depends on where  *)
(* that thread is: between the end of be.opened or the begin of an         *)
(* exception and the end of deactivate the flags are still up.  Phase says *)
(* for every place of the thread what holds there; ClientOK that the       *)
(* client thread has a handle, or its creator is about to store it.        *)
(* Together with ControlInv of SubscriptionManagerProofs they are          *)
(* inductive.                                                              *)
(*                                                                         *)
(* A second application thread breaks them: it may start the client thread *)
(* while the first one is between joining it and disconnecting.            *)
(***************************************************************************)
EXTENDS SubscriptionManagerProofs

(* Neither asynchronous reading nor the loop of runClient is on.           *)
NotReading == ~sm.async /\ ~sm.run

(* No handle of a client thread, and no such thread.                       *)
NoThread == ~sm.thread /\ th[Client].pc = "idle"

(* Thread a is about to switch asynchronous reading off: it has not yet    *)
(* called deactivate, or is in it.                                         *)
Stopping(a) == th[a].pc \in {"joinOpen", "reset"} \/ th[a].deact # "none"

(* What holds where thread a is.                                           *)
Phase(a) ==
  /\ th[a].pc \in {"async", "activateItems"} => th[a].op = "activate"
  /\ th[a].pc \in {"created", "addNext", "addLock", "addItem", "added", "addFailed"}
       => th[a].op \in {"open", "activate", "construct"}
  /\ th[a].pc = "start" => th[a].op \in {"activate", "construct"}
  /\ th[a].pc \in {"spawn", "assign"} => IsFunctional /\ ~sm.thread
  /\ th[a].op \in {"activate", "construct"} => be.manager
  /\ th[a].op = "activate" => IsFunctional
  /\ th[a].pc = "joinOpen" => ~cn.connected \/ Reconnects
  /\ th[a].pc \in {"joinReset", "joinLast"} => ~sm.run
  /\ th[a].deact \in {"sub", "lock", "remove", "async"} => ~sm.run
  /\ th[a].pc = "resetItems" => th[a].deact # "none" \/ ~sm.run
  /\ ~IsFunctional => NotReading \/ Stopping(a)
  /\ ~be.opened => NoThread \/ th[a].pc \in {"joinOpen", "reset", "resetItems",
                                             "joinReset"}
  /\ ~be.manager => NotReading /\ NoThread
  /\ th[a].pc \in {"spawn", "assign"} => be.manager

(* A running client thread has its handle, except while start assigns it.  *)
ClientOK(a) ==
  /\ th[Client].pc = "idle" => th[Client] = Idle
  /\ th[Client].pc # "idle" => sm.thread \/ th[a].pc = "assign"

-----------------------------------------------------------------------------
(* What is known of the threads and flags by their types.                  *)
LEMMA Typed ==
  ASSUME ThreadsOK, FlagsOK, NEW a \in Apps
  PROVE  /\ a \in Threads /\ Client \in Threads /\ a # Client
         /\ th \in [Threads -> Thread] /\ th[a] \in Thread /\ th[Client] \in Thread
         /\ sm \in Flags /\ be \in Backend /\ cn \in Connection
BY ManagerAssumption DEF Threads, ThreadsOK, FlagsOK

(* Steps of a thread, seen from the invariant.                             *)
Moves(a, l) ==
  /\ th'[a].pc = l /\ th'[a].op = th[a].op /\ th'[a].deact = th[a].deact
  /\ th'[Client] = th[Client]

(* The forms of a move.                                                    *)
LEMMA GotoMoves ==
  ASSUME ThreadsOK, FlagsOK, NEW a \in Apps, NEW l, NEW i, NEW m,
         \/ Goto(a, l)
         \/ th' = [th EXCEPT ![a].pc = l, ![a].idx = i]
         \/ th' = [th EXCEPT ![a].pc = l, ![a].id = m]
         \/ th' = [th EXCEPT ![a].pc = l, ![a].idx = i, ![a].id = m]
  PROVE  Moves(a, l)
BY Typed DEF Goto, Moves, Thread

(* An operation of a thread ends.                                          *)
Ends(a) ==
  /\ th'[a].pc = "idle" /\ th'[a].op = "none" /\ th'[a].deact = "none"
  /\ th'[Client] = th[Client]

(* The end of an operation, by its parts.                                  *)
LEMMA DoneEnds ==
  ASSUME ThreadsOK, FlagsOK, NEW a \in Apps, Done(a)
  PROVE  Ends(a)
BY Typed DEF Done, Ends, Idle

(* The flags of the manager stay.                                          *)
SameFlags == sm'.run = sm.run /\ sm'.async = sm.async /\ sm'.thread = sm.thread

(* Steps that neither start nor stop anything.                             *)
LEMMA PlainStep ==
  ASSUME NEW a \in Apps, Phase(a), ClientOK(a),
         NEW k, At(a, k), k \notin {"joinOpen", "reset", "resetItems", "joinReset",
                                    "assign"},
         NEW l, l \notin {"joinOpen", "reset", "joinReset", "joinLast", "resetItems",
                          "spawn", "assign"},
         \/ Ends(a)
         \/ /\ Moves(a, l)
            /\ l \in {"async", "activateItems"} => th[a].op = "activate"
            /\ l \in {"created", "addNext", "addLock", "addItem", "added",
                      "addFailed"}
                 => th[a].op \in {"open", "activate", "construct"}
            /\ l = "start" => th[a].op \in {"activate", "construct"},
         SameFlags, be' = be
  PROVE  Phase(a)' /\ ClientOK(a)'
<1>1. th[a].deact = "none" /\ th[a].pc = k /\ ~Stopping(a)
  BY DEF At, Stopping
<1>2. CASE Ends(a)
  BY <1>1, <1>2 DEF Ends, SameFlags, Phase, ClientOK, NoThread, NotReading,
                    IsFunctional
<1>3. CASE Moves(a, l)
  BY <1>1, <1>3 DEF Moves, Ends, SameFlags, Phase, ClientOK, NoThread, NotReading,
                    IsFunctional
<1> QED
  BY <1>2, <1>3

(* The steps of operations that neither start nor stop anything.           *)
LEMMA PlainSteps ==
  ASSUME ThreadsOK, FlagsOK, NEW a \in Apps, Phase(a), ClientOK(a),
         \/ Connect(a) \/ CreateSubscription(a) \/ CreateRemove(a) \/ Create(a)
         \/ Created(a) \/ CreateFailed(a) \/ ActivateAll(a) \/ AddNext(a)
         \/ AddItem(a) \/ Added(a) \/ AddFailed(a)
         \/ Subscribed(a) \/ Unsubscribed(a) \/ DeleteItem(a) \/ RemoveLast(a)
         \/ TransferDone(a) \/ \E n \in Nodes : HandleError(a, n)
  PROVE  Phase(a)' /\ ClientOK(a)'
<1>0. /\ a \in Threads /\ sm \in Flags
      /\ \A k : At(a, k) => OpFits(k, th[a].op) /\ th[a].pc = k
  BY Typed, OpAt DEF At
<1>1. SameFlags /\ be' = be
  BY <1>0 DEF Connect, CreateSubscription, CreateRemove, Create, Created, CreateFailed,
      ActivateAll, AddNext, AddItem, Added, AddFailed, Subscribed,
      Unsubscribed, DeleteItem, RemoveLast, TransferDone, HandleError,
      RemoveSubscription, Removed, SameFlags, Flags
<1>2. CASE Connect(a) \/ CreateSubscription(a) \/ CreateRemove(a)
  <2>1. PICK k \in {"connect", "createSub", "createRemove"},
             l \in {"createSub", "opened", "createRemove", "createLock"} :
          At(a, k) /\ (Done(a) \/ Goto(a, l))
    BY <1>2 DEF Connect, CreateSubscription, CreateRemove
  <2> QED
    BY <1>1, <2>1, GotoMoves, DoneEnds, PlainStep
<1>3. CASE Create(a) \/ CreateFailed(a)
  <2>1. PICK k \in {"create", "createFailed"}, l \in {"created", "createFailed"} :
          At(a, k) /\ (Done(a) \/ Goto(a, l))
    BY <1>3 DEF Create, CreateFailed
  <2>2. th[a].op \in {"open", "activate", "construct"}
    BY <1>0, <2>1 DEF OpFits
  <2> QED
    BY <1>1, <2>1, <2>2, GotoMoves, DoneEnds, PlainStep
<1>4. CASE Created(a)
  <2>1. At(a, "created") /\ th[a].op \in {"open", "activate", "construct"}
    BY <1>0, <1>4 DEF Created, Phase
  <2>2. PICK l \in {"async", "addNext"} :
          /\ th' = [th EXCEPT ![a].pc = l, ![a].idx = 1]
          /\ l = "async" => th[a].op = "activate"
    BY <1>4 DEF Created
  <2> QED
    BY <1>1, <2>1, <2>2, GotoMoves, PlainStep
<1>5. CASE ActivateAll(a)
  <2>1. /\ At(a, "activateItems") /\ Goto(a, "start") /\ th[a].op = "activate"
    BY <1>0, <1>5 DEF ActivateAll, Phase
  <2>2. Moves(a, "start")
    BY <2>1, GotoMoves
  <2> QED
    BY <1>1, <2>1, <2>2, PlainStep
<1>6. CASE AddNext(a)
  <2>1. At(a, "addNext") /\ th[a].op \in {"open", "activate", "construct"}
    BY <1>0, <1>6 DEF AddNext, Phase
  <2>2. PICK l \in {"addLock", "opened", "start"} :
          /\ \E i : th' = [th EXCEPT ![a].pc = l, ![a].idx = i]
          /\ l = "start" => th[a].op # "open"
    BY <1>6, Zenon DEF AddNext
  <2>3. PICK i : th' = [th EXCEPT ![a].pc = l, ![a].idx = i]
    BY <2>2
  <2>4. Moves(a, l)
    BY <2>3, GotoMoves
  <2> QED
    BY <1>1, <2>1, <2>2, <2>4, PlainStep
<1>7. CASE AddItem(a) \/ Added(a) \/ AddFailed(a)
  <2>1. PICK k \in {"addItem", "added", "addFailed"} : At(a, k)
    BY <1>7 DEF AddItem, Added, AddFailed
  <2>2. th[a].op \in {"open", "activate", "construct"}
    BY <1>0, <2>1 DEF Phase
  <2>3. \E l \in {"added", "addFailed", "addNext"} : Moves(a, l)
    <3>1. CASE AddItem(a)
      <4>1. CASE Goto(a, "addFailed")
        BY <4>1, GotoMoves
      <4>2. ASSUME NEW id, th' = [th EXCEPT ![a].pc = "added", ![a].id = id]
            PROVE  Moves(a, "added")
        BY <4>2, GotoMoves
      <4> QED
        BY <3>1, <4>1, <4>2 DEF AddItem
    <3>2. CASE Added(a)
      <4>1. Moves(a, "addNext")
        BY <1>0, <3>2, Typed DEF Added, Moves, Thread
      <4> QED
        BY <4>1
    <3>3. CASE AddFailed(a)
      <4>1. Moves(a, "addNext")
        BY <1>0, <3>3, Typed DEF AddFailed, Moves, Thread
      <4> QED
        BY <4>1
    <3> QED
      BY <1>7, <3>1, <3>2, <3>3
  <2> QED
    BY <1>1, <2>1, <2>2, <2>3, PlainStep
<1>8. CASE Subscribed(a)
  <2>1. At(a, "subscribed") /\ th[a].op = "construct"
    BY <1>0, <1>8 DEF Subscribed, OpFits
  <2>2. PICK l \in {"start", "addNext", "createSub"} :
          th' = [th EXCEPT ![a].pc = l, ![a].idx = 1]
    BY <1>8 DEF Subscribed
  <2> QED
    BY <1>1, <2>1, <2>2, GotoMoves, PlainStep
<1>9. CASE \/ Unsubscribed(a) \/ DeleteItem(a) \/ RemoveLast(a) \/ TransferDone(a)
           \/ \E n \in Nodes : HandleError(a, n)
  <2>1. PICK k \in {"unsubscribed", "unsub", "last", "read", "readError"},
             l \in {"unsubLock", "lastLock", "lastRun", "readError", "disconnect"} :
          At(a, k) /\ (Done(a) \/ Goto(a, l))
    BY <1>9 DEF Unsubscribed, DeleteItem, RemoveLast, TransferDone, HandleError
  <2> QED
    BY <1>1, <2>1, GotoMoves, DoneEnds, PlainStep
<1> QED
  BY <1>2, <1>3, <1>4, <1>5, <1>6, <1>7, <1>8, <1>9

-----------------------------------------------------------------------------
(* start finds no client thread and no handle, so it never ends the        *)
(* process.                                                                *)
LEMMA StartSucceeds ==
  ASSUME ThreadsOK, FlagsOK, NEW a \in Apps, Phase(a), ClientOK(a)
  PROVE  /\ Spawn(a) => /\ th[Client] = Idle /\ UNCHANGED itemVars
                        /\ th' = [th EXCEPT ![a].pc = "assign",
                                            ![Client].pc = "loop"]
         /\ Assign(a) => ~sm.thread /\ Done(a) /\ UNCHANGED itemVars
<1>1. ASSUME Spawn(a) PROVE th[Client] = Idle
  <2>1. th[a].pc = "spawn" /\ ~sm.thread
    BY <1>1 DEF Spawn, At, Phase
  <2> QED
    BY <2>1 DEF ClientOK
<1>2. ASSUME Assign(a) PROVE ~sm.thread
  BY <1>2 DEF Assign, At, Phase
<1> QED
  BY <1>1, <1>2 DEF Spawn, Assign

(* The steps that start and stop threads and reading.                      *)
LEMMA HandlePhase ==
  ASSUME ThreadsOK, FlagsOK, NEW a \in Apps, Apps = {a}, Phase(a), ClientOK(a),
         AcquireClientLock(a) \/ Join(a) \/ Start(a) \/ Spawn(a) \/ Assign(a)
         \/ ActivateAsync(a) \/ StopLast(a)
  PROVE  Phase(a)' /\ ClientOK(a)'
<1>0. /\ a # Client /\ sm \in Flags /\ th \in [Threads -> Thread]
      /\ a \in Threads /\ Client \in Threads
      /\ \A k : At(a, k) => th[a].pc = k /\ th[a].deact = "none"
  BY Typed DEF At
<1>1. CASE AcquireClientLock(a)
  <2>1. PICK l \in DOMAIN Section : At(a, l) /\ Goto(a, Section[l])
    BY <1>1 DEF AcquireClientLock
  <2>2. /\ Section[l] \in {"disconnect", "connect", "create", "addItem", "unsub",
                           "last", "read", "iterate", "exit"}
        /\ l \notin {"joinOpen", "reset", "resetItems", "joinReset", "assign"}
        /\ Section[l] = "addItem" => l = "addLock"
    BY LabelFacts DEF Section
  <2>3. Section[l] = "addItem" => th[a].op \in {"open", "activate", "construct"}
    BY <1>0, <2>1, <2>2 DEF Phase
  <2>4. SameFlags /\ be' = be
    BY <1>1 DEF AcquireClientLock, SameFlags
  <2> QED
    BY <2>1, <2>2, <2>3, <2>4, GotoMoves, PlainStep
<1>2. CASE Join(a)
  <2>1. /\ sm.thread => th[Client] = Idle
        /\ sm'.thread = FALSE /\ sm'.run = sm.run /\ sm'.async = sm.async
        /\ be' = be /\ cn' = cn
    BY <1>0, <1>2 DEF Join, Flags
  <2>2. PICK l \in DOMAIN AfterJoin :
          /\ At(a, l)
          /\ IF AfterJoin[l] = "idle" THEN Done(a) ELSE Goto(a, AfterJoin[l])
    BY <1>2 DEF Join
  <2>3. th[Client] = Idle
    BY <1>0, <2>1, <2>2, LabelFacts DEF ClientOK
  <2>4. \/ l = "joinOpen" /\ Moves(a, "reset")
        \/ l = "joinReset" /\ Moves(a, "closeLock")
        \/ l = "joinLast" /\ Ends(a)
    <3>1. /\ l \in {"joinOpen", "joinReset", "joinLast"}
          /\ l = "joinOpen" => AfterJoin[l] = "reset"
          /\ l = "joinReset" => AfterJoin[l] = "closeLock"
          /\ l = "joinLast" => AfterJoin[l] = "idle"
      BY LabelFacts DEF AfterJoin
    <3> QED
      BY <2>2, <3>1, GotoMoves, DoneEnds
  <2>5. th[Client].pc = "idle"
    BY <2>3 DEF Idle
  <2> QED
    BY <1>0, <2>1, <2>2, <2>3, <2>4, <2>5
       DEF Moves, Ends, Phase, ClientOK, NoThread, NotReading, Stopping, IsFunctional
<1>3. CASE Start(a)
  <2>1. At(a, "start") /\ be' = be /\ cn' = cn /\ th[a].op \in {"activate", "construct"}
    BY <1>0, <1>3 DEF Start, Phase
  <2>2. ~IsFunctional => NotReading
    BY <1>0, <2>1 DEF Phase, Stopping
  <2>3. CASE sm' = sm /\ Done(a)
    BY <2>1, <2>3, DoneEnds, PlainStep DEF SameFlags
  <2>4. CASE ~(sm' = sm /\ Done(a))
    <3>1. /\ ~sm.thread /\ (th[a].op = "construct" => sm.async)
          /\ sm'.run = sm.active /\ sm'.async = sm.async /\ sm'.thread = FALSE
          /\ IF sm.active THEN Goto(a, "spawn") ELSE Done(a)
      BY <1>0, <1>3, <2>4 DEF Start, Flags
    <3>2. IsFunctional /\ be.manager
      BY <1>0, <2>1, <2>2, <3>1 DEF Phase, NotReading
    <3>3. (Moves(a, "spawn") \/ Ends(a)) /\ th'[Client] = th[Client]
      BY <3>1, GotoMoves, DoneEnds DEF Moves, Ends
    <3> QED
      BY <1>0, <2>1, <3>1, <3>2, <3>3
         DEF Moves, Ends, Phase, ClientOK, IsFunctional
  <2> QED
    BY <2>3, <2>4
<1>4. CASE Spawn(a)
  <2>1. /\ At(a, "spawn") /\ sm' = sm /\ be' = be /\ cn' = cn
        /\ th'[a].pc = "assign" /\ th'[a].op = th[a].op
        /\ th'[a].deact = th[a].deact /\ th'[Client].pc = "loop"
    BY <1>0, <1>4, Typed, StartSucceeds DEF Spawn, Thread, Idle
  <2> QED
    BY <1>0, <2>1 DEF Phase, ClientOK, IsFunctional
<1>5. CASE Assign(a)
  <2>1. /\ At(a, "assign") /\ Ends(a) /\ be' = be /\ cn' = cn
        /\ sm'.thread = TRUE /\ sm'.run = sm.run /\ sm'.async = sm.async
    BY <1>0, <1>5, DoneEnds, StartSucceeds DEF Assign, Flags
  <2> QED
    BY <1>0, <2>1 DEF Ends, Phase, ClientOK, IsFunctional
<1>6. CASE ActivateAsync(a)
  <2>1. /\ At(a, "async") /\ be' = be /\ cn' = cn
        /\ sm'.thread = sm.thread /\ sm'.run = sm.run
    BY <1>0, <1>6 DEF ActivateAsync, Flags
  <2>2. PICK l \in {"addNext", "activateItems"} :
          th' = [th EXCEPT ![a].pc = l, ![a].idx = 1]
    BY <1>6 DEF ActivateAsync
  <2>3. Moves(a, l)
    BY <2>2, GotoMoves
  <2> QED
    BY <1>0, <2>1, <2>2, <2>3 DEF Moves, Phase, ClientOK, IsFunctional
<1>7. CASE StopLast(a)
  <2>1. /\ At(a, "lastRun") /\ Moves(a, "joinLast") /\ be' = be /\ cn' = cn
        /\ sm'.thread = sm.thread /\ sm'.run = FALSE /\ sm'.async = sm.async
    BY <1>0, <1>7, GotoMoves DEF StopLast, Flags
  <2> QED
    BY <1>0, <2>1 DEF Moves, Phase, ClientOK, NoThread, NotReading, Stopping,
                      IsFunctional
<1> QED
  BY <1>1, <1>2, <1>3, <1>4, <1>5, <1>6, <1>7

(* The steps of open, close and setException.                              *)
LEMMA LifecyclePhase ==
  ASSUME ThreadsOK, FlagsOK, NEW a \in Apps, Apps = {a}, Phase(a), ClientOK(a),
         \/ Open(a) \/ Close(a) \/ ResetClient(a) \/ ResetItems(a)
         \/ Disconnect(a) \/ AfterDisconnect(a) \/ FinishOpen(a)
         \/ Activate(a) \/ Transfer(a)
         \/ \E x \in Accessors : Construct(a, x) \/ Destruct(a, x)
                                 \/ PopException(a, x)
  PROVE  Phase(a)' /\ ClientOK(a)'
<1>0. /\ a # Client /\ sm \in Flags /\ th \in [Threads -> Thread]
      /\ be \in Backend /\ cn \in Connection
      /\ a \in Threads /\ Client \in Threads /\ th[a] \in Thread
      /\ \A k : At(a, k) => th[a].pc = k /\ th[a].deact = "none"
  BY Typed DEF At
<1>1. ASSUME NEW o, NEW l, Begin(a, o, l)
      PROVE  /\ th'[a].pc = l /\ th'[a].op = o /\ th'[a].deact = th[a].deact
             /\ th'[Client] = th[Client]
  BY <1>0, <1>1 DEF Begin, Thread
<1>2. CASE Open(a)
  <2>1. At(a, "idle") /\ sm' = sm /\ cn' = cn
    BY <1>2 DEF Open
  <2>2. CASE cn.connected
    <3>1. th' = th /\ be'.opened = TRUE /\ be'.exception = FALSE
          /\ be'.manager = be.manager
      BY <1>0, <1>2, <2>2 DEF Open, Opened, Backend
    <3> QED
      BY <1>0, <2>1, <3>1 DEF Phase, ClientOK, IsFunctional, NoThread, NotReading
  <2>3. CASE ~cn.connected
    <3>1. PICK l \in {"joinOpen", "reset"} : Begin(a, "open", l) /\ be' = be
      BY <1>2, <2>3 DEF Open
    <3> QED
      BY <1>0, <1>1, <2>1, <2>3, <3>1
         DEF Phase, ClientOK, IsFunctional, NoThread, NotReading, Stopping
  <2> QED
    BY <2>2, <2>3
<1>3. CASE Close(a)
  <2>1. /\ At(a, "idle") /\ sm' = sm /\ cn' = cn /\ Begin(a, "close", "reset")
        /\ be'.opened = FALSE /\ be'.manager = be.manager
    BY <1>0, <1>3 DEF Close, Backend
  <2> QED
    BY <1>0, <1>1, <2>1
       DEF Phase, ClientOK, IsFunctional, NoThread, NotReading, Stopping
<1>4. CASE ResetClient(a)
  <2>1. At(a, "reset") /\ sm' = sm /\ cn' = cn /\ be' = be
        /\ OpFits("reset", th[a].op)
    BY <1>0, <1>4, OpAt DEF ResetClient
  <2>2. /\ th'[a].op = th[a].op /\ th'[Client] = th[Client]
        /\ \/ /\ be.manager /\ th'[a].pc = "resetItems"
              /\ th'[a].deact = "items"
           \/ /\ ~be.manager /\ th'[a].pc = "closeLock"
              /\ th'[a].deact = "none"
    BY <1>0, <1>4, <2>1 DEF ResetClient, Thread
  <2>3. th[a].op \in {"open", "close"}
    BY <2>1 DEF OpFits
  <2> QED
    BY <1>0, <2>1, <2>2, <2>3
       DEF Phase, ClientOK, IsFunctional, NoThread, NotReading, Stopping
<1>5. CASE ResetItems(a)
  <2>1. /\ At(a, "resetItems") /\ sm' = sm /\ cn' = cn /\ be' = be
        /\ Moves(a, "joinReset")
    BY <1>5, GotoMoves DEF ResetItems
  <2> QED
    BY <1>0, <2>1
       DEF Moves, Phase, ClientOK, IsFunctional, NoThread, NotReading, Stopping
<1>6. CASE Disconnect(a)
  <2>1. At(a, "disconnect") /\ be' = be /\ SameFlags
    BY <1>0, <1>6 DEF Disconnect, SameFlags, Flags
  <2>2. /\ th'[a].pc = "disconnected" /\ th'[a].op = th[a].op
        /\ th'[a].deact \in {"none", "exc"} /\ th'[Client] = th[Client]
    BY <1>0, <1>6, <2>1 DEF Disconnect, Disconnected, Thread
  <2> QED
    BY <1>0, <2>1, <2>2
       DEF SameFlags, Phase, ClientOK, IsFunctional, NoThread, NotReading, Stopping
<1>7. ASSUME NEW k \in {"idle", "disconnected"}, At(a, k), SetException(a),
             sm' = sm
      PROVE  Phase(a)' /\ ClientOK(a)'
  <2>1. /\ be'.opened = be.opened /\ be'.exception = TRUE
        /\ be'.manager = be.manager
    BY <1>0, <1>7 DEF SetException, Backend
  <2>2. /\ th'[a].pc = "idle" /\ th'[a].op = "none" /\ th'[Client] = th[Client]
        /\ th'[a].deact = IF ~be.exception /\ be.manager THEN "exc" ELSE "none"
    BY <1>0, <1>7 DEF SetException, Idle
  <2>3. be.exception \/ ~be.manager => NotReading
    BY <1>0, <1>7 DEF Phase, Stopping, IsFunctional
  <2> QED
    BY <1>0, <1>7, <2>1, <2>2, <2>3
       DEF Phase, ClientOK, IsFunctional, NoThread, NotReading, Stopping
<1>8. CASE AfterDisconnect(a)
  <2>1. /\ At(a, "disconnected") /\ sm' = sm
        /\ OpFits("disconnected", th[a].op)
    BY <1>0, <1>8, OpAt DEF AfterDisconnect
  <2>2. th[a].op \in {"open", "close", "transfer"}
    BY <2>1 DEF OpFits
  <2>3. CASE th[a].op = "close"
    BY <1>8, <2>1, <2>3, DoneEnds, PlainStep DEF AfterDisconnect, SameFlags
  <2>4. CASE th[a].op = "open"
    BY <1>8, <2>1, <2>4, GotoMoves, PlainStep DEF AfterDisconnect, SameFlags
  <2>5. CASE th[a].op = "transfer"
    BY <1>7, <1>8, <2>1, <2>5 DEF AfterDisconnect
  <2> QED
    BY <2>2, <2>3, <2>4, <2>5
<1>9. CASE FinishOpen(a)
  <2>1. At(a, "opened") /\ Ends(a) /\ sm' = sm /\ cn' = cn
    BY <1>9, DoneEnds DEF FinishOpen
  <2>2. CASE be' = be
    BY <2>1, <2>2, PlainStep DEF SameFlags
  <2>3. CASE be' # be
    <3>1. be'.opened = TRUE /\ be'.exception = FALSE /\ be'.manager = be.manager
      BY <1>0, <1>9, <2>3 DEF FinishOpen, Opened, Backend
    <3> QED
      BY <1>0, <2>1, <3>1
         DEF Ends, Phase, ClientOK, IsFunctional, NoThread, NotReading, Stopping
  <2> QED
    BY <2>2, <2>3
<1>10. CASE Activate(a)
  <2>1. PICK l \in {"async", "createSub"} : Begin(a, "activate", l)
    BY <1>10 DEF Activate
  <2>2. /\ At(a, "idle") /\ IsFunctional /\ sm' = sm /\ cn' = cn
        /\ be'.opened = be.opened /\ be'.exception = be.exception
        /\ be'.manager = TRUE
    BY <1>0, <1>10 DEF Activate, Backend
  <2> QED
    BY <1>0, <1>1, <2>1, <2>2
       DEF Phase, ClientOK, IsFunctional, NoThread, NotReading, Stopping
<1>11. CASE Transfer(a)
  <2>1. /\ At(a, "idle") /\ sm' = sm /\ cn' = cn /\ be' = be
        /\ Begin(a, "transfer", "readLock")
    BY <1>11 DEF Transfer
  <2> QED
    BY <1>0, <1>1, <2>1
       DEF Phase, ClientOK, IsFunctional, NoThread, NotReading, Stopping
<1>12. ASSUME NEW x \in Accessors, Construct(a, x) PROVE Phase(a)' /\ ClientOK(a)'
  <2>1. /\ At(a, "idle") /\ SameFlags /\ cn' = cn
        /\ be'.opened = be.opened /\ be'.exception = be.exception
        /\ be'.manager = TRUE
    BY <1>0, <1>12 DEF Construct, Backend, SameFlags, Flags
  <2>2. CASE th' = th
    BY <1>0, <2>1, <2>2
       DEF SameFlags, Phase, ClientOK, IsFunctional, NoThread, NotReading, Stopping
  <2>3. CASE th' # th
    <3>1. PICK l \in {"start", "subscribed"} :
            /\ th'[a].pc = l /\ th'[a].op = "construct"
            /\ th'[a].deact = th[a].deact /\ th'[Client] = th[Client]
      BY <1>0, <1>1, <1>12, <2>3 DEF Construct, Thread
    <3> QED
      BY <1>0, <2>1, <3>1
         DEF SameFlags, Phase, ClientOK, IsFunctional, NoThread, NotReading, Stopping
  <2> QED
    BY <2>2, <2>3
<1>13. ASSUME NEW x \in Accessors, Destruct(a, x) PROVE Phase(a)' /\ ClientOK(a)'
  <2>1. At(a, "idle") /\ sm' = sm /\ cn' = cn /\ be' = be
    BY <1>13 DEF Destruct
  <2>2. CASE th' = th
    BY <2>1, <2>2
       DEF Phase, ClientOK, IsFunctional, NoThread, NotReading, Stopping
  <2>3. CASE th' # th
    <3>1. /\ th'[a].pc = "unsubscribed" /\ th'[a].op = "destruct"
          /\ th'[a].deact = th[a].deact /\ th'[Client] = th[Client]
      BY <1>0, <1>13, <2>3 DEF Destruct, Thread
    <3> QED
      BY <1>0, <2>1, <3>1
         DEF Phase, ClientOK, IsFunctional, NoThread, NotReading, Stopping
  <2> QED
    BY <2>2, <2>3
<1>14. ASSUME NEW x \in Accessors, PopException(a, x)
       PROVE  Phase(a)' /\ ClientOK(a)'
  BY <1>7, <1>14 DEF PopException
<1> QED
  BY <1>2, <1>3, <1>4, <1>5, <1>6, <1>8, <1>9, <1>10, <1>11, <1>12, <1>13, <1>14

(* The steps of callbacks, in either thread.                               *)
LEMMA CallbackPhase ==
  ASSUME ThreadsOK, FlagsOK, NEW a \in Apps, Apps = {a}, Phase(a), ClientOK(a),
         NEW t \in {a, Client}, Deactivate(t) \/ Callback(t)
  PROVE  Phase(a)' /\ ClientOK(a)'
<1>0. /\ a # Client /\ sm \in Flags /\ th \in [Threads -> Thread]
      /\ be \in Backend /\ cn \in Connection
      /\ a \in Threads /\ Client \in Threads /\ t \in Threads
      /\ th[a] \in Thread /\ th[Client] \in Thread /\ th[t] \in Thread
  BY Typed
(* A step from place d to place e of a callback.                           *)
<1>1. ASSUME NEW d, NEW e, th[t].deact = d, d # "none" \/ th[t].pc # "idle",
             \/ th' = [th EXCEPT ![t].deact = e]
             \/ th' = [th EXCEPT ![t].deact = e, ![t].inactive = TRUE]
             \/ th' = [th EXCEPT ![t].deact = e, ![t].inactive = FALSE],
             d = "none" => th[t].pc # "resetItems" /\ e = "exc",
             e \in {"exc", "items", "run", "sub", "lock", "remove", "async", "none"},
             e = "sub" => ~sm'.run,
             e \in {"lock", "remove", "async", "none"}
               => d \in {"sub", "lock", "remove", "async"},
             e = "none" => ~sm'.async,
             be' = be, cn'.connected => cn.connected, sm'.thread = sm.thread,
             sm'.run = sm.run \/ sm'.run = FALSE,
             sm'.async = sm.async \/ sm'.async = FALSE
      PROVE  Phase(a)' /\ ClientOK(a)'
  <2>1. CASE t = a
    <3>1. /\ th'[a].pc = th[a].pc /\ th'[a].op = th[a].op
          /\ th'[a].deact = e /\ th'[Client] = th[Client]
      BY <1>0, <1>1, <2>1 DEF Thread
    <3> QED
      BY <1>0, <1>1, <2>1, <3>1
         DEF Phase, ClientOK, IsFunctional, NoThread, NotReading, Stopping
  <2>2. CASE t = Client
    <3>1. th[Client].pc # "idle"
      BY <1>1, <2>2 DEF ClientOK, Idle
    <3>2. th'[Client].pc = th[Client].pc /\ th'[a] = th[a]
      BY <1>0, <1>1, <2>2 DEF Thread
    <3> QED
      BY <1>0, <1>1, <2>2, <3>1, <3>2
         DEF Phase, ClientOK, IsFunctional, NoThread, NotReading, Stopping
  <2> QED
    BY <2>1, <2>2
<1>2. CASE DeactivateException(t) \/ DeactivateMapped(t)
  <2>1. PICK d \in {"exc", "items"}, e \in {"items", "run"} :
          th[t].deact = d /\ th' = [th EXCEPT ![t].deact = e]
    BY <1>2 DEF DeactivateException, DeactivateMapped, Deact
  <2>2. sm' = sm /\ be' = be /\ cn' = cn
    BY <1>2 DEF DeactivateException, DeactivateMapped
  <2> QED
    BY <1>1, <2>1, <2>2
<1>3. CASE DeactivateRun(t)
  <2>1. /\ th[t].deact = "run" /\ th' = [th EXCEPT ![t].deact = "sub"]
        /\ sm'.run = FALSE /\ sm'.async = sm.async /\ sm'.thread = sm.thread
        /\ be' = be /\ cn' = cn
    BY <1>0, <1>3 DEF DeactivateRun, Deact, Flags
  <2> QED
    BY <1>1, <2>1
<1>4. CASE DeactivateSubscription(t)
  <2>1. PICK e \in {"lock", "async"} : th' = [th EXCEPT ![t].deact = e]
    BY <1>4 DEF DeactivateSubscription
  <2>2. /\ th[t].deact = "sub"
        /\ sm'.run = sm.run /\ sm'.async = sm.async /\ sm'.thread = sm.thread
        /\ be' = be /\ cn' = cn
    BY <1>0, <1>4 DEF DeactivateSubscription, Deact, Flags
  <2> QED
    BY <1>1, <2>1, <2>2
<1>5. CASE DeactivateLock(t)
  <2>1. /\ th[t].deact = "lock" /\ th' = [th EXCEPT ![t].deact = "remove"]
        /\ sm'.run = sm.run /\ sm'.async = sm.async /\ sm'.thread = sm.thread
        /\ be' = be /\ (cn'.connected => cn.connected)
    BY <1>0, <1>5 DEF DeactivateLock, Deact, Connection
  <2>2. PICK d \in {"lock"}, e \in {"remove"} :
          th[t].deact = d /\ th' = [th EXCEPT ![t].deact = e]
    BY <2>1
  <2> QED
    BY <1>1, <2>1, <2>2
<1>6. CASE DeactivateRemove(t)
  <2>1. /\ th[t].deact = "remove" /\ th' = [th EXCEPT ![t].deact = "async"]
        /\ sm'.run = sm.run /\ sm'.async = sm.async /\ sm'.thread = sm.thread
        /\ be' = be /\ (cn'.connected => cn.connected)
    BY <1>0, <1>6
       DEF DeactivateRemove, Deact, Connection, RemoveSubscription, Removed, Flags
  <2>2. PICK d \in {"remove"}, e \in {"async"} :
          th[t].deact = d /\ th' = [th EXCEPT ![t].deact = e]
    BY <2>1
  <2> QED
    BY <1>1, <2>1, <2>2
<1>7. CASE DeactivateAsync(t)
  <2>1. /\ th[t].deact = "async"
        /\ th' = [th EXCEPT ![t].deact = "none", ![t].inactive = FALSE]
        /\ sm'.run = sm.run /\ sm'.async = FALSE /\ sm'.thread = sm.thread
        /\ be' = be /\ (cn'.connected => cn.connected)
    BY <1>0, <1>7 DEF DeactivateAsync, Deact, Connection, Flags
  <2> QED
    BY <1>1, <2>1
<1>8. ASSUME InCall(t)
      PROVE  th[t].deact = "none" /\ th[t].pc \notin {"idle", "resetItems"}
  BY <1>8 DEF InCall, ClientCalls, At
<1>9. ASSUME th' = th, be' = be, SameFlags,
             (cn'.connected => cn.connected) \/ Reconnects
      PROVE  Phase(a)' /\ ClientOK(a)'
  BY <1>9 DEF SameFlags, Phase, ClientOK, IsFunctional, NoThread, NotReading,
              Stopping
<1>10. CASE StateCallback(t)
  <2>1. /\ sm'.run = sm.run /\ sm'.async = sm.async /\ sm'.thread = sm.thread
        /\ be' = be /\ (cn'.connected => cn.connected) /\ InCall(t)
    BY <1>0, <1>10 DEF StateCallback, Disconnected, Connection
  <2>2. th' = th \/ th' = [th EXCEPT ![t].deact = "exc"]
    BY <1>0, <1>10 DEF StateCallback, Disconnected, Thread
  <2>3. CASE th' = th
    BY <1>9, <2>1, <2>3 DEF SameFlags
  <2>4. CASE th' = [th EXCEPT ![t].deact = "exc"]
    <3>1. th[t].deact = "none" /\ th[t].pc \notin {"idle", "resetItems"}
      BY <1>8, <2>1
    <3> QED
      BY <1>1, <2>1, <2>4, <3>1
  <2> QED
    BY <2>2, <2>3, <2>4
<1>11. CASE InactivityCallback(t)
  BY <1>1, <1>8, <1>11 DEF InactivityCallback
<1>12. CASE DataCallback(t) \/ DataPush(t)
  BY <1>9, <1>12 DEF DataCallback, DataPush, controlVars, SameFlags
<1>13. CASE SessionReused(t)
  BY <1>9, <1>13 DEF SessionReused, SameFlags
<1> QED
  BY <1>2, <1>3, <1>4, <1>5, <1>6, <1>7, <1>10, <1>11, <1>12, <1>13
     DEF Deactivate, Callback

(* The steps of runClient, and those of nobody's thread.                   *)
LEMMA ClientPhase ==
  ASSUME ThreadsOK, FlagsOK, NEW a \in Apps, Apps = {a}, Phase(a), ClientOK(a),
         \/ ClientStep \/ Environment \/ UNCHANGED vars
         \/ \E x \in Accessors : PopValue(x)
  PROVE  Phase(a)' /\ ClientOK(a)'
<1>0. /\ a # Client /\ sm \in Flags /\ th \in [Threads -> Thread]
      /\ be \in Backend /\ cn \in Connection
      /\ a \in Threads /\ Client \in Threads
      /\ th[a] \in Thread /\ th[Client] \in Thread
  BY Typed
<1>1. ASSUME NEW k, k # "idle", At(Client, k), NEW l, l # "idle", Goto(Client, l),
             be' = be, SameFlags, cn'.connected = cn.connected
      PROVE  Phase(a)' /\ ClientOK(a)'
  <2>1. th'[a] = th[a] /\ th'[Client].pc = l /\ th[Client].pc = k
    BY <1>0, <1>1 DEF Goto, At, Thread
  <2> QED
    BY <1>1, <2>1 DEF SameFlags, Phase, ClientOK, IsFunctional, NoThread,
                      NotReading, Stopping
<1>2. CASE AcquireClientLock(Client)
  <2>1. PICK k \in DOMAIN Section : At(Client, k) /\ Goto(Client, Section[k])
    BY <1>2 DEF AcquireClientLock
  <2>2. k # "idle" /\ Section[k] # "idle"
    BY LabelFacts DEF Section
  <2>3. be' = be /\ SameFlags /\ cn'.connected = cn.connected
    BY <1>0, <1>2 DEF AcquireClientLock, SameFlags, Connection
  <2> QED
    BY <1>1, <2>1, <2>2, <2>3
<1>3. CASE RunLoop \/ RunIterate \/ RunExit
  <2>1. PICK k \in {"loop", "iterate", "exit"},
             l \in {"iterLock", "exitLock", "loop", "exitRun"} :
          At(Client, k) /\ Goto(Client, l)
    BY <1>3 DEF RunLoop, RunIterate, RunExit
  <2>2. be' = be /\ SameFlags /\ cn'.connected = cn.connected
    BY <1>0, <1>3 DEF RunLoop, RunIterate, RunExit, RemoveSubscription, Removed,
                      SameFlags, Unlock, Connection, Flags
  <2> QED
    BY <1>1, <2>1, <2>2
<1>4. CASE RunEnd
  <2>1. /\ th'[a] = th[a] /\ th'[Client] = Idle /\ be' = be /\ cn' = cn
        /\ sm'.run = FALSE /\ sm'.async = sm.async /\ sm'.thread = sm.thread
        /\ th[Client].pc # "idle"
    BY <1>0, <1>4 DEF RunEnd, Done, At, Flags
  <2> QED
    BY <2>1 DEF Idle, Phase, ClientOK, IsFunctional, NoThread, NotReading,
                Stopping
<1>5. CASE Environment \/ UNCHANGED vars \/ \E x \in Accessors : PopValue(x)
  <2>1. th' = th /\ sm' = sm /\ be' = be /\ cn' = cn
    BY <1>5 DEF Environment, ValueChange, LoseLink, RestoreLink, vars,
                controlVars, PopValue
  <2> QED
    BY <2>1 DEF Phase, ClientOK, IsFunctional, NoThread, NotReading, Stopping
<1> QED
  BY <1>2, <1>3, <1>4, <1>5 DEF ClientStep

-----------------------------------------------------------------------------
(* With one application thread the phases are kept by every step.          *)
OneInv(a) == ControlInv /\ Phase(a) /\ ClientOK(a)

(* The phases hold initially.                                              *)
LEMMA OneInit ==
  ASSUME NEW a, Apps = {a}, Init
  PROVE  OneInv(a)
<1>1. ControlInv
  BY ControlInit, TypeInit, InUseInit DEF Init, ControlInv
<1>2. th[a] = Idle /\ th[Client] = Idle
  BY DEF Init, Threads
<1>3. sm.run = FALSE /\ sm.async = FALSE /\ sm.thread = FALSE
  BY DEF Init
<1> QED
  BY <1>1, <1>2, <1>3
     DEF OneInv, Phase, ClientOK, Idle, NotReading, NoThread, IsFunctional

(* Every step keeps the phases.                                            *)
LEMMA OneStep ==
  ASSUME NEW a, Apps = {a}, OneInv(a), [Next]_vars
  PROVE  OneInv(a)'
<1>1. ControlInv'
  BY ItemsStep, TypeStep, InUseStep, ThreadsStep, FlagsStep DEF ControlInv, OneInv
<1>2. /\ a \in Apps /\ ThreadsOK /\ FlagsOK /\ Phase(a) /\ ClientOK(a)
      /\ Threads = {a, Client}
  BY DEF OneInv, ControlInv, Threads
<1>3. Phase(a)' /\ ClientOK(a)'
  <2>1. CASE AppBegin(a)
    BY <1>2, <2>1, LifecyclePhase DEF AppBegin
  <2>2. CASE AppStep(a)
    BY <1>2, <2>2, LifecyclePhase, HandlePhase, PlainSteps DEF AppStep
  <2>3. CASE \E t \in {a, Client} : Deactivate(t) \/ Callback(t)
    BY <1>2, <2>3, CallbackPhase
  <2>4. CASE \/ ClientStep \/ Environment \/ UNCHANGED vars
             \/ \E x \in Accessors : PopValue(x)
    BY <1>2, <2>4, ClientPhase
  <2> QED
    BY <1>2, <2>1, <2>2, <2>3, <2>4 DEF Next
<1> QED
  BY <1>1, <1>3 DEF OneInv

(* The phases hold in every state.                                         *)
LEMMA OneInvariant ==
  ASSUME NEW a, Apps = {a}
  PROVE  Spec => []OneInv(a)
<1>1. Init => OneInv(a)
  BY OneInit
<1>2. OneInv(a) /\ [Next]_vars => OneInv(a)'
  BY OneStep
<1> QED
  BY <1>1, <1>2, PTL DEF Spec

(* close and setException have switched asynchronous reading off when they *)
(* return, and only activateAsyncRead of a functional device switches it   *)
(* on again.                                                               *)
THEOREM ReadingStops ==
  ASSUME NEW a, Apps = {a}
  PROVE  Spec => []ReadingNeedsFunctional
<1>1. OneInv(a) => ReadingNeedsFunctional
  BY DEF OneInv, Phase, ReadingNeedsFunctional, NotReading, Stopping, AppsIdle, Idle
<1> QED
  BY <1>1, OneInvariant, PTL

(* close has joined the client thread when it returns, also a thread that  *)
(* activateAsyncRead or a constructor started since the last open.         *)
THEOREM CloseJoins ==
  ASSUME NEW a, Apps = {a}
  PROVE  Spec => []CloseStopsThread
<1>1. ASSUME OneInv(a), AppsIdle, ~be.opened
      PROVE  ~sm.thread /\ th[Client] = Idle
  <2>1. th[a] = Idle
    BY <1>1 DEF AppsIdle
  <2>2. NoThread
    BY <1>1, <2>1 DEF OneInv, Phase, Idle
  <2> QED
    BY <1>1, <2>2 DEF OneInv, ClientOK, NoThread
<1>2. OneInv(a) => CloseStopsThread
  BY <1>1 DEF CloseStopsThread
<1> QED
  BY <1>2, OneInvariant, PTL

(* stopClientThread is called only after the loop was told to stop or the  *)
(* connection went.  A library that took the session up again while open   *)
(* waits would leave the thread in its loop.                               *)
THEOREM JoinsEnd ==
  ASSUME NEW a, Apps = {a}, ~Reconnects
  PROVE  Spec => []JoinHasReason
<1>1. OneInv(a) => JoinHasReason
  BY LabelFacts DEF OneInv, Phase, JoinHasReason
<1> QED
  BY <1>1, OneInvariant, PTL

-----------------------------------------------------------------------------
(* The handle of the client thread.  What its owner sees of the thread:    *)
Body == IF th[Client] # Idle THEN "running"
        ELSE IF sm.thread \/ \E t \in Apps : th[t].pc = "assign"
             THEN "returned" ELSE "none"

(* A step that neither starts, ends nor joins the thread.                  *)
Quiet(a) ==
  /\ th'[Client].pc = th[Client].pc \/ "idle" \notin {th'[Client].pc, th[Client].pc}
  /\ sm'.thread = sm.thread
  /\ th'[a].pc = "assign" <=> th[a].pc = "assign"

(* A quiet step leaves the handle as it is.                                *)
LEMMA QuietBody ==
  ASSUME NEW a, Apps = {a}, OneInv(a), OneInv(a)', Quiet(a)
  PROVE  Body' = Body
<1>1. /\ th[Client].pc = "idle" <=> th[Client] = Idle
      /\ th'[Client].pc = "idle" <=> th'[Client] = Idle
  BY DEF OneInv, ClientOK, Idle
<1> QED
  BY <1>1 DEF Body, Quiet

(* Most steps are quiet.                                                   *)
LEMMA QuietSteps ==
  ASSUME NEW a, Apps = {a}, OneInv(a),
         \/ AppBegin(a)
         \/ AcquireClientLock(a) \/ Start(a) \/ ActivateAsync(a) \/ StopLast(a)
         \/ ResetClient(a) \/ ResetItems(a) \/ Disconnect(a) \/ AfterDisconnect(a)
         \/ Connect(a) \/ FinishOpen(a)
         \/ CreateSubscription(a) \/ CreateRemove(a) \/ Create(a) \/ Created(a)
         \/ CreateFailed(a) \/ ActivateAll(a) \/ AddNext(a) \/ AddItem(a)
         \/ Added(a) \/ AddFailed(a) \/ Subscribed(a) \/ Unsubscribed(a)
         \/ DeleteItem(a) \/ RemoveLast(a) \/ TransferDone(a)
         \/ \E n \in Nodes : HandleError(a, n)
  PROVE  Quiet(a)
<1>0. /\ a \in Apps /\ a # Client /\ sm \in Flags /\ th \in [Threads -> Thread]
      /\ a \in Threads /\ Client \in Threads /\ th[a] \in Thread
      /\ \A k : At(a, k) => th[a].pc = k
  BY Typed DEF At, OneInv, ControlInv
<1> DEFINE Away == /\ th'[Client] = th[Client] /\ sm'.thread = sm.thread
                   /\ th[a].pc # "assign" /\ th'[a].pc # "assign"
<1>1. ASSUME NEW k, k # "assign", At(a, k), NEW l, l # "assign",
             \/ Goto(a, l) \/ Done(a)
             \/ th' = [th EXCEPT ![a].pc = l, ![a].idx = 1]
      PROVE  /\ th'[Client] = th[Client] /\ th[a].pc # "assign"
             /\ th'[a].pc # "assign"
  BY <1>0, <1>1 DEF Goto, Done, Idle, Thread
<1>2. CASE AppBegin(a)
  <2>1. ASSUME NEW x \in Accessors, Construct(a, x) PROVE Away
    BY <1>0, <2>1 DEF Construct, Begin, Thread, Flags
  <2>2. ASSUME NEW x \in Accessors, Destruct(a, x) \/ PopException(a, x)
        PROVE  Away
    BY <1>0, <2>2 DEF Destruct, PopException, SetException, Idle, Thread
  <2>3. CASE Open(a) \/ Close(a) \/ Activate(a) \/ Transfer(a)
    BY <1>0, <2>3
       DEF Open, Close, Activate, Transfer, Begin, Thread, Quiet
  <2> QED
    BY <1>2, <2>1, <2>2, <2>3 DEF AppBegin, Quiet
<1>3. CASE AcquireClientLock(a)
  <2>1. PICK k \in DOMAIN Section : At(a, k) /\ Goto(a, Section[k]) /\ sm' = sm
    BY <1>3 DEF AcquireClientLock
  <2>2. k # "assign" /\ Section[k] # "assign"
    BY LabelFacts DEF Section
  <2> QED
    BY <1>1, <2>1, <2>2 DEF Quiet
<1>4. CASE Start(a) \/ ActivateAsync(a) \/ StopLast(a)
  <2>1. Away
    BY <1>0, <1>4
       DEF Start, ActivateAsync, StopLast, Goto, Done, Idle, Thread, Flags
  <2> QED
    BY <2>1 DEF Quiet
<1>5. CASE ResetClient(a) \/ ResetItems(a) \/ Disconnect(a) \/ Connect(a)
           \/ FinishOpen(a)
  <2>1. sm'.thread = sm.thread
    BY <1>0, <1>5 DEF ResetClient, ResetItems, Disconnect, Connect, FinishOpen,
                      Flags
  <2>2. CASE ResetClient(a) \/ Disconnect(a)
    <3>1. Away
      BY <1>0, <2>1, <2>2 DEF ResetClient, Disconnect, Disconnected, Thread
    <3> QED
      BY <3>1 DEF Quiet
  <2>3. CASE ResetItems(a) \/ Connect(a) \/ FinishOpen(a)
    <3>1. PICK k \in {"resetItems", "connect", "opened"},
               l \in {"joinReset", "createSub", "opened"} :
            At(a, k) /\ (Goto(a, l) \/ Done(a))
      BY <2>3 DEF ResetItems, Connect, FinishOpen
    <3> QED
      BY <1>1, <2>1, <3>1 DEF Quiet
  <2> QED
    BY <1>5, <2>2, <2>3
<1>6. CASE AfterDisconnect(a)
  <2>1. At(a, "disconnected") /\ sm' = sm /\ OpFits("disconnected", th[a].op)
    BY <1>0, <1>6, OpAt DEF AfterDisconnect, OneInv, ControlInv
  <2>2. Goto(a, "connectLock") \/ Done(a) \/ SetException(a)
    BY <1>6, <2>1 DEF AfterDisconnect, OpFits
  <2>3. Away
    BY <1>0, <2>1, <2>2 DEF Goto, Done, SetException, Idle, Thread
  <2> QED
    BY <2>3 DEF Quiet
<1>7. CASE CreateSubscription(a) \/ CreateRemove(a) \/ Create(a) \/ Created(a)
           \/ CreateFailed(a) \/ ActivateAll(a)
  <2>1. sm'.thread = sm.thread
    BY <1>0, <1>7 DEF CreateSubscription, CreateRemove, Create, Created,
       CreateFailed, ActivateAll, RemoveSubscription, Removed, Flags
  <2>2. PICK k \in {"createSub", "createRemove", "create", "created",
                    "createFailed", "activateItems"},
             l \in {"createRemove", "createLock", "created", "createFailed",
                    "async", "addNext", "start"} :
          /\ At(a, k)
          /\ \/ Goto(a, l) \/ Done(a)
             \/ th' = [th EXCEPT ![a].pc = l, ![a].idx = 1]
    BY <1>7 DEF CreateSubscription, CreateRemove, Create, Created, CreateFailed,
                ActivateAll
  <2> QED
    BY <1>1, <2>1, <2>2 DEF Quiet
<1>8. CASE AddNext(a)
  <2>1. /\ At(a, "addNext") /\ sm' = sm
        /\ \E l \in {"addLock", "opened", "start"} : \E i :
             th' = [th EXCEPT ![a].pc = l, ![a].idx = i]
    BY <1>8, Zenon DEF AddNext
  <2>2. Away
    BY <1>0, <2>1 DEF Thread
  <2> QED
    BY <2>2 DEF Quiet
<1>9. CASE AddItem(a) \/ Added(a) \/ AddFailed(a) \/ Subscribed(a)
           \/ Unsubscribed(a)
  <2>1. sm' = sm /\ th[a].pc # "assign"
    BY <1>0, <1>9 DEF AddItem, Added, AddFailed, Subscribed, Unsubscribed
  <2>2. CASE AddItem(a)
    <3>1. \/ th' = [th EXCEPT ![a].pc = "addFailed"]
          \/ \E m : th' = [th EXCEPT ![a].pc = "added", ![a].id = m]
      BY <2>2, Zenon DEF AddItem, Goto
    <3>2. Away
      BY <1>0, <2>1, <3>1 DEF Thread
    <3> QED
      BY <3>2 DEF Quiet
  <2>3. CASE Added(a) \/ AddFailed(a)
    <3>1. Away
      BY <1>0, <2>1, <2>3 DEF Added, AddFailed, Thread
    <3> QED
      BY <3>1 DEF Quiet
  <2>4. CASE Subscribed(a) \/ Unsubscribed(a)
    <3>1. PICK k \in {"subscribed", "unsubscribed"},
               l \in {"start", "addNext", "createSub", "unsubLock"} :
            /\ At(a, k)
            /\ \/ Goto(a, l) \/ Done(a)
               \/ th' = [th EXCEPT ![a].pc = l, ![a].idx = 1]
      BY <2>4 DEF Subscribed, Unsubscribed
    <3> QED
      BY <1>1, <2>1, <3>1 DEF Quiet
  <2> QED
    BY <1>9, <2>2, <2>3, <2>4
<1>10. CASE \/ DeleteItem(a) \/ RemoveLast(a) \/ TransferDone(a)
            \/ \E n \in Nodes : HandleError(a, n)
  <2>1. sm'.thread = sm.thread
    BY <1>0, <1>10 DEF DeleteItem, RemoveLast, TransferDone, HandleError,
                       RemoveSubscription, Removed, Flags
  <2>2. PICK k \in {"unsub", "last", "read", "readError"},
             l \in {"lastLock", "lastRun", "readError", "disconnect"} :
          At(a, k) /\ (Goto(a, l) \/ Done(a))
    BY <1>10 DEF DeleteItem, RemoveLast, TransferDone, HandleError
  <2> QED
    BY <1>1, <2>1, <2>2 DEF Quiet
<1> QED
  BY <1>2, <1>3, <1>4, <1>5, <1>6, <1>7, <1>8, <1>9, <1>10

(* Callbacks are quiet.                                                    *)
LEMMA QuietCallbacks ==
  ASSUME NEW a, Apps = {a}, OneInv(a),
         NEW t \in {a, Client}, Deactivate(t) \/ Callback(t)
  PROVE  Quiet(a)
<1>0. /\ a \in Apps /\ a # Client /\ sm \in Flags /\ th \in [Threads -> Thread]
      /\ a \in Threads /\ Client \in Threads /\ t \in Threads
      /\ th[a] \in Thread /\ th[Client] \in Thread
  BY Typed DEF OneInv, ControlInv
<1>1. ASSUME NEW l, NEW e, NEW b, sm'.thread = sm.thread,
             \/ th' = th
             \/ th' = [th EXCEPT ![t].deact = e]
             \/ th' = [th EXCEPT ![t].deact = e, ![t].inactive = b]
      PROVE  Quiet(a)
  BY <1>0, <1>1 DEF Quiet, Thread
<1>2. sm'.thread = sm.thread
  BY <1>0 DEF Deactivate, DeactivateException, DeactivateMapped, DeactivateRun,
     DeactivateSubscription, DeactivateLock, DeactivateRemove, DeactivateAsync,
     RemoveSubscription, Removed, Callback, StateCallback, SessionReused,
     InactivityCallback, DataCallback, DataPush, controlVars, Flags
<1>3. CASE Deactivate(t)
  <2>1. \E e : \/ th' = [th EXCEPT ![t].deact = e]
               \/ th' = [th EXCEPT ![t].deact = e, ![t].inactive = FALSE]
    BY <1>3, Zenon DEF Deactivate, DeactivateException, DeactivateMapped,
       DeactivateRun, DeactivateSubscription, DeactivateLock, DeactivateRemove,
       DeactivateAsync
  <2> QED
    BY <1>1, <1>2, <2>1
<1>4. CASE StateCallback(t)
  <2>1. th'[a].pc = th[a].pc /\ th'[Client].pc = th[Client].pc
    BY <1>0, <1>4 DEF StateCallback, Disconnected, Thread
  <2> QED
    BY <1>2, <2>1 DEF Quiet
<1>5. CASE InactivityCallback(t)
  BY <1>1, <1>2, <1>5 DEF InactivityCallback
<1>6. CASE DataCallback(t) \/ DataPush(t) \/ SessionReused(t)
  BY <1>1, <1>2, <1>6 DEF DataCallback, DataPush, SessionReused, controlVars
<1> QED
  BY <1>3, <1>4, <1>5, <1>6 DEF Callback

(* So are the steps of the loop of runClient.                              *)
LEMMA QuietClient ==
  ASSUME NEW a, Apps = {a}, OneInv(a),
         \/ AcquireClientLock(Client) \/ RunLoop \/ RunIterate \/ RunExit
         \/ Environment \/ UNCHANGED vars \/ \E x \in Accessors : PopValue(x)
  PROVE  Quiet(a)
<1>0. /\ a \in Apps /\ a # Client /\ sm \in Flags /\ th \in [Threads -> Thread]
      /\ a \in Threads /\ Client \in Threads
      /\ th[a] \in Thread /\ th[Client] \in Thread
  BY Typed DEF OneInv, ControlInv
<1>1. ASSUME NEW k, k # "idle", At(Client, k), NEW l, l # "idle", Goto(Client, l),
             sm'.thread = sm.thread
      PROVE  Quiet(a)
  BY <1>0, <1>1 DEF At, Goto, Quiet, Thread
<1>2. CASE AcquireClientLock(Client)
  <2>1. PICK k \in DOMAIN Section :
          At(Client, k) /\ Goto(Client, Section[k]) /\ sm' = sm
    BY <1>2 DEF AcquireClientLock
  <2>2. k # "idle" /\ Section[k] # "idle"
    BY LabelFacts DEF Section
  <2> QED
    BY <1>1, <2>1, <2>2
<1>3. CASE RunLoop \/ RunIterate \/ RunExit
  <2>1. PICK k \in {"loop", "iterate", "exit"},
             l \in {"iterLock", "exitLock", "loop", "exitRun"} :
          At(Client, k) /\ Goto(Client, l)
    BY <1>3 DEF RunLoop, RunIterate, RunExit
  <2>2. sm'.thread = sm.thread
    BY <1>0, <1>3 DEF RunLoop, RunIterate, RunExit, RemoveSubscription, Removed,
                      Flags
  <2> QED
    BY <1>1, <2>1, <2>2
<1>4. CASE Environment \/ UNCHANGED vars \/ \E x \in Accessors : PopValue(x)
  BY <1>4 DEF Environment, ValueChange, LoseLink, RestoreLink, vars, controlVars,
              PopValue, Quiet
<1> QED
  BY <1>2, <1>3, <1>4

(* The steps of the contract.                                              *)
LEMMA ContractSteps ==
  ASSUME NEW a, Apps = {a}, OneInv(a), OneInv(a)',
         Spawn(a) \/ Assign(a) \/ Join(a) \/ RunEnd
  PROVE  \/ Body = "none" /\ Body' = "running"
         \/ Body = "running" /\ Body' = "returned"
         \/ Body = "returned" /\ Body' = "none"
         \/ Body' = Body
<1>0. /\ a \in Apps /\ a # Client /\ sm \in Flags /\ th \in [Threads -> Thread]
      /\ a \in Threads /\ Client \in Threads /\ th[a] \in Thread
      /\ \A k : At(a, k) => th[a].pc = k
  BY Typed DEF At, OneInv, ControlInv
<1>1. CASE Spawn(a)
  <2>1. /\ th[a].pc = "spawn" /\ th[Client] = Idle /\ ~sm.thread
        /\ th'[Client].pc = "loop"
    BY <1>0, <1>1, StartSucceeds DEF Spawn, OneInv, ControlInv, Phase, Idle, Thread
  <2> QED
    BY <2>1 DEF Body, Idle
<1>2. CASE Assign(a)
  <2>1. /\ th[a].pc = "assign" /\ sm'.thread = TRUE
        /\ th'[Client] = th[Client]
    BY <1>0, <1>2, StartSucceeds DEF Assign, Done, Flags, OneInv, ControlInv
  <2> QED
    BY <2>1 DEF Body
<1>3. CASE Join(a)
  <2>1. PICK l \in DOMAIN AfterJoin :
          /\ At(a, l) /\ (sm.thread => th[Client] = Idle)
          /\ sm' = [sm EXCEPT !.thread = FALSE]
          /\ IF AfterJoin[l] = "idle" THEN Done(a) ELSE Goto(a, AfterJoin[l])
    BY <1>3 DEF Join
  <2>2. l # "assign" /\ AfterJoin[l] # "assign"
    BY LabelFacts DEF AfterJoin
  <2>3. /\ th[a].pc # "assign" /\ th'[a].pc # "assign"
        /\ th'[Client] = th[Client] /\ sm'.thread = FALSE
    BY <1>0, <2>1, <2>2 DEF Done, Goto, Idle, Thread, Flags
  <2> QED
    BY <2>1, <2>3 DEF Body
<1>4. CASE RunEnd
  <2>1. /\ th[Client].pc = "exitRun" /\ th'[Client] = Idle
        /\ th'[a] = th[a] /\ sm'.thread = sm.thread
    BY <1>0, <1>4 DEF RunEnd, At, Done, Flags
  <2>2. th[Client] # Idle /\ (sm.thread \/ th[a].pc = "assign")
    BY <2>1 DEF OneInv, ClientOK, Idle
  <2> QED
    BY <2>1, <2>2 DEF Body
<1> QED
  BY <1>1, <1>2, <1>3, <1>4

(* The client thread is started only when there is none, and joined, once, *)
(* before another one is started, in every order of activateAsyncRead,     *)
(* open, close, construction and destruction.                              *)
THEOREM HandleRespected ==
  ASSUME NEW a, Apps = {a}
  PROVE  Spec => HandleContract
<1>1. Init => Handle!HandleInit
  BY DEF Init, Handle!HandleInit, Idle, Threads
<1>2. ASSUME OneInv(a), OneInv(a)', [Next]_vars
      PROVE  [Handle!HandleNext]_Body
  <2>1. /\ a \in Apps /\ Threads = {a, Client}
    BY DEF Threads
  <2>2. \/ Quiet(a) \/ Spawn(a) \/ Assign(a) \/ Join(a) \/ RunEnd
    <3>1. CASE AppBegin(a) \/ AppStep(a)
      BY <1>2, <3>1, QuietSteps DEF AppStep
    <3>2. CASE \E t \in {a, Client} : Deactivate(t) \/ Callback(t)
      BY <1>2, <3>2, QuietCallbacks
    <3>3. CASE ClientStep \/ Environment \/ UNCHANGED vars
               \/ \E x \in Accessors : PopValue(x)
      BY <1>2, <3>3, QuietClient DEF ClientStep
    <3> QED
      BY <1>2, <2>1, <3>1, <3>2, <3>3 DEF Next
  <2>3. \/ Body = "none" /\ Body' = "running"
        \/ Body = "running" /\ Body' = "returned"
        \/ Body = "returned" /\ Body' = "none"
        \/ Body' = Body
    BY <1>2, <2>2, QuietBody, ContractSteps
  <2> QED
    BY <2>3 DEF Body, Handle!HandleNext, Handle!StartThread, Handle!ReturnThread,
                Handle!JoinThread
<1>3. OneInv(a) /\ OneInv(a)' /\ [Next]_vars => [Handle!HandleNext]_Body
  BY <1>2
<1> QED
  BY <1>1, <1>3, OneInvariant, PTL
     DEF Spec, HandleContract, Handle!HandleSpec, Body

-----------------------------------------------------------------------------
(* The map of an application that keeps its accessors.                     *)

(* The labels of addMonitoredItems from the choice of an item to its       *)
(* bookkeeping; the mutex is free in between.                              *)
Adding == {"addLock", "addItem", "added"}

(* Every entry of the map leads to an item that has its id and is marked   *)
(* as monitored ...                                                        *)
Linked ==
  /\ MapLinksItem
  /\ \A id \in DOMAIN subscriptionMap : item[ItemAt(id)].isMonitored

(* ... and the item that is being added is not marked, so it has no entry. *)
Mapped(a) ==
  /\ Linked
  /\ th[a].pc \in Adding
       => th[a].idx \in DOMAIN items /\ ~item[items[th[a].idx]].isMonitored

(* What a step does to the map: it leaves the items of the list and their  *)
(* marks alone, or it clears map and marks together.                       *)
Calm ==
  /\ subscriptionMap' = subscriptionMap
  /\ \A i \in DOMAIN items : i \in DOMAIN items' /\ items'[i] = items[i]
  /\ \A n \in Nodes : Listed(n) => /\ item'[n].id = item[n].id
                                   /\ item'[n].isMonitored = item[n].isMonitored

Cleared ==
  /\ items' = items /\ subscriptionMap' = <<>>
  /\ \A n \in Nodes : ~item'[n].isMonitored

(* Thread a does not choose another item.                                  *)
Stays(a) ==
  th'[a].pc \in Adding => th[a].pc \in Adding /\ th'[a].idx = th[a].idx

(* The items of the list are nodes.                                        *)
LEMMA ListedNodes ==
  ASSUME ItemsTypeOK
  PROVE  /\ DOMAIN items = 1..Len(items)
         /\ \A i \in DOMAIN items : items[i] \in Nodes /\ Listed(items[i])
<1>1. items \in Seq(Nodes)
  BY DEF ItemsTypeOK
<1>2. DOMAIN items = 1..Len(items)
  BY <1>1, LenProperties
<1>3. \A i \in 1..Len(items) : items[i] \in Nodes
  BY <1>1, ElementOfSeq
<1>4. \A i \in 1..Len(items) : items[i] \in ToSet(items)
  BY <1>1, ToSetProperties
<1> QED
  BY <1>2, <1>3, <1>4 DEF Listed

(* Such a step keeps the entries of the map right.                         *)
LEMMA CalmLinks ==
  ASSUME ItemsTypeOK, Linked, Calm
  PROVE  Linked'
<1>1. \A i \in DOMAIN items :
        /\ i \in DOMAIN items' /\ items'[i] = items[i]
        /\ item'[items'[i]].id = item[items[i]].id
        /\ item'[items'[i]].isMonitored = item[items[i]].isMonitored
  BY ListedNodes DEF Calm
<1>2. ASSUME NEW id \in DOMAIN subscriptionMap
      PROVE  LiveSlot(id)' /\ item'[ItemAt(id)'].id = id /\ item'[ItemAt(id)'].isMonitored
  <2>1. /\ subscriptionMap[id] \in DOMAIN items
        /\ item[items[subscriptionMap[id]]].id = id
        /\ item[items[subscriptionMap[id]]].isMonitored
    BY DEF Linked, MapLinksItem, LiveSlot, ItemAt
  <2>2. subscriptionMap'[id] = subscriptionMap[id]
    BY DEF Calm
  <2> QED
    BY <1>1, <2>1, <2>2 DEF LiveSlot, ItemAt
<1>3. DOMAIN subscriptionMap' = DOMAIN subscriptionMap
  BY DEF Calm
<1> QED
  BY <1>2, <1>3 DEF Linked, MapLinksItem

(* Such a step keeps the item that is being added unmarked.                *)
LEMMA CalmKeeps ==
  ASSUME ItemsTypeOK, NEW a \in Apps, Mapped(a), Calm, Stays(a)
  PROVE  Mapped(a)'
<1>1. Linked'
  BY CalmLinks DEF Mapped
<1>2. th'[a].pc \in Adding
        => th'[a].idx \in DOMAIN items' /\ ~item'[items'[th'[a].idx]].isMonitored
  BY ListedNodes DEF Calm, Stays, Mapped
<1> QED
  BY <1>1, <1>2 DEF Mapped

(* An empty map is right.                                                  *)
LEMMA ClearedKeeps ==
  ASSUME ItemsTypeOK, NEW a \in Apps, Mapped(a), Cleared, Stays(a)
  PROVE  Mapped(a)'
<1>1. DOMAIN subscriptionMap' = {}
  BY InitialMap DEF Cleared
<1>2. th'[a].pc \in Adding
        => th'[a].idx \in DOMAIN items' /\ ~item'[items'[th'[a].idx]].isMonitored
  BY ListedNodes DEF Cleared, Stays, Mapped
<1> QED
  BY <1>1, <1>2 DEF Mapped, Linked, MapLinksItem

(* The sections of the mutex that leave the map alone.                     *)
LEMMA CalmSections ==
  ASSUME ItemsTypeOK,
         \/ UNCHANGED itemVars
         \/ \E x \in Accessors :
              \/ SubscribeNew(x) \/ SubscribeShared(x) \/ SubscribeThrow(x)
              \/ Abandon(x) \/ Pop(x)
         \/ \E S : ActivateItems(S)
         \/ DeactivateItems \/ HandleException \/ Terminate
         \/ \E n \in Nodes : SetExternalError(n)
         \/ \E h \in Handlers : \/ \E id \in MonIds : CheckActive(h, id)
                                \/ \E v \in Values : PushValue(h, v)
                                \/ NullItem(h)
  PROVE  Calm
<1>0. item \in [Nodes -> Item] /\ items \in Seq(Nodes)
  BY DEF ItemsTypeOK
<1>1. CASE UNCHANGED itemVars
  BY <1>1 DEF itemVars, Calm
<1>2. ASSUME NEW x \in Accessors, SubscribeNew(x)
      PROVE  Calm
  <2>1. NodeOf[x] \in Nodes
    BY ItemsAssumption
  <2>2. \A i \in DOMAIN items : i \in DOMAIN items' /\ items'[i] = items[i]
    BY <1>0, <1>2, <2>1, ListedNodes, AppendProperties DEF SubscribeNew
  <2>3. \A n \in Nodes : Listed(n) => item'[n] = item[n]
    BY <1>0, <1>2, <2>1 DEF SubscribeNew
  <2>4. subscriptionMap' = subscriptionMap
    BY <1>2 DEF SubscribeNew
  <2> QED
    BY <2>2, <2>3, <2>4 DEF Calm
<1>3. ASSUME NEW x \in Accessors, SubscribeShared(x) \/ SubscribeThrow(x)
      PROVE  Calm
  <2>1. /\ items' = items /\ subscriptionMap' = subscriptionMap
        /\ \E s : item' = [item EXCEPT ![NodeOf[x]].accessors = s]
    BY <1>3 DEF SubscribeShared, SubscribeThrow
  <2> QED
    BY <1>0, <2>1 DEF Calm, Item
<1>4. ASSUME NEW x \in Accessors, Abandon(x) \/ Pop(x) PROVE Calm
  BY <1>4 DEF Abandon, Pop, Calm
<1>5. ASSUME NEW S, ActivateItems(S) PROVE Calm
  BY <1>0, <1>5 DEF ActivateItems, Calm, Item
<1>6. CASE DeactivateItems
  BY <1>0, <1>6 DEF DeactivateItems, Calm, Item
<1>7. CASE HandleException
  BY <1>0, <1>7 DEF HandleException, Calm, Item
<1>8. ASSUME NEW n \in Nodes, SetExternalError(n) PROVE Calm
  BY <1>0, <1>8 DEF SetExternalError, Calm, Item
<1>9. ASSUME NEW h \in Handlers, NEW v \in Values, PushValue(h, v) PROVE Calm
  <2>1. \/ item' = item
        \/ item' = [item EXCEPT ![ItemAt(handling[h])].hasException = FALSE]
    BY <1>9 DEF PushValue
  <2>2. items' = items /\ subscriptionMap' = subscriptionMap
    BY <1>9 DEF PushValue
  <2>3. ASSUME NEW n \in Nodes
        PROVE  item'[n].id = item[n].id /\ item'[n].isMonitored = item[n].isMonitored
    <3>1. item'[n] = item[n] \/ item'[n] = [item[n] EXCEPT !.hasException = FALSE]
      BY <1>0, <2>1
    <3>2. item[n] \in Item
      BY <1>0
    <3> QED
      BY <3>1, <3>2 DEF Item
  <2> QED
    BY <2>2, <2>3 DEF Calm
<1>10. CASE \/ Terminate
            \/ \E h \in Handlers : NullItem(h) \/ \E id \in MonIds : CheckActive(h, id)
  BY <1>10 DEF Terminate, NullItem, CheckActive, Calm
<1> QED
  BY <1>1, <1>2, <1>3, <1>4, <1>5, <1>6, <1>7, <1>8, <1>9, <1>10

(* resetMonitoredItems clears map and marks.                               *)
LEMMA ResetClears ==
  ASSUME ItemsTypeOK, ResetMonitoredItems
  PROVE  Cleared
BY DEF ItemsTypeOK, ResetMonitoredItems, Cleared, Item

(* The sections a control step consists of.                                *)
LEMMA RemovalClears ==
  ASSUME ItemsTypeOK, NEW r, RemoveSubscription(r)
  PROVE  Cleared
BY ResetClears DEF RemoveSubscription

(* The steps between operations keep the map.                              *)
LEMMA BeginKeeps ==
  ASSUME ItemsTypeOK, ThreadsOK, NEW a \in Apps, "destruct" \notin Ops,
         Mapped(a), AppBegin(a)
  PROVE  Mapped(a)'
<1>0. a \in Threads /\ th \in [Threads -> Thread]
  BY DEF Threads, ThreadsOK
<1>1. ASSUME Open(a) \/ Close(a) \/ Activate(a) \/ Transfer(a) PROVE Mapped(a)'
  <2>1. UNCHANGED itemVars
    BY <1>1 DEF Open, Close, Activate, Transfer
  <2>2. Stays(a)
    BY <1>0, <1>1 DEF Open, Close, Activate, Transfer, Begin, At, Stays, Adding, Thread
  <2> QED
    BY <2>1, <2>2, CalmSections, CalmKeeps
<1>2. ASSUME NEW x \in Accessors, Construct(a, x) PROVE Mapped(a)'
  <2>1. SubscribeNew(x) \/ SubscribeShared(x) \/ SubscribeThrow(x)
    BY <1>2 DEF Construct
  <2>2. Stays(a)
    BY <1>0, <1>2 DEF Construct, Begin, Stays, Adding, Thread
  <2> QED
    BY <2>1, <2>2, CalmSections, CalmKeeps
<1>3. ASSUME NEW x \in Accessors, PopException(a, x) PROVE Mapped(a)'
  <2>1. Pop(x)
    BY <1>3 DEF PopException
  <2>2. Stays(a)
    BY <1>0, <1>3 DEF PopException, SetException, Idle, Stays, Adding, Thread
  <2> QED
    BY <2>1, <2>2, CalmSections, CalmKeeps
<1> QED
  BY <1>1, <1>2, <1>3 DEF AppBegin

(* addMonitoredItems chooses an item that is not monitored.                *)
LEMMA ChoiceKeeps ==
  ASSUME ItemsTypeOK, ThreadsOK, NEW a \in Apps, Mapped(a), AddNext(a)
  PROVE  Mapped(a)'
<1> DEFINE Todo == {j \in DOMAIN items : j >= th[a].idx /\ ~item[items[j]].isMonitored}
           first == CHOOSE j \in Todo : \A k \in Todo : j <= k
<1>0. /\ a \in Threads /\ th \in [Threads -> Thread]
      /\ Todo \subseteq DOMAIN items /\ Todo \in SUBSET Nat
  BY ListedNodes DEF Threads, ThreadsOK
<1>1. Calm
  <2>1. UNCHANGED itemVars \/ \E S : ActivateItems(S)
    BY DEF AddNext
  <2> QED
    BY <2>1, CalmSections
<1>2. CASE Todo = {}
  <2>1. th'[a].pc \notin Adding
    BY <1>0, <1>2 DEF AddNext, Adding, Thread
  <2> QED
    BY <1>1, <2>1, CalmKeeps DEF Stays
<1>3. CASE Todo # {}
  <2>1. first \in DOMAIN items /\ ~item[items[first]].isMonitored
    BY <1>0, <1>3, LeastExists
  <2>2. th'[a].idx = first
    BY <1>0, <1>3 DEF AddNext, Thread
  <2>3. first \in DOMAIN items' /\ ~item'[items'[first]].isMonitored
    BY <1>1, <2>1, ListedNodes DEF Calm
  <2> QED
    BY <1>1, <2>2, <2>3, CalmLinks DEF Mapped
<1> QED
  BY <1>2, <1>3

(* The bookkeeping of addMonitoredItems enters an item without an entry.   *)
LEMMA EntryKeeps ==
  ASSUME ItemsTypeOK, ItemsInUse, ThreadsOK, NEW a \in Apps, Mapped(a), Added(a)
  PROVE  Mapped(a)'
<1> DEFINE i == th[a].idx
           n == items[i]
           m == th[a].id
<1>0. /\ a \in Threads /\ th \in [Threads -> Thread] /\ item \in [Nodes -> Item]
      /\ m \in MonIds
  BY DEF Threads, ThreadsOK, ItemsTypeOK, Added, At, Fits
<1>1. i \in DOMAIN items /\ ~item[n].isMonitored /\ n \in Nodes
  BY ListedNodes DEF Added, At, Mapped, Adding
<1>2. /\ MonitorItem(n, m) /\ th'[a].pc = "addNext"
  BY <1>0 DEF Added, Thread
<1>3. IndexOf(items, n) = i
  <2>1. IndexOf(items, n) \in DOMAIN items /\ items[IndexOf(items, n)] = n
    BY <1>1, ListedNodes, IndexOfProperties DEF ItemsTypeOK, Listed
  <2> QED
    BY <1>1, <2>1 DEF ItemsInUse
<1>4. /\ items' = items /\ DOMAIN subscriptionMap' = DOMAIN subscriptionMap \cup {m}
      /\ subscriptionMap'[m] = i
      /\ \A id \in DOMAIN subscriptionMap \ {m} :
           subscriptionMap'[id] = subscriptionMap[id]
  BY <1>2, <1>3 DEF MonitorItem
<1>5. /\ item'[n].id = m /\ item'[n].isMonitored
      /\ \A k \in Nodes \ {n} : item'[k] = item[k]
  BY <1>0, <1>1, <1>2 DEF MonitorItem, Item
<1>6. ASSUME NEW id \in DOMAIN subscriptionMap'
      PROVE  LiveSlot(id)' /\ item'[ItemAt(id)'].id = id /\ item'[ItemAt(id)'].isMonitored
  <2>1. CASE id = m
    BY <1>1, <1>4, <1>5, <2>1 DEF LiveSlot, ItemAt
  <2>2. CASE id # m
    <3>1. /\ id \in DOMAIN subscriptionMap /\ subscriptionMap'[id] = subscriptionMap[id]
          /\ subscriptionMap[id] \in DOMAIN items
          /\ item[items[subscriptionMap[id]]].id = id
          /\ item[items[subscriptionMap[id]]].isMonitored
      BY <1>4, <2>2 DEF Mapped, Linked, MapLinksItem, LiveSlot, ItemAt
    <3>2. items[subscriptionMap[id]] \in Nodes \ {n}
      BY <1>1, <3>1, ListedNodes
    <3> QED
      BY <1>4, <1>5, <3>1, <3>2 DEF LiveSlot, ItemAt
  <2> QED
    BY <2>1, <2>2
<1> QED
  BY <1>2, <1>6 DEF Mapped, Linked, MapLinksItem, Adding

(* The steps of operations keep the map.                                   *)
LEMMA StepKeeps ==
  ASSUME ItemsTypeOK, ItemsInUse, ThreadsOK, NEW a \in Apps, Mapped(a), AppStep(a)
  PROVE  Mapped(a)'
<1>0. a \in Threads /\ th \in [Threads -> Thread] /\ a # Client
  BY ManagerAssumption DEF Threads, ThreadsOK
<1>1. ASSUME \/ AcquireClientLock(a) \/ Join(a) \/ Start(a) \/ Spawn(a) \/ Assign(a)
             \/ ResetClient(a) \/ Disconnect(a) \/ AfterDisconnect(a) \/ Connect(a)
             \/ FinishOpen(a) \/ CreateSubscription(a) \/ Create(a) \/ Created(a)
             \/ ActivateAsync(a) \/ AddItem(a) \/ Subscribed(a) \/ Unsubscribed(a)
             \/ DeleteItem(a) \/ StopLast(a) \/ TransferDone(a)
      PROVE  Mapped(a)'
  <2>1. Calm
    <3>1. UNCHANGED itemVars \/ Terminate
      BY <1>1 DEF AcquireClientLock, Join, Start, Spawn, Assign, ResetClient,
          Disconnect, AfterDisconnect, Connect, FinishOpen, CreateSubscription,
          Create, Created, ActivateAsync, AddItem, Subscribed, Unsubscribed,
          DeleteItem, StopLast, TransferDone
    <3> QED
      BY <3>1, CalmSections
  <2>2. Stays(a)
    <3>1. CASE AcquireClientLock(a)
      <4>1. PICK l \in DOMAIN Section : At(a, l) /\ Goto(a, Section[l])
        BY <3>1 DEF AcquireClientLock
      <4> QED
        BY <1>0, <4>1 DEF Section, Goto, At, Stays, Adding, Thread
    <3>2. CASE AddItem(a)
      <4>1. Goto(a, "addFailed")
            \/ \E id : th' = [th EXCEPT ![a].pc = "added", ![a].id = id]
        BY <3>2 DEF AddItem
      <4>2. th[a].pc = "addItem"
        BY <3>2 DEF AddItem, At
      <4> QED
        BY <1>0, <4>1, <4>2 DEF Goto, Stays, Adding, Thread
    <3>3. CASE Join(a)
      BY <1>0, <3>3 DEF Join, AfterJoin, Goto, Done, Idle, Stays, Adding, Thread
    <3>4. CASE \/ Start(a) \/ Spawn(a) \/ Assign(a) \/ ResetClient(a) \/ Connect(a)
               \/ FinishOpen(a) \/ CreateSubscription(a) \/ Create(a) \/ StopLast(a)
      BY <1>0, <3>4 DEF Start, Spawn, Assign, ResetClient, Connect, FinishOpen,
          CreateSubscription, Create, StopLast, Goto, Done, Idle, Stays, Adding, Thread
    <3>5. CASE Disconnect(a)
      BY <1>0, <3>5 DEF Disconnect, Disconnected, Stays, Adding, Thread
    <3>6. CASE AfterDisconnect(a)
      <4>1. th[a].op \in {"open", "close", "transfer"}
        <5>1. At(a, "disconnected")
          BY <3>6 DEF AfterDisconnect
        <5> QED
          BY <1>0, <5>1, OpAt DEF OpFits
      <4>2. Done(a) \/ Goto(a, "connectLock") \/ SetException(a)
        BY <3>6, <4>1 DEF AfterDisconnect
      <4>3. CASE SetException(a)
        <5>1. th'[a].pc = "idle"
          BY <1>0, <4>3 DEF SetException, Idle
        <5> QED
          BY <5>1 DEF Stays, Adding
      <4>4. CASE Done(a) \/ Goto(a, "connectLock")
        BY <1>0, <4>4 DEF Goto, Done, Idle, Stays, Adding, Thread
      <4> QED
        BY <4>2, <4>3, <4>4
    <3>7. CASE \/ Created(a) \/ ActivateAsync(a) \/ Subscribed(a) \/ Unsubscribed(a)
               \/ DeleteItem(a) \/ TransferDone(a)
      BY <1>0, <3>7 DEF Created, ActivateAsync, Subscribed, Unsubscribed, DeleteItem,
          TransferDone, Goto, Done, Idle, Stays, Adding, Thread
    <3> QED
      BY <1>1, <3>1, <3>2, <3>3, <3>4, <3>5, <3>6, <3>7
  <2> QED
    BY <2>1, <2>2, CalmKeeps
<1>2. ASSUME ResetItems(a) \/ CreateRemove(a) \/ RemoveLast(a) PROVE Mapped(a)'
  <2>1. Cleared
    BY <1>2, ResetClears, RemovalClears DEF ResetItems, CreateRemove, RemoveLast
  <2>2. Stays(a)
    BY <1>0, <1>2 DEF ResetItems, CreateRemove, RemoveLast, Goto, Stays, Adding, Thread
  <2> QED
    BY <2>1, <2>2, ClearedKeeps
<1>3. ASSUME CreateFailed(a) PROVE Mapped(a)'
  <2>1. At(a, "createFailed")
    BY <1>3 DEF CreateFailed
  <2>2. OpFits("createFailed", th[a].op) /\ th[a].new \in SUBSET Accessors
    BY <1>0, <2>1, OpAt DEF Thread
  <2>3. \/ UNCHANGED itemVars \/ Terminate \/ \E x \in Accessors : Abandon(x)
    BY <1>3, <2>2 DEF CreateFailed, OpFits
  <2>4. Stays(a)
    BY <1>0, <1>3 DEF CreateFailed, Done, Idle, Stays, Adding
  <2> QED
    BY <2>3, <2>4, CalmSections, CalmKeeps
<1>4. ASSUME ActivateAll(a) \/ AddFailed(a) PROVE Mapped(a)'
  <2>1. HandleException \/ \E S : ActivateItems(S)
    BY <1>4 DEF ActivateAll, AddFailed
  <2>2. Stays(a)
    BY <1>0, <1>4 DEF ActivateAll, AddFailed, Goto, Stays, Adding, Thread
  <2> QED
    BY <2>1, <2>2, CalmSections, CalmKeeps
<1>5. ASSUME NEW n \in Nodes, HandleError(a, n) PROVE Mapped(a)'
  <2>1. UNCHANGED itemVars \/ SetExternalError(n)
    BY <1>5 DEF HandleError
  <2>2. Stays(a)
    BY <1>0, <1>5 DEF HandleError, Goto, Done, Idle, Stays, Adding, Thread
  <2> QED
    BY <2>1, <2>2, CalmSections, CalmKeeps
<1> QED
  BY <1>1, <1>2, <1>3, <1>4, <1>5, ChoiceKeeps, EntryKeeps DEF AppStep

(* The client thread, the callbacks and the environment keep the map.      *)
LEMMA OthersKeep ==
  ASSUME ItemsTypeOK, ThreadsOK, FlagsOK, NEW a, Apps = {a}, Mapped(a),
         \/ ClientStep \/ Environment \/ UNCHANGED vars
         \/ \E t \in {a, Client} : Deactivate(t) \/ Callback(t)
         \/ \E x \in Accessors : PopValue(x)
  PROVE  Mapped(a)'
<1>0. /\ a \in Threads /\ th \in [Threads -> Thread] /\ a # Client
      /\ a \in Apps /\ Client \in Threads
  BY ManagerAssumption DEF Threads, ThreadsOK
<1>1. ASSUME th' = th PROVE Stays(a)
  BY <1>1 DEF Stays
<1>2. CASE ClientStep
  <2>1. th'[a] = th[a]
    BY <1>0, <1>2 DEF ClientStep, AcquireClientLock, RunLoop, RunIterate, RunExit,
        RunEnd, Goto, Done
  <2>2. Calm \/ Cleared
    <3>1. UNCHANGED itemVars \/ \E r : RemoveSubscription(r)
      BY <1>2 DEF ClientStep, AcquireClientLock, RunLoop, RunIterate, RunExit, RunEnd
    <3> QED
      BY <3>1, CalmSections, RemovalClears
  <2> QED
    BY <1>0, <2>1, <2>2, CalmKeeps, ClearedKeeps DEF Stays
<1>3. CASE Environment \/ UNCHANGED vars \/ \E x \in Accessors : PopValue(x)
  <2>1. th' = th
    BY <1>3 DEF Environment, ValueChange, LoseLink, RestoreLink, PopValue,
                controlVars, vars
  <2>2. UNCHANGED itemVars \/ \E x \in Accessors : Pop(x)
    BY <1>3 DEF Environment, ValueChange, LoseLink, RestoreLink, PopValue, vars
  <2> QED
    BY <1>0, <1>1, <2>1, <2>2, CalmSections, CalmKeeps
<1>4. ASSUME NEW t \in {a, Client}, Deactivate(t) PROVE Mapped(a)'
  <2>1. Stays(a)
    BY <1>0, <1>4 DEF Deactivate, DeactivateException, DeactivateMapped, DeactivateRun,
        DeactivateSubscription, DeactivateLock, DeactivateRemove, DeactivateAsync,
        Stays, Thread
  <2>2. Calm \/ Cleared
    <3>1. \/ UNCHANGED itemVars \/ HandleException \/ DeactivateItems
          \/ \E r : RemoveSubscription(r)
      BY <1>4 DEF Deactivate, DeactivateException, DeactivateMapped, DeactivateRun,
          DeactivateSubscription, DeactivateLock, DeactivateRemove, DeactivateAsync
    <3> QED
      BY <3>1, CalmSections, RemovalClears
  <2> QED
    BY <1>0, <2>1, <2>2, CalmKeeps, ClearedKeeps
<1>5. ASSUME NEW t \in {a, Client}, Callback(t) PROVE Mapped(a)'
  <2>1. Stays(a)
    BY <1>0, <1>5 DEF Callback, StateCallback, Disconnected, InactivityCallback,
        SessionReused, DataCallback, DataPush, controlVars, Stays, Thread
  <2>2. Calm
    <3>1. t \in Handlers
      BY <1>0, ManagerAssumption
    <3>2. CASE DataCallback(t)
      <4>1. PICK id \in srv.pending :
              CheckActive(t, id) \/ (~IsActive(id) /\ UNCHANGED itemVars)
        BY <3>2 DEF DataCallback
      <4>2. id \in MonIds
        BY <4>1 DEF FlagsOK, Server
      <4> QED
        BY <3>1, <4>1, <4>2, CalmSections
    <3>3. CASE DataPush(t)
      BY <3>1, <3>3, CalmSections DEF DataPush
    <3>4. CASE StateCallback(t) \/ SessionReused(t) \/ InactivityCallback(t)
      BY <3>4, CalmSections DEF StateCallback, SessionReused, InactivityCallback
    <3> QED
      BY <1>5, <3>2, <3>3, <3>4 DEF Callback
  <2> QED
    BY <1>0, <2>1, <2>2, CalmKeeps
<1> QED
  BY <1>2, <1>3, <1>4, <1>5

(* The invariant of the map, for an application that keeps its accessors.  *)
MapInv(a) == ControlInv /\ Mapped(a)

(* It holds initially ...                                                  *)
LEMMA MapInit ==
  ASSUME NEW a, Apps = {a}, Init
  PROVE  MapInv(a)
<1>1. ControlInv
  BY ControlInit, TypeInit, InUseInit DEF Init, ControlInv
<1>2. th[a] = Idle /\ DOMAIN subscriptionMap = {}
  BY InitialMap DEF Init, ItemsInit, Threads
<1> QED
  BY <1>1, <1>2 DEF MapInv, Mapped, Linked, MapLinksItem, Idle, Adding

(* ... and every step keeps it.                                            *)
LEMMA MapStep ==
  ASSUME NEW a, Apps = {a}, "destruct" \notin Ops, MapInv(a), [Next]_vars
  PROVE  MapInv(a)'
<1>1. ControlInv'
  BY ItemsStep, TypeStep, InUseStep, ThreadsStep, FlagsStep DEF ControlInv, MapInv
<1>2. /\ a \in Apps /\ ItemsTypeOK /\ ItemsInUse /\ ThreadsOK /\ FlagsOK /\ Mapped(a)
      /\ Threads = {a, Client}
  BY DEF MapInv, ControlInv, Threads
<1>3. Mapped(a)'
  <2>1. CASE AppBegin(a)
    BY <1>2, <2>1, BeginKeeps
  <2>2. CASE AppStep(a)
    BY <1>2, <2>2, StepKeeps
  <2>3. CASE \/ ClientStep \/ Environment \/ UNCHANGED vars
             \/ \E t \in {a, Client} : Deactivate(t) \/ Callback(t)
             \/ \E x \in Accessors : PopValue(x)
    BY <1>2, <2>3, OthersKeep
  <2> QED
    BY <1>2, <2>1, <2>2, <2>3 DEF Next
<1> QED
  BY <1>1, <1>3 DEF MapInv

(* The invariant of the map holds in every state.                          *)
LEMMA MapInvariant ==
  ASSUME NEW a, Apps = {a}, "destruct" \notin Ops
  PROVE  Spec => []MapInv(a)
<1>1. Init => MapInv(a)
  BY MapInit
<1>2. MapInv(a) /\ [Next]_vars => MapInv(a)'
  BY MapStep
<1> QED
  BY <1>1, <1>2, PTL DEF Spec

(* In an application that destroys no accessor the entries of              *)
(* subscriptionMap lead to the items they were entered for, whatever       *)
(* resets interleave with addMonitoredItems.                               *)
THEOREM LinksWithoutDestruction ==
  ASSUME NEW a, Apps = {a}, "destruct" \notin Ops
  PROVE  Spec => []MapLinksItem
<1>1. MapInv(a) => MapLinksItem
  BY DEF MapInv, Mapped, Linked
<1> QED
  BY <1>1, MapInvariant, PTL

(* In an application that destroys no accessor no two monitored items of   *)
(* the server feed one item, although items are added again after every    *)
(* reset.  An accessor that is destroyed leaves a slot which the item of a *)
(* later accessor takes over with the entry that still leads to it.        *)
THEOREM MonitoredOnce ==
  ASSUME NEW a, Apps = {a}, "destruct" \notin Ops
  PROVE  Spec => []NoItemMonitoredTwice
<1>1. MapLinksItem => NoItemMonitoredTwice
  BY DEF MapLinksItem, NoItemMonitoredTwice, ItemAt
<1> QED
  BY <1>1, LinksWithoutDestruction, PTL

-----------------------------------------------------------------------------
(* Who can wait for his own lock.                                          *)

(* The loop flag is up only for a client thread that exists or is about to *)
(* be made, so a callback in a section of the application's thread finds   *)
(* the handle.                                                             *)
Relocking(a) ==
  /\ sm.run => th[Client].pc # "idle" \/ th[a].pc = "spawn"
  /\ th[a].deact \in {"exc", "items", "run", "sub"} /\ th[a].pc \in Locked
       => sm.thread
  /\ th[a].deact = "lock" => th[a].pc \notin Locked

(* Steps in which nobody is told to deactivate.                            *)
LEMMA PlainRelocking ==
  ASSUME NEW a, Relocking(a), th'[a].deact = "none", sm'.run => sm.run,
         th'[Client].pc = th[Client].pc, th[a].pc # "spawn"
  PROVE  Relocking(a)'
BY DEF Relocking

(* Steps into a callback or into deactivate.                               *)
LEMMA EnterRelocking ==
  ASSUME NEW a, Relocking(a), sm' = sm, th'[Client] = th[Client],
         th[a].pc # "spawn", th'[a].deact \in {"none", "exc", "items"},
         \/ th'[a].pc \notin Locked \/ th'[a].deact = "none"
         \/ sm.thread
  PROVE  Relocking(a)'
BY DEF Relocking

(* The steps of the application's thread.                                  *)
LEMMA RelockingSteps ==
  ASSUME ThreadsOK, FlagsOK, NEW a \in Apps, Phase(a), ClientOK(a), Relocking(a),
         AppBegin(a) \/ AppStep(a)
  PROVE  Relocking(a)'
<1>0. /\ a \in Threads /\ Client \in Threads /\ a # Client
      /\ th \in [Threads -> Thread] /\ th[a] \in Thread
      /\ sm \in Flags /\ be \in Backend
      /\ \A k : At(a, k) => th[a].pc = k /\ th[a].deact = "none"
  BY Typed DEF At
<1>1. CASE \/ AcquireClientLock(a) \/ Join(a) \/ Assign(a) \/ ResetItems(a)
           \/ Connect(a) \/ FinishOpen(a) \/ StopLast(a)
  <2>1. /\ th'[a].deact = "none" /\ th'[Client] = th[Client] /\ th[a].pc # "spawn"
    BY <1>0, <1>1 DEF AcquireClientLock, Join, Assign, ResetItems, Connect, FinishOpen,
        StopLast, Section, AfterJoin, Goto, Done, Idle, Thread
  <2>2. sm'.run => sm.run
    BY <1>0, <1>1 DEF AcquireClientLock, Join, Assign, ResetItems, Connect, FinishOpen,
        StopLast, Flags
  <2> QED
    BY <2>1, <2>2, PlainRelocking
<1>2. CASE \/ CreateSubscription(a) \/ CreateRemove(a) \/ Create(a) \/ Created(a)
           \/ CreateFailed(a) \/ ActivateAsync(a) \/ ActivateAll(a)
  <2>1. /\ th'[a].deact = "none" /\ th'[Client] = th[Client] /\ th[a].pc # "spawn"
    <3>1. CASE CreateSubscription(a) \/ CreateRemove(a) \/ Create(a) \/ ActivateAll(a)
      BY <1>0, <3>1 DEF CreateSubscription, CreateRemove, Create, ActivateAll, Goto,
                        Thread
    <3>2. CASE Created(a) \/ ActivateAsync(a)
      <4>1. PICK l : th' = [th EXCEPT ![a].pc = l, ![a].idx = 1]
        BY <3>2 DEF Created, ActivateAsync
      <4>2. At(a, "created") \/ At(a, "async")
        BY <3>2 DEF Created, ActivateAsync
      <4> QED
        BY <1>0, <4>1, <4>2 DEF Thread
    <3>3. CASE CreateFailed(a)
      <4>1. At(a, "createFailed") /\ Done(a)
        BY <3>3 DEF CreateFailed
      <4> QED
        BY <1>0, <4>1 DEF Done, Idle
    <3> QED
      BY <1>2, <3>1, <3>2, <3>3
  <2>2. sm'.run => sm.run
    BY <1>0, <1>2 DEF CreateSubscription, CreateRemove, Create, Created, CreateFailed,
        ActivateAsync, ActivateAll, RemoveSubscription, Removed, Flags
  <2> QED
    BY <2>1, <2>2, PlainRelocking
<1>3. CASE \/ AddNext(a) \/ AddItem(a) \/ Added(a) \/ AddFailed(a) \/ Subscribed(a)
           \/ Unsubscribed(a) \/ DeleteItem(a) \/ RemoveLast(a) \/ TransferDone(a)
           \/ \E n \in Nodes : HandleError(a, n)
  <2>1. PICK k \in {"addNext", "addItem", "added", "addFailed", "subscribed",
                    "unsubscribed", "unsub", "last", "read", "readError"} : At(a, k)
    BY <1>3 DEF AddNext, AddItem, Added, AddFailed, Subscribed, Unsubscribed,
        DeleteItem, RemoveLast, TransferDone, HandleError
  <2>2. th[a].pc # "spawn" /\ th[a].deact = "none"
    BY <1>0, <2>1
  <2>3. th'[a].deact = "none" /\ th'[Client] = th[Client]
    <3>1. CASE AddNext(a) \/ Subscribed(a)
      <4>1. PICK l, i : th' = [th EXCEPT ![a].pc = l, ![a].idx = i]
        BY <3>1, Zenon DEF AddNext, Subscribed
      <4> QED
        BY <1>0, <2>2, <4>1 DEF Thread
    <3>2. CASE AddItem(a)
      <4>1. Goto(a, "addFailed")
            \/ \E id : th' = [th EXCEPT ![a].pc = "added", ![a].id = id]
        BY <3>2 DEF AddItem
      <4> QED
        BY <1>0, <2>2, <4>1 DEF Goto, Thread
    <3>3. CASE Added(a) \/ AddFailed(a)
      BY <1>0, <2>2, <3>3 DEF Added, AddFailed, Thread
    <3>4. CASE \/ Unsubscribed(a) \/ DeleteItem(a) \/ RemoveLast(a) \/ TransferDone(a)
               \/ \E n \in Nodes : HandleError(a, n)
      <4>1. Done(a) \/ \E l : Goto(a, l)
        BY <3>4 DEF Unsubscribed, DeleteItem, RemoveLast, TransferDone, HandleError
      <4> QED
        BY <1>0, <2>2, <4>1 DEF Goto, Done, Idle, Thread
    <3> QED
      BY <1>3, <3>1, <3>2, <3>3, <3>4
  <2>4. sm'.run => sm.run
    BY <1>0, <1>3 DEF AddNext, AddItem, Added, AddFailed, Subscribed, Unsubscribed,
        DeleteItem, RemoveLast, TransferDone, HandleError, RemoveSubscription,
        Removed, Flags
  <2> QED
    BY <2>2, <2>3, <2>4, PlainRelocking
<1>4. CASE Start(a)
  <2>1. /\ th'[Client] = th[Client] /\ th'[a].deact = "none" /\ th[a].pc = "start"
        /\ sm'.run => sm.run \/ th'[a].pc = "spawn"
    BY <1>0, <1>4 DEF Start, Goto, Done, Idle, Thread, Flags
  <2> QED
    BY <2>1 DEF Relocking
<1>5. CASE Spawn(a)
  <2>1. th'[Client].pc = "loop" /\ th'[a].deact = "none"
    BY <1>0, <1>5, StartSucceeds DEF Spawn, Thread
  <2> QED
    BY <2>1 DEF Relocking
<1>6. CASE ResetClient(a)
  <2>1. /\ th'[Client] = th[Client] /\ sm' = sm /\ th[a].pc = "reset"
        /\ th'[a].pc \in {"resetItems", "closeLock"} /\ th'[a].deact \in {"none", "items"}
    BY <1>0, <1>6 DEF ResetClient, Thread
  <2> QED
    BY <2>1, LabelFacts, EnterRelocking
<1>7. CASE Disconnect(a)
  <2>1. /\ th'[Client] = th[Client] /\ th[a].pc = "disconnect"
        /\ th'[a].deact = "none" \/ (th'[a].deact = "exc" /\ sm.run)
    BY <1>0, <1>7 DEF Disconnect, Disconnected, Thread
  <2>2. sm'.run = sm.run /\ sm'.thread = sm.thread
    BY <1>0, <1>7 DEF Disconnect, Flags
  <2>3. sm.run => sm.thread
    BY <2>1 DEF Relocking, ClientOK
  <2> QED
    BY <2>1, <2>2, <2>3 DEF Relocking
<1>8. CASE AfterDisconnect(a)
  <2>1. At(a, "disconnected") /\ sm' = sm
    BY <1>8 DEF AfterDisconnect
  <2>2. th[a].op \in {"open", "close", "transfer"}
    BY <1>0, <2>1, OpAt DEF OpFits
  <2>3. Done(a) \/ Goto(a, "connectLock") \/ SetException(a)
    BY <1>8, <2>2 DEF AfterDisconnect
  <2>4. CASE Done(a) \/ Goto(a, "connectLock")
    BY <1>0, <2>1, <2>4, PlainRelocking DEF Goto, Done, Idle, Thread
  <2>5. CASE SetException(a)
    <3>1. /\ th'[Client] = th[Client] /\ th'[a].pc = "idle"
          /\ th'[a].deact \in {"none", "exc"}
      BY <1>0, <2>5 DEF SetException, Idle
    <3> QED
      BY <1>0, <2>1, <3>1, LabelFacts, EnterRelocking
  <2> QED
    BY <2>3, <2>4, <2>5
<1>9. CASE Open(a) \/ Close(a) \/ Activate(a) \/ Transfer(a)
  <2>1. /\ th'[a].deact = "none" /\ th'[Client] = th[Client] /\ th[a].pc # "spawn"
        /\ sm' = sm
    BY <1>0, <1>9 DEF Open, Close, Activate, Transfer, Begin, Thread
  <2> QED
    BY <2>1, PlainRelocking
<1>10. ASSUME NEW x \in Accessors, Construct(a, x) \/ Destruct(a, x)
       PROVE  Relocking(a)'
  <2>1. /\ th'[a].deact = "none" /\ th'[Client] = th[Client] /\ th[a].pc # "spawn"
        /\ sm'.run = sm.run
    BY <1>0, <1>10 DEF Construct, Destruct, Begin, Thread, Flags
  <2> QED
    BY <2>1, PlainRelocking
<1>11. ASSUME NEW x \in Accessors, PopException(a, x)
       PROVE  Relocking(a)'
  <2>1. /\ th'[Client] = th[Client] /\ th'[a].pc = "idle" /\ sm' = sm
        /\ th'[a].deact \in {"none", "exc"} /\ th[a].pc = "idle"
    BY <1>0, <1>11 DEF PopException, SetException, Idle
  <2> QED
    BY <2>1, LabelFacts, EnterRelocking
<1> QED
  BY <1>1, <1>2, <1>3, <1>4, <1>5, <1>6, <1>7, <1>8, <1>9, <1>10, <1>11
     DEF AppBegin, AppStep

(* Callbacks, deactivate, the client thread and the environment.           *)
LEMMA RelockingOthers ==
  ASSUME ThreadsOK, FlagsOK, NEW a \in Apps, Phase(a), ClientOK(a), Relocking(a),
         \/ ClientStep \/ Environment \/ UNCHANGED vars
         \/ \E t \in {a, Client} : Deactivate(t) \/ Callback(t)
         \/ \E x \in Accessors : PopValue(x)
  PROVE  Relocking(a)'
<1>0. /\ a \in Threads /\ Client \in Threads /\ a # Client
      /\ th \in [Threads -> Thread] /\ th[a] \in Thread /\ th[Client] \in Thread
      /\ sm \in Flags /\ be \in Backend
  BY Typed
<1>1. CASE RunEnd
  BY <1>0, <1>1 DEF RunEnd, Done, Flags, Relocking
<1>2. CASE AcquireClientLock(Client) \/ RunLoop \/ RunIterate \/ RunExit
  <2>1. th'[a] = th[a] /\ th'[Client].pc # "idle" /\ th[Client].pc # "idle"
    BY <1>0, <1>2 DEF AcquireClientLock, RunLoop, RunIterate, RunExit, Section, Goto,
                      At, Thread
  <2>2. sm'.run = sm.run /\ sm'.thread = sm.thread
    BY <1>0, <1>2 DEF AcquireClientLock, RunLoop, RunIterate, RunExit,
                      RemoveSubscription, Removed, Flags
  <2> QED
    BY <2>1, <2>2 DEF Relocking
<1>3. CASE Environment \/ UNCHANGED vars \/ \E x \in Accessors : PopValue(x)
  <2>1. th' = th /\ sm' = sm
    BY <1>3 DEF Environment, ValueChange, LoseLink, RestoreLink, PopValue,
                controlVars, vars
  <2> QED
    BY <2>1 DEF Relocking
<1>4. ASSUME NEW t \in {a, Client}, Deactivate(t) PROVE Relocking(a)'
  <2>1. /\ th'[a].pc = th[a].pc /\ th'[Client].pc = th[Client].pc
        /\ t = Client => th'[a] = th[a]
    BY <1>0, <1>4 DEF Deactivate, DeactivateException, DeactivateMapped, DeactivateRun,
        DeactivateSubscription, DeactivateLock, DeactivateRemove, DeactivateAsync,
        Thread
  <2>2. sm'.thread = sm.thread /\ (sm'.run => sm.run)
    BY <1>0, <1>4 DEF Deactivate, DeactivateException, DeactivateMapped, DeactivateRun,
        DeactivateSubscription, DeactivateLock, DeactivateRemove, DeactivateAsync,
        RemoveSubscription, Removed, Flags
  <2>3. CASE t = a
    <3>1. /\ th'[a].deact \in {"items", "run", "sub"}
               => th[a].deact \in {"exc", "items", "run"}
          /\ th'[a].deact # "exc"
          /\ th'[a].deact = "lock" => th[a].deact = "sub" /\ ~sm.thread
      BY <1>0, <1>4, <2>3 DEF Deactivate, Deact, DeactivateException, DeactivateMapped,
          DeactivateRun, DeactivateSubscription, DeactivateLock, DeactivateRemove,
          DeactivateAsync, Thread
    <3> QED
      BY <2>1, <2>2, <3>1 DEF Relocking
  <2> QED
    BY <2>1, <2>2, <2>3 DEF Relocking
<1>5. ASSUME NEW t \in {a, Client}, Callback(t) PROVE Relocking(a)'
  <2>1. CASE DataCallback(t) \/ DataPush(t) \/ SessionReused(t)
    BY <2>1 DEF DataCallback, DataPush, SessionReused, controlVars, Relocking
  <2>2. CASE StateCallback(t) \/ InactivityCallback(t)
    <3>1. /\ sm' = sm /\ th'[a].pc = th[a].pc /\ th'[Client].pc = th[Client].pc
          /\ t = Client => th'[a] = th[a]
          /\ th'[a].deact = th[a].deact \/ (th'[a].deact = "exc" /\ sm.run)
      BY <1>0, <2>2 DEF StateCallback, Disconnected, InactivityCallback, Thread
    <3>2. t = a => th[a].pc \in ClientCalls /\ th[a].deact = "none"
      BY <2>2 DEF StateCallback, InactivityCallback, InCall, At
    <3>3. CASE t = a
      <4>1. th[a].pc \notin {"spawn", "assign"}
        BY <3>2, <3>3 DEF ClientCalls
      <4>2. sm.run => sm.thread
        BY <4>1 DEF Relocking, ClientOK
      <4> QED
        BY <3>1, <3>2, <3>3, <4>1, <4>2 DEF Relocking
    <3> QED
      BY <3>1, <3>3 DEF Relocking
  <2> QED
    BY <1>5, <2>1, <2>2 DEF Callback
<1> QED
  BY <1>1, <1>2, <1>3, <1>4, <1>5 DEF ClientStep

(* An application thread never waits in deactivate for the client_lock it  *)
(* holds itself, whatever callbacks its client calls make; the window      *)
(* between the start of the client thread and the assignment of its handle *)
(* is one for the client thread only.                                      *)
THEOREM ApplicationNeverRelocks ==
  ASSUME NEW a, Apps = {a}
  PROVE  Spec => []OnlyClientRelocks
<1>1. Init => Relocking(a)
  <2>1. ASSUME Init PROVE Relocking(a)
    BY <2>1 DEF Init, Threads, Idle, Relocking
  <2> QED
    BY <2>1
<1>2. OneInv(a) /\ Relocking(a) /\ [Next]_vars => Relocking(a)'
  <2> SUFFICES ASSUME OneInv(a), Relocking(a), [Next]_vars
               PROVE  Relocking(a)'
    OBVIOUS
  <2>1. /\ a \in Apps /\ ThreadsOK /\ FlagsOK /\ Phase(a) /\ ClientOK(a)
        /\ Threads = {a, Client}
    BY DEF OneInv, ControlInv, Threads
  <2>2. \/ AppBegin(a) \/ AppStep(a)
        \/ ClientStep \/ Environment \/ UNCHANGED vars
        \/ \E t \in {a, Client} : Deactivate(t) \/ Callback(t)
        \/ \E x \in Accessors : PopValue(x)
    BY <2>1 DEF Next
  <2> QED
    BY <2>1, <2>2, RelockingSteps, RelockingOthers
<1>3. OneInv(a) /\ Relocking(a) => OnlyClientRelocks
  <2> SUFFICES ASSUME OneInv(a), Relocking(a), th[a].deact = "lock"
               PROVE  cn.lock # a
    BY DEF OnlyClientRelocks
  <2>1. ~HasLock(th[a])
    BY DEF Relocking, HasLock
  <2> QED
    BY <2>1 DEF OneInv, ControlInv, ThreadsOK, Threads
<1> QED
  BY <1>1, <1>2, <1>3, OneInvariant, PTL DEF Spec

==============================================================================
