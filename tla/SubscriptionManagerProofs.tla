---------------------- MODULE SubscriptionManagerProofs ----------------------
(***************************************************************************)
(* Proofs about SubscriptionManager, for any number of application         *)
(* threads.                                                                *)
(*                                                                         *)
(* The control state is typed, and the lock of the client is held by a     *)
(* thread exactly while it is in a section of it.  To show that a step     *)
(* leaves its section with the lock it took, the invariant has to know     *)
(* where a thread can be in which operation (OpFits: AfterDisconnect       *)
(* releases the lock and goes on by the operation), that a thread at added *)
(* holds an id, and that deactivate is at its removal only outside the     *)
(* sections, so that no thread takes the lock twice (Fits).                *)
(*                                                                         *)
(* ControlInv joins this with the type and use of the items, from          *)
(* MonitoredItemsProofs, and with the types of the flags.  Under it every  *)
(* step of the control flow is one of ItemsNext or leaves the items alone, *)
(* so what MonitoredItemsProofs shows of any order of critical sections    *)
(* holds for the orders the threads produce.                               *)
(***************************************************************************)
EXTENDS SubscriptionManager, MonitoredItemsProofs, WellFoundedInduction

(* The values of the control state.                                        *)
Labels == {"idle", "start", "spawn", "assign", "reset", "resetItems", "opened",
           "createSub", "createRemove", "created", "createFailed", "async",
           "activateItems", "addNext", "added", "addFailed", "subscribed",
           "unsubscribed", "lastRun", "loop", "exitRun"}
          \cup DOMAIN Section \cup DOMAIN AfterJoin \cup Locked

Operations ==
  {"none", "open", "close", "activate", "construct", "destruct", "transfer"}

Thread ==
  [pc : Labels, op : Operations,
   deact : {"none", "exc", "items", "run", "sub", "lock", "remove", "async"},
   inactive : BOOLEAN, new : SUBSET Accessors, idx : Nat,
   id : MonIds \cup {0}]

Connection == [lock : Threads \cup {Free}, connected : BOOLEAN]

(* The operations a thread may be in at a label, where its next step       *)
(* depends on them.                                                        *)
OpFits(l, op) ==
  /\ l \in {"joinOpen", "reset", "resetItems", "joinReset", "closeLock"}
       => op \in {"open", "close"}
  /\ l \in {"disconnect", "disconnected"} => op \in {"open", "close", "transfer"}
  /\ l \in {"readLock", "read", "readError"} => op = "transfer"
  /\ l \in {"connectLock", "connect"} => op = "open"
  /\ l \in {"createSub", "createRemove", "createLock", "create", "createFailed"}
       => op \in {"open", "activate", "construct"}
  /\ l = "subscribed" => op = "construct"

(* A thread in state r is in a section of the client lock.                 *)
HasLock(r) == r.pc \in Locked \/ r.deact = "remove"

(* The parts of a thread's state fit together.                             *)
Fits(r) ==
  /\ OpFits(r.pc, r.op)
  /\ r.pc = "added" => r.id \in MonIds
  /\ r.deact = "remove" => r.pc \notin Locked

(* The threads and the lock: the inductive part of the control flow.       *)
ThreadsOK ==
  /\ th \in [Threads -> Thread]
  /\ \A t \in Threads : Fits(th[t])
  /\ cn \in Connection
  /\ \A t \in Threads : HasLock(th[t]) <=> cn.lock = t

-----------------------------------------------------------------------------
(* Labels.                                                                 *)
LEMMA LabelFacts ==
  /\ DOMAIN Section = {"closeLock", "connectLock", "createLock", "addLock",
                       "unsubLock", "lastLock", "readLock", "iterLock", "exitLock"}
  /\ Locked = {"disconnect", "connect", "create", "addItem", "unsub", "last",
               "read", "iterate", "exit", "readError", "disconnected"}
  /\ DOMAIN AfterJoin = {"joinOpen", "joinReset", "joinLast"}
<1>1. DOMAIN Section = {"closeLock", "connectLock", "createLock", "addLock",
                       "unsubLock", "lastLock", "readLock", "iterLock", "exitLock"}
  BY DEF Section
<1>2. {Section[l] : l \in DOMAIN Section} =
        {"disconnect", "connect", "create", "addItem", "unsub", "last",
         "read", "iterate", "exit"}
  BY <1>1 DEF Section
<1> QED
  BY <1>1, <1>2 DEF Locked, AfterJoin

(* The labels, one by one.                                                 *)
LEMMA LabelsAre ==
  Labels = {"idle", "start", "spawn", "assign", "reset", "resetItems", "opened",
            "createSub", "createRemove", "created", "createFailed", "async",
            "activateItems", "addNext", "added", "addFailed", "subscribed",
            "unsubscribed", "lastRun", "loop", "exitRun", "closeLock",
            "connectLock", "createLock", "addLock", "unsubLock", "lastLock",
            "readLock", "iterLock", "exitLock", "joinOpen", "joinReset",
            "joinLast", "disconnect", "connect", "create", "addItem", "unsub",
            "last", "read", "iterate", "exit", "readError", "disconnected"}
BY LabelFacts DEF Labels

-----------------------------------------------------------------------------
(* Steps of one thread.                                                    *)

(* A step of t leaves the other threads' hold of client_lock alone.        *)
OthersLock(t) ==
  /\ cn' \in Connection
  /\ \A u \in Threads \ {t} : cn'.lock = u <=> cn.lock = u

(* Steps in the terms of LockHeldInSection: the lock stays, is taken or    *)
(* released.                                                               *)
LEMMA LockUnchanged ==
  ASSUME ThreadsOK, NEW t \in Threads, cn' \in Connection, cn'.lock = cn.lock
  PROVE  OthersLock(t) /\ (HasLock(th[t]) <=> cn'.lock = t)
BY DEF ThreadsOK, OthersLock

(* A thread that takes the lock is not in a section.                       *)
LEMMA LockTaken ==
  ASSUME ThreadsOK, NEW t \in Threads, cn.lock = Free,
         cn' \in Connection, cn'.lock = t
  PROVE  OthersLock(t) /\ ~HasLock(th[t])
BY ManagerAssumption DEF ThreadsOK, OthersLock

(* A thread that releases the lock was alone in its section.               *)
LEMMA LockReleased ==
  ASSUME ThreadsOK, NEW t \in Threads, HasLock(th[t]),
         cn' \in Connection, cn'.lock = Free
  PROVE  OthersLock(t) /\ cn'.lock # t
BY ManagerAssumption DEF ThreadsOK, OthersLock

(* A step of one thread keeps ThreadsOK when the thread fits where it      *)
(* ends.                                                                   *)
LEMMA OneThread ==
  ASSUME ThreadsOK, NEW t \in Threads, NEW r \in Thread, Fits(r),
         th' = [th EXCEPT ![t] = r], OthersLock(t), HasLock(r) <=> cn'.lock = t
  PROVE  ThreadsOK'
<1>1. th' \in [Threads -> Thread]
  BY DEF ThreadsOK
<1>2. th'[t] = r /\ \A u \in Threads \ {t} : th'[u] = th[u]
  BY DEF ThreadsOK
<1> QED
  BY <1>1, <1>2 DEF ThreadsOK, OthersLock

(* A step that moves no thread and leaves the lock.                        *)
LEMMA ThreadsSame ==
  ASSUME ThreadsOK, th' = th, cn' \in Connection, cn'.lock = cn.lock
  PROVE  ThreadsOK'
BY DEF ThreadsOK

(* A thread that is not in a callback goes to label l.                     *)
LEMMA GotoStep ==
  ASSUME ThreadsOK, NEW t \in Threads, th[t].deact = "none",
         NEW l \in Labels \ {"added"}, NEW i \in Nat, NEW m \in MonIds \cup {0},
         \/ Goto(t, l)
         \/ th' = [th EXCEPT ![t].pc = l, ![t].idx = i]
         \/ th' = [th EXCEPT ![t].pc = l, ![t].idx = i, ![t].id = m],
         OpFits(l, th[t].op), OthersLock(t), l \in Locked <=> cn'.lock = t
  PROVE  ThreadsOK'
<1>1. th[t] \in Thread /\ th \in [Threads -> Thread]
  BY DEF ThreadsOK
<1>2. ASSUME NEW r \in Thread, r.pc = l, r.op = th[t].op, r.deact = "none",
             th' = [th EXCEPT ![t] = r]
      PROVE  ThreadsOK'
  BY <1>2, OneThread DEF Fits, HasLock
<1>3. CASE Goto(t, l)
  <2> DEFINE r == [th[t] EXCEPT !.pc = l]
  <2>1. r \in Thread /\ r.pc = l /\ r.op = th[t].op /\ r.deact = "none"
    BY <1>1 DEF Thread
  <2>2. th' = [th EXCEPT ![t] = r]
    BY <1>1, <1>3 DEF Goto
  <2> QED
    BY <2>1, <2>2, <1>2
<1>4. CASE th' = [th EXCEPT ![t].pc = l, ![t].idx = i]
  <2> DEFINE r == [th[t] EXCEPT !.pc = l, !.idx = i]
  <2>1. r \in Thread /\ r.pc = l /\ r.op = th[t].op /\ r.deact = "none"
    BY <1>1 DEF Thread
  <2>2. th' = [th EXCEPT ![t] = r]
    BY <1>1, <1>4
  <2> QED
    BY <2>1, <2>2, <1>2
<1>5. CASE th' = [th EXCEPT ![t].pc = l, ![t].idx = i, ![t].id = m]
  <2> DEFINE r == [th[t] EXCEPT !.pc = l, !.idx = i, !.id = m]
  <2>1. r \in Thread /\ r.pc = l /\ r.op = th[t].op /\ r.deact = "none"
    BY <1>1 DEF Thread
  <2>2. th' = [th EXCEPT ![t] = r]
    BY <1>1, <1>5
  <2> QED
    BY <2>1, <2>2, <1>2
<1> QED
  BY <1>3, <1>4, <1>5

(* A thread ends its operation, perhaps with a callback to run.            *)
LEMMA DoneStep ==
  ASSUME ThreadsOK, NEW t \in Threads, OthersLock(t), cn'.lock # t,
         \/ Done(t)
         \/ th' = [th EXCEPT ![t] = [Idle EXCEPT !.deact = "exc"]]
         \/ th' = [th EXCEPT ![t] = [Idle EXCEPT !.deact = "none"]]
  PROVE  ThreadsOK'
<1>1. /\ Idle \in Thread /\ Fits(Idle) /\ ~HasLock(Idle)
      /\ [Idle EXCEPT !.deact = "none"] = Idle
  BY LabelsAre, LabelFacts DEF Idle, Thread, Fits, OpFits, HasLock, Operations
<1> DEFINE r == [Idle EXCEPT !.deact = "exc"]
<1>2. r \in Thread /\ Fits(r) /\ ~HasLock(r)
  BY LabelsAre, LabelFacts DEF Idle, Thread, Fits, OpFits, HasLock, Operations
<1>3. CASE th' = [th EXCEPT ![t] = Idle]
  BY <1>1, <1>3, OneThread
<1>4. CASE th' = [th EXCEPT ![t] = r]
  <2> HIDE DEF r
  <2> QED
    BY <1>2, <1>4, OneThread
<1> QED
  BY <1>1, <1>3, <1>4 DEF Done

(* A thread begins an operation.                                           *)
LEMMA BeginStep ==
  ASSUME ThreadsOK, NEW t \in Threads, th[t].deact = "none", th[t].pc = "idle",
         NEW l \in Labels \ (Locked \cup {"added"}), NEW o \in Operations,
         NEW N \in SUBSET Accessors, NEW m \in MonIds \cup {0},
         \/ Begin(t, o, l)
         \/ th' = [th EXCEPT ![t].op = o, ![t].pc = l, ![t].new = N]
         \/ th' = [th EXCEPT ![t].op = o, ![t].pc = l, ![t].id = m],
         OpFits(l, o), cn' = cn
  PROVE  ThreadsOK'
<1>1. th[t] \in Thread /\ th \in [Threads -> Thread]
  BY DEF ThreadsOK
<1>0. OthersLock(t) /\ cn'.lock # t
  <2>1. ~HasLock(th[t])
    BY LabelFacts DEF HasLock
  <2> QED
    BY <2>1, LockUnchanged DEF ThreadsOK
<1>2. ASSUME NEW r \in Thread, r.pc = l, r.op = o, r.deact = "none",
             th' = [th EXCEPT ![t] = r]
      PROVE  ThreadsOK'
  <2>1. Fits(r) /\ ~HasLock(r)
    BY <1>2 DEF Fits, HasLock
  <2> QED
    BY <1>0, <1>2, <2>1, OneThread
<1>3. CASE Begin(t, o, l)
  <2> DEFINE r == [th[t] EXCEPT !.op = o, !.pc = l]
  <2>1. r \in Thread /\ r.pc = l /\ r.op = o /\ r.deact = "none"
    BY <1>1 DEF Thread
  <2>2. th' = [th EXCEPT ![t] = r]
    BY <1>1, <1>3 DEF Begin
  <2> QED
    BY <2>1, <2>2, <1>2
<1>4. CASE th' = [th EXCEPT ![t].op = o, ![t].pc = l, ![t].new = N]
  <2> DEFINE r == [th[t] EXCEPT !.op = o, !.pc = l, !.new = N]
  <2>1. r \in Thread /\ r.pc = l /\ r.op = o /\ r.deact = "none"
    BY <1>1 DEF Thread
  <2>2. th' = [th EXCEPT ![t] = r]
    BY <1>1, <1>4
  <2> QED
    BY <2>1, <2>2, <1>2
<1>5. CASE th' = [th EXCEPT ![t].op = o, ![t].pc = l, ![t].id = m]
  <2> DEFINE r == [th[t] EXCEPT !.op = o, !.pc = l, !.id = m]
  <2>1. r \in Thread /\ r.pc = l /\ r.op = o /\ r.deact = "none"
    BY <1>1 DEF Thread
  <2>2. th' = [th EXCEPT ![t] = r]
    BY <1>1, <1>5
  <2> QED
    BY <2>1, <2>2, <1>2
<1> QED
  BY <1>3, <1>4, <1>5

(* A callback moves on, or starts.                                         *)
LEMMA DeactStep ==
  ASSUME ThreadsOK, NEW t \in Threads, NEW r \in Thread,
         r.pc = th[t].pc, r.op = th[t].op, r.id = th[t].id,
         th' = [th EXCEPT ![t] = r],
         r.deact = "remove" => th[t].pc \notin Locked,
         OthersLock(t),
         (th[t].pc \in Locked \/ r.deact = "remove") <=> cn'.lock = t
  PROVE  ThreadsOK'
<1>1. Fits(r)
  BY DEF ThreadsOK, Fits
<1> QED
  BY <1>1, OneThread DEF HasLock

(* Steps from a label without client_lock to another one.                  *)
LEMMA FreeGoto ==
  ASSUME ThreadsOK, NEW t \in Threads, NEW k, At(t, k), k \notin Locked, cn' = cn,
         NEW l \in Labels \ (Locked \cup {"added"}),
         NEW i \in Nat, NEW m \in MonIds \cup {0},
         \/ Goto(t, l)
         \/ th' = [th EXCEPT ![t].pc = l, ![t].idx = i]
         \/ th' = [th EXCEPT ![t].pc = l, ![t].idx = i, ![t].id = m],
         OpFits(l, th[t].op)
  PROVE  ThreadsOK'
<1>1. th[t].deact = "none" /\ ~HasLock(th[t])
  BY DEF At, HasLock
<1>2. OthersLock(t) /\ cn'.lock # t
  BY <1>1, LockUnchanged DEF ThreadsOK
<1> QED
  BY <1>1, <1>2, GotoStep

(* An operation ends outside the sections.                                 *)
LEMMA FreeDone ==
  ASSUME ThreadsOK, NEW t \in Threads, NEW k, At(t, k), k \notin Locked, cn' = cn,
         Done(t)
  PROVE  ThreadsOK'
<1>1. ~HasLock(th[t])
  BY DEF At, HasLock
<1>2. OthersLock(t) /\ cn'.lock # t
  BY <1>1, LockUnchanged DEF ThreadsOK
<1> QED
  BY <1>2, DoneStep

(* Steps out of a section of client_lock.                                  *)
LEMMA UnlockStep ==
  ASSUME ThreadsOK, NEW t \in Threads, NEW k \in Locked, At(t, k),
         cn' \in Connection, cn'.lock = Free,
         NEW l \in Labels \ (Locked \cup {"added"}),
         \/ Goto(t, l) /\ OpFits(l, th[t].op)
         \/ Done(t)
         \/ th' = [th EXCEPT ![t] = [Idle EXCEPT !.deact = "exc"]]
         \/ th' = [th EXCEPT ![t] = [Idle EXCEPT !.deact = "none"]]
  PROVE  ThreadsOK'
<1>1. th[t].deact = "none" /\ HasLock(th[t])
  BY DEF At, HasLock
<1>2. OthersLock(t) /\ cn'.lock # t
  BY <1>1, LockReleased
<1>3. CASE Goto(t, l) /\ OpFits(l, th[t].op)
  <2>1. 0 \in Nat /\ 0 \in MonIds \cup {0}
    OBVIOUS
  <2> QED
    BY <1>1, <1>2, <1>3, <2>1, GotoStep
<1> QED
  BY <1>2, <1>3, DoneStep

(* A released lock is free.                                                *)
LEMMA UnlockTyped ==
  ASSUME ThreadsOK, Unlock
  PROVE  cn' \in Connection /\ cn'.lock = Free
BY DEF ThreadsOK, Unlock, Connection

-----------------------------------------------------------------------------
(* What a place tells about its operation.                                 *)
LEMMA OpAt ==
  ASSUME ThreadsOK, NEW t \in Threads, NEW k, At(t, k)
  PROVE  OpFits(k, th[t].op) /\ th[t] \in Thread /\ th[t].op \in Operations
BY DEF ThreadsOK, At, Fits, Thread

(* The steps of locks and of the thread handle.                            *)
LEMMA HandleSteps ==
  ASSUME ThreadsOK, NEW t \in Apps \cup {Client},
         AcquireClientLock(t) \/ Join(t) \/ Start(t) \/ Spawn(t) \/ Assign(t)
  PROVE  ThreadsOK'
<1> USE DEF Threads
<1>0. 0 \in Nat /\ 0 \in MonIds \cup {0}
  OBVIOUS
<1>1. CASE AcquireClientLock(t)
  <2>1. PICK l \in DOMAIN Section :
          /\ At(t, l) /\ cn.lock = Free
          /\ cn' = [cn EXCEPT !.lock = t]
          /\ Goto(t, Section[l])
    BY <1>1 DEF AcquireClientLock
  <2>2. cn' \in Connection /\ cn'.lock = t
    BY <2>1 DEF ThreadsOK, Connection
  <2>3. OthersLock(t)
    BY <2>1, <2>2, LockTaken
  <2>4. OpFits(Section[l], th[t].op)
    BY <2>1, OpAt, LabelFacts DEF OpFits, Section
  <2>5. Section[l] \in Locked /\ Section[l] \in Labels \ {"added"}
    BY LabelFacts, LabelsAre DEF Section
  <2> QED
    BY <1>0, <2>1, <2>2, <2>3, <2>4, <2>5, GotoStep DEF At
<1>2. CASE Join(t)
  <2>1. PICK l \in DOMAIN AfterJoin :
          /\ At(t, l)
          /\ IF AfterJoin[l] = "idle" THEN Done(t) ELSE Goto(t, AfterJoin[l])
          /\ cn' = cn
    BY <1>2 DEF Join
  <2>2. l \notin Locked /\ OpFits(l, th[t].op)
    BY <2>1, OpAt, LabelFacts
  <2>3. CASE AfterJoin[l] = "idle"
    BY <2>1, <2>2, <2>3, FreeDone
  <2>4. CASE AfterJoin[l] # "idle"
    <3>1. /\ AfterJoin[l] \in Labels \ (Locked \cup {"added"})
          /\ OpFits(AfterJoin[l], th[t].op)
      BY <2>2, <2>4, LabelFacts, LabelsAre DEF AfterJoin, OpFits
    <3> QED
      BY <1>0, <2>1, <2>2, <2>4, <3>1, FreeGoto
  <2> QED
    BY <2>3, <2>4
<1>3. CASE Start(t)
  <2>1. At(t, "start") /\ cn' = cn /\ (Goto(t, "spawn") \/ Done(t))
    BY <1>3 DEF Start
  <2>2. /\ "start" \notin Locked /\ "spawn" \in Labels \ (Locked \cup {"added"})
        /\ OpFits("spawn", th[t].op)
    BY LabelFacts, LabelsAre DEF OpFits
  <2> QED
    BY <1>0, <2>1, <2>2, FreeGoto, FreeDone
<1>4. CASE Spawn(t) /\ th' = th
  BY <1>4, ThreadsSame DEF Spawn, ThreadsOK
<1>5. CASE Spawn(t) /\ th' # th
  <2>1. /\ At(t, "spawn") /\ th[Client] = Idle /\ cn' = cn
        /\ th' = [th EXCEPT ![t].pc = "assign", ![Client].pc = "loop"]
    BY <1>5 DEF Spawn
  <2>2. t # Client
    BY <2>1 DEF At, Idle
  <2>3. th[t] \in Thread /\ th[Client] \in Thread /\ th \in [Threads -> Thread]
    BY DEF ThreadsOK
  <2> DEFINE r == [th[t] EXCEPT !.pc = "assign"]
             c == [Idle EXCEPT !.pc = "loop"]
  <2>4. r \in Thread /\ Fits(r) /\ ~HasLock(r)
    BY <2>1, <2>3, LabelFacts, LabelsAre DEF At, Thread, Fits, OpFits, HasLock
  <2>5. c \in Thread /\ Fits(c) /\ ~HasLock(c)
    BY LabelFacts, LabelsAre
       DEF Idle, Thread, Operations, Fits, OpFits, HasLock
  <2>6. ~HasLock(th[t]) /\ ~HasLock(th[Client])
    BY <2>1, LabelFacts DEF At, Idle, HasLock
  <2>7. \A u \in Threads : th'[u] = IF u = t THEN r
                                    ELSE IF u = Client THEN c ELSE th[u]
    BY <2>1, <2>2, <2>3
  <2>8. th' \in [Threads -> Thread]
    <3>1. th' = [u \in Threads |-> th'[u]]
      BY <2>1, <2>3
    <3> HIDE DEF r, c
    <3> QED
      BY <3>1, <2>3, <2>4, <2>5, <2>7
  <2> HIDE DEF r, c
  <2> QED
    BY <2>1, <2>4, <2>5, <2>6, <2>7, <2>8 DEF ThreadsOK
<1>6. CASE Assign(t)
  <2>1. CASE th' = th
    BY <1>6, <2>1, ThreadsSame DEF Assign, ThreadsOK
  <2>2. CASE th' # th
    <3>1. At(t, "assign") /\ cn' = cn /\ Done(t) /\ "assign" \notin Locked
      BY <1>6, <2>2, LabelFacts DEF Assign
    <3> QED
      BY <3>1, FreeDone
  <2> QED
    BY <2>1, <2>2
<1> QED
  BY <1>1, <1>2, <1>3, <1>4, <1>5, <1>6

(* Callbacks start inside client calls.                                    *)
LEMMA CallbackStarts ==
  ASSUME ThreadsOK, NEW t \in Threads, NEW k, At(t, k),
         NEW l \in Labels \ {"added"}, l \in Locked <=> k \in Locked,
         OpFits(l, th[t].op), Disconnected(t, l)
  PROVE  ThreadsOK'
<1> DEFINE d == IF be.opened /\ be.manager /\ sm.run THEN "exc" ELSE "none"
           r == [th[t] EXCEPT !.pc = l, !.deact = d]
<1>1. th[t] \in Thread /\ th \in [Threads -> Thread] /\ th[t].deact = "none"
  BY DEF ThreadsOK, At
<1>2. d \in {"none", "exc"}
  OBVIOUS
<1> HIDE DEF d
<1>3. r \in Thread /\ r.pc = l /\ r.op = th[t].op /\ r.deact = d
  BY <1>1, <1>2 DEF Thread
<1>4. th' = [th EXCEPT ![t] = r]
  BY <1>1 DEF Disconnected, d
<1>5. cn' \in Connection /\ cn'.lock = cn.lock
  BY DEF ThreadsOK, Disconnected, Connection
<1>6. OthersLock(t) /\ (HasLock(th[t]) <=> cn'.lock = t)
  BY <1>5, LockUnchanged
<1>7. Fits(r) /\ (HasLock(r) <=> HasLock(th[t]))
  BY <1>1, <1>2, <1>3 DEF Fits, HasLock, At
<1> QED
  BY <1>3, <1>4, <1>6, <1>7, OneThread

(* The steps of open, close and resetClient.                               *)
LEMMA LifecycleSteps ==
  ASSUME ThreadsOK, NEW t \in Threads,
         \/ Open(t) \/ Close(t) \/ ResetClient(t) \/ ResetItems(t)
         \/ Disconnect(t) \/ AfterDisconnect(t) \/ Connect(t) \/ FinishOpen(t)
  PROVE  ThreadsOK'
<1>0. 0 \in Nat /\ 0 \in MonIds \cup {0} /\ {} \in SUBSET Accessors
  OBVIOUS
<1>1. CASE Open(t)
  <2>1. CASE th' = th
    BY <1>1, <2>1, ThreadsSame DEF Open, ThreadsOK
  <2>2. CASE th' # th
    <3>1. PICK l \in {"joinOpen", "reset"} : Begin(t, "open", l)
      BY <1>1, <2>2 DEF Open
    <3>2. /\ At(t, "idle") /\ cn' = cn /\ OpFits(l, "open")
          /\ l \in Labels \ (Locked \cup {"added"}) /\ "open" \in Operations
      BY <1>1, LabelFacts, LabelsAre DEF Open, OpFits, Operations
    <3> QED
      BY <1>0, <3>1, <3>2, BeginStep DEF At
  <2> QED
    BY <2>1, <2>2
<1>2. CASE Close(t)
  <2>1. /\ At(t, "idle") /\ cn' = cn /\ Begin(t, "close", "reset")
        /\ OpFits("reset", "close")
        /\ "reset" \in Labels \ (Locked \cup {"added"}) /\ "close" \in Operations
    BY <1>2, LabelFacts, LabelsAre DEF Close, OpFits, Operations
  <2> QED
    BY <1>0, <2>1, BeginStep DEF At
<1>3. CASE ResetClient(t)
  <2>1. /\ At(t, "reset") /\ cn' = cn /\ OpFits("reset", th[t].op)
        /\ "reset" \notin Locked
    BY <1>3, OpAt, LabelFacts DEF ResetClient
  <2>2. CASE be.manager
    <3> DEFINE r == [th[t] EXCEPT !.pc = "resetItems", !.deact = "items"]
    <3>1. th[t] \in Thread /\ th \in [Threads -> Thread]
      BY DEF ThreadsOK
    <3>2. th' = [th EXCEPT ![t] = r]
      BY <1>3, <2>2, <3>1 DEF ResetClient
    <3>3. r \in Thread /\ Fits(r) /\ ~HasLock(r)
      <4>1. th[t].op \in {"open", "close"}
        BY <2>1 DEF OpFits
      <4>2. /\ r \in Thread /\ r.pc = "resetItems" /\ r.op = th[t].op
            /\ r.deact = "items"
        BY <3>1, LabelsAre DEF Thread
      <4> HIDE DEF r
      <4> QED
        BY <4>1, <4>2, LabelFacts DEF Fits, OpFits, HasLock
    <3>4. OthersLock(t) /\ cn'.lock # t
      <4>1. ~HasLock(th[t])
        BY <2>1 DEF At, HasLock
      <4> QED
        BY <2>1, <4>1, LockUnchanged DEF ThreadsOK
    <3> HIDE DEF r
    <3> QED
      BY <3>2, <3>3, <3>4, OneThread
  <2>3. CASE ~be.manager
    <3>1. Goto(t, "closeLock")
      BY <1>3, <2>3 DEF ResetClient, Goto
    <3>2. /\ OpFits("closeLock", th[t].op)
          /\ "closeLock" \in Labels \ (Locked \cup {"added"})
      BY <2>1, LabelFacts, LabelsAre DEF OpFits
    <3> QED
      BY <1>0, <2>1, <3>1, <3>2, FreeGoto
  <2> QED
    BY <2>2, <2>3
<1>4. CASE ResetItems(t)
  <2>1. /\ At(t, "resetItems") /\ cn' = cn /\ Goto(t, "joinReset")
        /\ OpFits("resetItems", th[t].op) /\ "resetItems" \notin Locked
    BY <1>4, OpAt, LabelFacts DEF ResetItems
  <2>2. /\ OpFits("joinReset", th[t].op)
        /\ "joinReset" \in Labels \ (Locked \cup {"added"})
    BY <2>1, LabelFacts, LabelsAre DEF OpFits
  <2> QED
    BY <1>0, <2>1, <2>2, FreeGoto
<1>5. CASE Disconnect(t)
  <2>1. /\ At(t, "disconnect") /\ Disconnected(t, "disconnected")
        /\ OpFits("disconnect", th[t].op)
    BY <1>5, OpAt DEF Disconnect
  <2>2. /\ OpFits("disconnected", th[t].op)
        /\ "disconnected" \in Locked /\ "disconnect" \in Locked
        /\ "disconnected" \in Labels \ {"added"}
    BY <2>1, LabelFacts, LabelsAre DEF OpFits
  <2> QED
    BY <2>1, <2>2, CallbackStarts
<1>6. CASE AfterDisconnect(t)
  <2>1. /\ At(t, "disconnected") /\ Unlock
        /\ OpFits("disconnected", th[t].op)
    BY <1>6, OpAt DEF AfterDisconnect
  <2>2. /\ cn' \in Connection /\ cn'.lock = Free
        /\ "disconnected" \in Locked
        /\ "connectLock" \in Labels \ (Locked \cup {"added"})
        /\ th[t].op \in {"open", "close", "transfer"}
    BY <2>1, UnlockTyped, LabelFacts, LabelsAre DEF OpFits
  <2>3. CASE th[t].op = "close"
    <3>1. Done(t)
      BY <1>6, <2>3 DEF AfterDisconnect
    <3> QED
      BY <2>1, <2>2, <3>1, UnlockStep
  <2>4. CASE th[t].op = "open"
    <3>1. Goto(t, "connectLock") /\ OpFits("connectLock", th[t].op)
      BY <1>6, <2>4 DEF AfterDisconnect, OpFits
    <3> QED
      BY <2>1, <2>2, <3>1, UnlockStep
  <2>5. CASE th[t].op = "transfer"
    <3>1. SetException(t)
      BY <1>6, <2>5 DEF AfterDisconnect
    <3> QED
      BY <2>1, <2>2, <3>1, UnlockStep DEF SetException
  <2> QED
    BY <2>2, <2>3, <2>4, <2>5
<1>7. CASE Connect(t)
  <2>1. /\ At(t, "connect") /\ "connect" \in Locked
        /\ OpFits("connect", th[t].op)
    BY <1>7, OpAt, LabelFacts DEF Connect
  <2>2. cn' \in Connection /\ cn'.lock = Free
    BY <1>7 DEF Connect, Unlock, ThreadsOK, Connection
  <2>3. PICK l \in {"createSub", "opened"} : Goto(t, l) \/ Done(t)
    BY <1>7 DEF Connect
  <2>4. OpFits(l, th[t].op) /\ l \in Labels \ (Locked \cup {"added"})
    BY <2>1, LabelFacts, LabelsAre DEF OpFits
  <2> QED
    BY <2>1, <2>2, <2>3, <2>4, UnlockStep
<1>8. CASE FinishOpen(t)
  <2>1. At(t, "opened") /\ cn' = cn /\ Done(t) /\ "opened" \notin Locked
    BY <1>8, LabelFacts DEF FinishOpen
  <2> QED
    BY <2>1, FreeDone
<1> QED
  BY <1>1, <1>2, <1>3, <1>4, <1>5, <1>6, <1>7, <1>8

(* The least element of a set of numbers.                                  *)
LEMMA LeastExists ==
  ASSUME NEW S \in SUBSET Nat, S # {}
  PROVE  (CHOOSE j \in S : \A k \in S : j <= k) \in S
<1> DEFINE Less == {ss \in Nat \X Nat : ss[1] < ss[2]}
<1>1. IsWellFoundedOn(Less, Nat)
  BY NatLessThanWellFounded, Zenon DEF OpToRel
<1>2. PICK x \in S : \A y \in S : ~(<<y, x>> \in Less)
  <2> HIDE DEF Less
  <2> QED
    BY <1>1, WFMin
<1>3. \A y \in S : x <= y
  <2> SUFFICES ASSUME NEW y \in S, ~(x <= y) PROVE FALSE
    OBVIOUS
  <2>1. <<y, x>> \in Less
    OBVIOUS
  <2> QED
    BY <1>2, <2>1
<1> QED
  BY <1>3

(* The steps of activateAsyncRead, createSubscription, addMonitoredItems.  *)
LEMMA SubscriptionSteps ==
  ASSUME ItemsTypeOK, ThreadsOK, NEW t \in Threads,
         \/ Activate(t) \/ CreateSubscription(t) \/ CreateRemove(t) \/ Create(t)
         \/ Created(t) \/ CreateFailed(t) \/ ActivateAsync(t) \/ ActivateAll(t)
         \/ AddNext(t) \/ AddItem(t) \/ Added(t) \/ AddFailed(t)
  PROVE  ThreadsOK'
<1>0. /\ 0 \in Nat /\ 1 \in Nat /\ 0 \in MonIds \cup {0}
      /\ {} \in SUBSET Accessors
  OBVIOUS
<1>1. CASE Activate(t)
  <2>1. PICK l \in {"async", "createSub"} : Begin(t, "activate", l)
    BY <1>1 DEF Activate
  <2>2. /\ At(t, "idle") /\ cn' = cn /\ OpFits(l, "activate")
        /\ l \in Labels \ (Locked \cup {"added"}) /\ "activate" \in Operations
    BY <1>1, LabelFacts, LabelsAre DEF Activate, OpFits, Operations
  <2> QED
    BY <1>0, <2>1, <2>2, BeginStep DEF At
<1>2. CASE CreateSubscription(t)
  <2>1. /\ At(t, "createSub") /\ cn' = cn /\ OpFits("createSub", th[t].op)
        /\ "createSub" \notin Locked
    BY <1>2, OpAt, LabelFacts DEF CreateSubscription
  <2>2. PICK l \in {"createRemove", "createLock"} : Goto(t, l)
    BY <1>2 DEF CreateSubscription
  <2>3. OpFits(l, th[t].op) /\ l \in Labels \ (Locked \cup {"added"})
    BY <2>1, LabelFacts, LabelsAre DEF OpFits
  <2> QED
    BY <1>0, <2>1, <2>2, <2>3, FreeGoto
<1>3. CASE CreateRemove(t)
  <2>1. /\ At(t, "createRemove") /\ cn' = cn /\ Goto(t, "createLock")
        /\ OpFits("createRemove", th[t].op) /\ "createRemove" \notin Locked
    BY <1>3, OpAt, LabelFacts DEF CreateRemove
  <2>2. /\ OpFits("createLock", th[t].op)
        /\ "createLock" \in Labels \ (Locked \cup {"added"})
    BY <2>1, LabelFacts, LabelsAre DEF OpFits
  <2> QED
    BY <1>0, <2>1, <2>2, FreeGoto
<1>4. CASE Create(t)
  <2>1. /\ At(t, "create") /\ Unlock /\ OpFits("create", th[t].op)
        /\ "create" \in Locked
    BY <1>4, OpAt, LabelFacts DEF Create
  <2>2. PICK l \in {"created", "createFailed"} : Goto(t, l)
    BY <1>4 DEF Create
  <2>3. OpFits(l, th[t].op) /\ l \in Labels \ (Locked \cup {"added"})
    BY <2>1, LabelFacts, LabelsAre DEF OpFits
  <2> QED
    BY <2>1, <2>2, <2>3, UnlockStep, UnlockTyped
<1>5. CASE Created(t)
  <2>1. At(t, "created") /\ cn' = cn /\ "created" \notin Locked
    BY <1>5, LabelFacts DEF Created
  <2>2. PICK l \in {"async", "addNext"} :
          th' = [th EXCEPT ![t].pc = l, ![t].idx = 1]
    BY <1>5 DEF Created
  <2>3. OpFits(l, th[t].op) /\ l \in Labels \ (Locked \cup {"added"})
    BY LabelFacts, LabelsAre DEF OpFits
  <2> QED
    BY <1>0, <2>1, <2>2, <2>3, FreeGoto
<1>6. CASE CreateFailed(t)
  <2>1. /\ At(t, "createFailed") /\ cn' = cn /\ Done(t)
        /\ "createFailed" \notin Locked
    BY <1>6, LabelFacts DEF CreateFailed
  <2> QED
    BY <2>1, FreeDone
<1>7. CASE ActivateAsync(t)
  <2>1. At(t, "async") /\ cn' = cn /\ "async" \notin Locked
    BY <1>7, LabelFacts DEF ActivateAsync
  <2>2. PICK l \in {"addNext", "activateItems"} :
          th' = [th EXCEPT ![t].pc = l, ![t].idx = 1]
    BY <1>7 DEF ActivateAsync
  <2>3. OpFits(l, th[t].op) /\ l \in Labels \ (Locked \cup {"added"})
    BY LabelFacts, LabelsAre DEF OpFits
  <2> QED
    BY <1>0, <2>1, <2>2, <2>3, FreeGoto
<1>8. CASE ActivateAll(t)
  <2>1. /\ At(t, "activateItems") /\ cn' = cn /\ Goto(t, "start")
        /\ "activateItems" \notin Locked /\ OpFits("start", th[t].op)
        /\ "start" \in Labels \ (Locked \cup {"added"})
    BY <1>8, LabelFacts, LabelsAre DEF ActivateAll, OpFits
  <2> QED
    BY <1>0, <2>1, FreeGoto
<1>9. CASE AddNext(t)
  <2>1. At(t, "addNext") /\ cn' = cn /\ "addNext" \notin Locked
    BY <1>9, LabelFacts DEF AddNext
  <2> DEFINE Todo == {j \in DOMAIN items : j >= th[t].idx
                                           /\ ~item[items[j]].isMonitored}
             least == CHOOSE j \in Todo : \A k \in Todo : j <= k
  <2>2. CASE Todo # {}
    <3>1. th' = [th EXCEPT ![t].pc = "addLock", ![t].idx = least]
      BY <1>9, <2>2 DEF AddNext
    <3>2. Todo \in SUBSET Nat
      BY LenProperties DEF ItemsTypeOK
    <3>3. least \in Nat
      <4> HIDE DEF Todo
      <4> QED
        BY <2>2, <3>2, LeastExists
    <3>4. OpFits("addLock", th[t].op) /\ "addLock" \in Labels \ (Locked \cup {"added"})
      BY LabelFacts, LabelsAre DEF OpFits
    <3> HIDE DEF least
    <3> QED
      BY <1>0, <2>1, <3>1, <3>3, <3>4, FreeGoto
  <2>3. CASE Todo = {}
    <3>1. PICK l \in {"opened", "start"} :
            th' = [th EXCEPT ![t].pc = l, ![t].idx = 0]
      BY <1>9, <2>3 DEF AddNext
    <3>2. OpFits(l, th[t].op) /\ l \in Labels \ (Locked \cup {"added"})
      BY LabelFacts, LabelsAre DEF OpFits
    <3> QED
      BY <1>0, <2>1, <3>1, <3>2, FreeGoto
  <2> QED
    BY <2>2, <2>3
<1>10. CASE AddItem(t)
  <2>1. /\ At(t, "addItem") /\ Unlock /\ "addItem" \in Locked
        /\ OpFits("addFailed", th[t].op)
        /\ "addFailed" \in Labels \ (Locked \cup {"added"})
    BY <1>10, LabelFacts, LabelsAre DEF AddItem, OpFits
  <2>2. CASE Goto(t, "addFailed")
    BY <2>1, <2>2, UnlockStep, UnlockTyped
  <2>3. CASE \E id \in MonIds : th' = [th EXCEPT ![t].pc = "added", ![t].id = id]
    <3>1. PICK id \in MonIds : th' = [th EXCEPT ![t].pc = "added", ![t].id = id]
      BY <2>3
    <3> DEFINE r == [th[t] EXCEPT !.pc = "added", !.id = id]
    <3>2. th[t] \in Thread /\ th \in [Threads -> Thread] /\ th[t].deact = "none"
      BY <2>1 DEF ThreadsOK, At
    <3>3. th' = [th EXCEPT ![t] = r]
      BY <3>1, <3>2
    <3>4. r \in Thread /\ Fits(r) /\ ~HasLock(r)
      BY <3>2, LabelFacts, LabelsAre, ZenonT(40) DEF Thread, Fits, OpFits, HasLock
    <3>5. OthersLock(t) /\ cn'.lock # t
      <4>1. HasLock(th[t])
        BY <2>1 DEF At, HasLock
      <4> QED
        BY <2>1, <4>1, UnlockTyped, LockReleased
    <3> HIDE DEF r
    <3> QED
      BY <3>3, <3>4, <3>5, OneThread
  <2> QED
    BY <1>10, <2>2, <2>3 DEF AddItem
<1>11. CASE Added(t) \/ AddFailed(t)
  <2>1. PICK k \in {"added", "addFailed"} : At(t, k) /\ cn' = cn
    BY <1>11 DEF Added, AddFailed
  <2>2. th[t].idx + 1 \in Nat
    BY DEF ThreadsOK, Thread
  <2>3. /\ k \notin Locked /\ OpFits("addNext", th[t].op)
        /\ "addNext" \in Labels \ (Locked \cup {"added"})
    BY LabelFacts, LabelsAre DEF OpFits
  <2>4. \/ th' = [th EXCEPT ![t].pc = "addNext", ![t].idx = th[t].idx + 1]
        \/ th' = [th EXCEPT ![t].pc = "addNext", ![t].idx = th[t].idx + 1,
                            ![t].id = 0]
    <3>1. th \in [Threads -> Thread] /\ th[t] \in Thread
      BY DEF ThreadsOK
    <3> QED
      BY <1>11, <3>1 DEF Added, AddFailed, Thread
  <2> QED
    BY <1>0, <2>1, <2>2, <2>3, <2>4, FreeGoto
<1> QED
  BY <1>1, <1>2, <1>3, <1>4, <1>5, <1>6, <1>7, <1>8, <1>9, <1>10, <1>11

(* The steps of accessors: construction, destruction, transfers.           *)
LEMMA AccessorSteps ==
  ASSUME ItemsTypeOK, ThreadsOK, NEW t \in Threads,
         \/ \E a \in Accessors : Construct(t, a) \/ Destruct(t, a)
                                 \/ PopException(t, a)
         \/ Subscribed(t) \/ Unsubscribed(t) \/ DeleteItem(t) \/ RemoveLast(t)
         \/ StopLast(t) \/ Transfer(t) \/ TransferDone(t)
         \/ \E n \in Nodes : HandleError(t, n)
  PROVE  ThreadsOK'
<1>0. /\ 0 \in Nat /\ 1 \in Nat /\ 0 \in MonIds \cup {0}
      /\ {} \in SUBSET Accessors
  OBVIOUS
<1>1. ASSUME NEW a \in Accessors, Construct(t, a) PROVE ThreadsOK'
  <2>1. At(t, "idle") /\ cn' = cn
    BY <1>1 DEF Construct
  <2>2. CASE th' = th
    BY <2>1, <2>2, ThreadsSame DEF ThreadsOK
  <2>3. CASE th' # th
    <3>1. PICK l \in {"start", "subscribed"} :
            \/ Begin(t, "construct", l)
            \/ th' = [th EXCEPT ![t].op = "construct", ![t].pc = l,
                                ![t].new = {a}]
      BY <1>1, <2>3 DEF Construct
    <3>2. /\ OpFits(l, "construct") /\ "construct" \in Operations
          /\ l \in Labels \ (Locked \cup {"added"})
          /\ {a} \in SUBSET Accessors
      BY LabelFacts, LabelsAre DEF OpFits, Operations
    <3> QED
      BY <1>0, <2>1, <3>1, <3>2, BeginStep DEF At
  <2> QED
    BY <2>2, <2>3
<1>2. ASSUME NEW a \in Accessors, Destruct(t, a) PROVE ThreadsOK'
  <2>1. At(t, "idle") /\ cn' = cn
    BY <1>2 DEF Destruct
  <2>2. CASE th' = th
    BY <2>1, <2>2, ThreadsSame DEF ThreadsOK
  <2>3. CASE th' # th
    <3> DEFINE id == item[NodeOf[a]].id
    <3>1. id \in MonIds \cup {0}
      BY ItemsAssumption DEF ItemsTypeOK, Item
    <3>2. th' = [th EXCEPT ![t].op = "destruct", ![t].pc = "unsubscribed",
                           ![t].id = id]
      BY <1>2, <2>3 DEF Destruct
    <3>3. /\ OpFits("unsubscribed", "destruct") /\ "destruct" \in Operations
          /\ "unsubscribed" \in Labels \ (Locked \cup {"added"})
      BY LabelFacts, LabelsAre DEF OpFits, Operations
    <3> HIDE DEF id
    <3> QED
      BY <1>0, <2>1, <3>1, <3>2, <3>3, BeginStep DEF At
  <2> QED
    BY <2>2, <2>3
<1>3. ASSUME NEW a \in Accessors, PopException(t, a) PROVE ThreadsOK'
  <2>1. At(t, "idle") /\ cn' = cn /\ SetException(t) /\ "idle" \notin Locked
    BY <1>3, LabelFacts DEF PopException
  <2>2. ~HasLock(th[t])
    BY <2>1 DEF At, HasLock
  <2>3. OthersLock(t) /\ cn'.lock # t
    BY <2>1, <2>2, LockUnchanged DEF ThreadsOK
  <2> QED
    BY <2>1, <2>3, DoneStep DEF SetException
<1>4. CASE Subscribed(t)
  <2>1. At(t, "subscribed") /\ cn' = cn /\ OpFits("subscribed", th[t].op)
    BY <1>4, OpAt DEF Subscribed
  <2>2. PICK l \in {"start", "addNext", "createSub"} :
          th' = [th EXCEPT ![t].pc = l, ![t].idx = 1]
    BY <1>4 DEF Subscribed
  <2>3. /\ "subscribed" \notin Locked /\ OpFits(l, th[t].op)
        /\ l \in Labels \ (Locked \cup {"added"})
    BY <2>1, LabelFacts, LabelsAre DEF OpFits
  <2> QED
    BY <1>0, <2>1, <2>2, <2>3, FreeGoto
<1>5. CASE Unsubscribed(t)
  <2>1. /\ At(t, "unsubscribed") /\ cn' = cn
        /\ Goto(t, "unsubLock") \/ Done(t)
    BY <1>5 DEF Unsubscribed
  <2>2. /\ "unsubscribed" \notin Locked /\ OpFits("unsubLock", th[t].op)
        /\ "unsubLock" \in Labels \ (Locked \cup {"added"})
    BY LabelFacts, LabelsAre DEF OpFits
  <2> QED
    BY <1>0, <2>1, <2>2, FreeGoto, FreeDone
<1>6. CASE DeleteItem(t)
  <2>1. At(t, "unsub") /\ Unlock /\ (Goto(t, "lastLock") \/ Done(t))
    BY <1>6 DEF DeleteItem
  <2>2. /\ "unsub" \in Locked /\ OpFits("lastLock", th[t].op)
        /\ "lastLock" \in Labels \ (Locked \cup {"added"})
    BY LabelFacts, LabelsAre DEF OpFits
  <2> QED
    BY <2>1, <2>2, UnlockStep, UnlockTyped
<1>7. CASE RemoveLast(t)
  <2>1. At(t, "last") /\ Unlock /\ Goto(t, "lastRun")
    BY <1>7 DEF RemoveLast
  <2>2. /\ "last" \in Locked /\ OpFits("lastRun", th[t].op)
        /\ "lastRun" \in Labels \ (Locked \cup {"added"})
    BY LabelFacts, LabelsAre DEF OpFits
  <2> QED
    BY <2>1, <2>2, UnlockStep, UnlockTyped
<1>8. CASE StopLast(t)
  <2>1. At(t, "lastRun") /\ cn' = cn /\ Goto(t, "joinLast")
    BY <1>8 DEF StopLast
  <2>2. /\ "lastRun" \notin Locked /\ OpFits("joinLast", th[t].op)
        /\ "joinLast" \in Labels \ (Locked \cup {"added"})
    BY LabelFacts, LabelsAre DEF OpFits
  <2> QED
    BY <1>0, <2>1, <2>2, FreeGoto
<1>9. CASE Transfer(t)
  <2>1. At(t, "idle") /\ cn' = cn /\ Begin(t, "transfer", "readLock")
    BY <1>9 DEF Transfer
  <2>2. /\ OpFits("readLock", "transfer") /\ "transfer" \in Operations
        /\ "readLock" \in Labels \ (Locked \cup {"added"})
    BY LabelFacts, LabelsAre DEF OpFits, Operations
  <2> QED
    BY <1>0, <2>1, <2>2, BeginStep DEF At
<1>10. ASSUME NEW k \in {"read", "readError"}, At(t, k), cn' = cn,
              NEW l \in {"readError", "disconnect"}, Goto(t, l)
       PROVE  ThreadsOK'
  <2>1. OpFits(k, th[t].op)
    BY <1>10, OpAt
  <2>2. OpFits(l, th[t].op) /\ l \in Locked /\ l \in Labels \ {"added"}
    BY <2>1, LabelFacts, LabelsAre DEF OpFits
  <2>3. HasLock(th[t]) /\ th[t].deact = "none"
    BY <1>10, LabelFacts DEF HasLock, At
  <2>4. OthersLock(t) /\ cn'.lock = t
    BY <1>10, <2>3, LockUnchanged DEF ThreadsOK
  <2> QED
    BY <1>0, <1>10, <2>2, <2>3, <2>4, GotoStep
<1>11. ASSUME NEW k \in {"read", "readError"}, At(t, k), Unlock, Done(t)
       PROVE  ThreadsOK'
  <2>1. k \in Locked /\ "idle" \in Labels \ (Locked \cup {"added"})
    BY LabelFacts, LabelsAre
  <2> QED
    BY <1>11, <2>1, UnlockStep, UnlockTyped
<1>12. CASE TransferDone(t)
  BY <1>10, <1>11, <1>12 DEF TransferDone
<1>13. ASSUME NEW n \in Nodes, HandleError(t, n) PROVE ThreadsOK'
  BY <1>10, <1>11, <1>13 DEF HandleError
<1> QED
  BY <1>1, <1>2, <1>3, <1>4, <1>5, <1>6, <1>7, <1>8, <1>9, <1>12, <1>13

(* The steps of runClient.                                                 *)
LEMMA ClientSteps ==
  ASSUME ThreadsOK, RunLoop \/ RunIterate \/ RunExit \/ RunEnd
  PROVE  ThreadsOK'
<1>0. 0 \in Nat /\ 0 \in MonIds \cup {0} /\ Client \in Threads
  BY DEF Threads
<1>1. CASE RunLoop
  <2>1. PICK l \in {"iterLock", "exitLock"} : Goto(Client, l)
    BY <1>1 DEF RunLoop
  <2>2. /\ At(Client, "loop") /\ cn' = cn /\ "loop" \notin Locked
        /\ OpFits(l, th[Client].op) /\ l \in Labels \ (Locked \cup {"added"})
    BY <1>1, LabelFacts, LabelsAre DEF RunLoop, OpFits
  <2> QED
    BY <1>0, <2>1, <2>2, FreeGoto
<1>2. CASE RunIterate
  <2>1. PICK l \in {"exitLock", "loop"} : Goto(Client, l)
    BY <1>2 DEF RunIterate
  <2>2. /\ At(Client, "iterate") /\ Unlock /\ "iterate" \in Locked
        /\ OpFits(l, th[Client].op) /\ l \in Labels \ (Locked \cup {"added"})
    BY <1>2, LabelFacts, LabelsAre DEF RunIterate, OpFits
  <2> QED
    BY <1>0, <2>1, <2>2, UnlockStep, UnlockTyped
<1>3. CASE RunExit
  <2>1. /\ At(Client, "exit") /\ Unlock /\ "exit" \in Locked
        /\ Goto(Client, "exitRun") /\ OpFits("exitRun", th[Client].op)
        /\ "exitRun" \in Labels \ (Locked \cup {"added"})
    BY <1>3, LabelFacts, LabelsAre DEF RunExit, OpFits
  <2> QED
    BY <1>0, <2>1, UnlockStep, UnlockTyped
<1>4. CASE RunEnd
  <2>1. /\ At(Client, "exitRun") /\ cn' = cn /\ Done(Client)
        /\ "exitRun" \notin Locked
    BY <1>4, LabelFacts DEF RunEnd
  <2> QED
    BY <1>0, <2>1, FreeDone
<1> QED
  BY <1>1, <1>2, <1>3, <1>4

(* The steps of callbacks, with deactivate.                                *)
LEMMA CallbackSteps ==
  ASSUME ThreadsOK, NEW t \in Threads, Deactivate(t) \/ Callback(t)
  PROVE  ThreadsOK'
<1>0. th[t] \in Thread /\ th \in [Threads -> Thread] /\ cn \in Connection
  BY DEF ThreadsOK
<1>1. ASSUME NEW d \in {"exc", "items", "run", "sub", "lock", "async"},
             th[t].deact # "remove",
             \/ th' = [th EXCEPT ![t].deact = d]
             \/ th' = [th EXCEPT ![t].deact = d, ![t].inactive = TRUE],
             cn' = cn
      PROVE  ThreadsOK'
  <2>1. PICK b \in BOOLEAN :
          th' = [th EXCEPT ![t] = [th[t] EXCEPT !.deact = d, !.inactive = b]]
    <3>1. th[t].inactive \in BOOLEAN
      BY <1>0 DEF Thread
    <3>2. CASE th' = [th EXCEPT ![t].deact = d]
      <4>1. th' = [th EXCEPT ![t] = [th[t] EXCEPT !.deact = d,
                                                  !.inactive = th[t].inactive]]
        BY <1>0, <3>2 DEF Thread
      <4> QED
        BY <3>1, <4>1
    <3>3. CASE th' = [th EXCEPT ![t].deact = d, ![t].inactive = TRUE]
      <4>1. th' = [th EXCEPT ![t] = [th[t] EXCEPT !.deact = d, !.inactive = TRUE]]
        BY <1>0, <3>3
      <4> QED
        BY <4>1
    <3> QED
      BY <1>1, <3>2, <3>3
  <2> DEFINE r == [th[t] EXCEPT !.deact = d, !.inactive = b]
  <2>2. /\ r \in Thread /\ r.pc = th[t].pc /\ r.op = th[t].op
        /\ r.id = th[t].id /\ r.deact = d
    BY <1>0 DEF Thread
  <2>3. OthersLock(t) /\ (th[t].pc \in Locked <=> cn'.lock = t)
    BY <1>0, <1>1, LockUnchanged DEF HasLock
  <2> HIDE DEF r
  <2> QED
    BY <2>1, <2>2, <2>3, DeactStep DEF r
<1>2. CASE \/ DeactivateException(t) \/ DeactivateMapped(t)
           \/ DeactivateRun(t) \/ DeactivateSubscription(t)
  <2>1. PICK d \in {"items", "run", "sub", "lock", "async"} :
          th' = [th EXCEPT ![t].deact = d]
    BY <1>2 DEF DeactivateException, DeactivateMapped, DeactivateRun,
                DeactivateSubscription
  <2>2. cn' = cn /\ th[t].deact \in {"exc", "items", "run", "sub"}
    BY <1>2 DEF DeactivateException, DeactivateMapped, DeactivateRun,
                DeactivateSubscription, Deact
  <2> QED
    BY <1>1, <2>1, <2>2
<1>3. CASE DeactivateLock(t)
  <2> DEFINE r == [th[t] EXCEPT !.deact = "remove"]
  <2>1. /\ r \in Thread /\ r.pc = th[t].pc /\ r.op = th[t].op
        /\ r.id = th[t].id /\ r.deact = "remove"
    BY <1>0 DEF Thread
  <2>2. th' = [th EXCEPT ![t] = r]
    BY <1>0, <1>3 DEF DeactivateLock
  <2>3. cn' \in Connection /\ cn'.lock = t /\ cn.lock = Free
    BY <1>0, <1>3 DEF DeactivateLock, Connection
  <2>4. OthersLock(t) /\ th[t].pc \notin Locked
    BY <2>3, LockTaken DEF HasLock
  <2> HIDE DEF r
  <2> QED
    BY <2>1, <2>2, <2>3, <2>4, DeactStep
<1>4. CASE DeactivateRemove(t)
  <2> DEFINE r == [th[t] EXCEPT !.deact = "async"]
  <2>1. /\ r \in Thread /\ r.pc = th[t].pc /\ r.op = th[t].op
        /\ r.id = th[t].id /\ r.deact = "async"
    BY <1>0 DEF Thread
  <2>2. th' = [th EXCEPT ![t] = r]
    BY <1>0, <1>4 DEF DeactivateRemove
  <2>3. cn' \in Connection /\ cn'.lock = Free
    <3>1. (cn.connected /\ srv.link) \in BOOLEAN
      OBVIOUS
    <3> QED
      BY <1>0, <1>4, <3>1 DEF DeactivateRemove, Connection
  <2>4. HasLock(th[t]) /\ th[t].pc \notin Locked
    BY <1>4 DEF DeactivateRemove, Deact, HasLock, ThreadsOK, Fits
  <2>5. OthersLock(t) /\ cn'.lock # t
    BY <2>3, <2>4, LockReleased
  <2> HIDE DEF r
  <2> QED
    BY <2>1, <2>2, <2>4, <2>5, DeactStep
<1>5. CASE DeactivateAsync(t)
  <2> DEFINE r == [th[t] EXCEPT !.deact = "none", !.inactive = FALSE]
  <2>1. /\ r \in Thread /\ r.pc = th[t].pc /\ r.op = th[t].op
        /\ r.id = th[t].id /\ r.deact = "none"
    BY <1>0 DEF Thread
  <2>2. th' = [th EXCEPT ![t] = r]
    BY <1>0, <1>5 DEF DeactivateAsync
  <2>3. cn' \in Connection /\ cn'.lock = cn.lock
    <3>1. (cn.connected /\ ~th[t].inactive) \in BOOLEAN
      OBVIOUS
    <3> QED
      BY <1>0, <1>5, <3>1 DEF DeactivateAsync, Connection
  <2>4. OthersLock(t) /\ (th[t].pc \in Locked <=> cn'.lock = t)
    BY <1>5, <2>3, LockUnchanged DEF DeactivateAsync, Deact, HasLock
  <2> HIDE DEF r
  <2> QED
    BY <2>1, <2>2, <2>4, DeactStep
<1>6. CASE StateCallback(t)
  <2>1. PICK k \in ClientCalls : At(t, k) /\ Disconnected(t, th[t].pc)
    BY <1>6 DEF StateCallback, InCall
  <2>2. th[t].pc = k /\ OpFits(k, th[t].op) /\ k \in Labels \ {"added"}
    BY <2>1, OpAt, LabelsAre DEF At, ClientCalls
  <2> QED
    BY <2>1, <2>2, CallbackStarts
<1>7. CASE InactivityCallback(t)
  <2>1. /\ cn' = cn /\ th[t].deact # "remove"
        /\ th' = [th EXCEPT ![t].deact = "exc", ![t].inactive = TRUE]
    BY <1>7 DEF InactivityCallback, InCall, At
  <2> QED
    BY <1>1, <2>1
<1>8. CASE DataCallback(t) \/ DataPush(t)
  <2>1. th' = th /\ cn' = cn
    BY <1>8 DEF DataCallback, DataPush, controlVars
  <2> QED
    BY <1>0, <2>1, ThreadsSame
<1>9. CASE SessionReused(t)
  <2>1. th' = th /\ cn' \in Connection /\ cn'.lock = cn.lock
    BY <1>0, <1>9 DEF SessionReused, Connection
  <2> QED
    BY <2>1, ThreadsSame
<1> QED
  BY <1>2, <1>3, <1>4, <1>5, <1>6, <1>7, <1>8, <1>9 DEF Deactivate, Callback

(* Every step keeps the threads and the lock.                              *)
LEMMA ThreadsStep ==
  ASSUME ItemsTypeOK, ThreadsOK, [Next]_vars
  PROVE  ThreadsOK'
<1>0. ASSUME th' = th, cn' = cn PROVE ThreadsOK'
  BY <1>0, ThreadsSame DEF ThreadsOK
<1>1. ASSUME NEW t \in Apps, AppBegin(t) PROVE ThreadsOK'
  <2>1. t \in Threads
    BY DEF Threads
  <2> QED
    BY <1>1, <2>1, LifecycleSteps, SubscriptionSteps, AccessorSteps DEF AppBegin
<1>2. ASSUME NEW t \in Apps, AppStep(t) PROVE ThreadsOK'
  <2>1. t \in Threads /\ t \in Apps \cup {Client}
    BY DEF Threads
  <2> QED
    BY <1>2, <2>1, HandleSteps, LifecycleSteps, SubscriptionSteps, AccessorSteps
       DEF AppStep
<1>3. CASE ClientStep
  BY <1>3, HandleSteps, ClientSteps DEF ClientStep
<1>4. ASSUME NEW t \in Threads, Deactivate(t) \/ Callback(t) PROVE ThreadsOK'
  BY <1>4, CallbackSteps
<1>5. CASE \E a \in Accessors : PopValue(a)
  BY <1>0, <1>5 DEF PopValue, controlVars
<1>6. CASE Environment
  BY <1>0, <1>6 DEF Environment, ValueChange, LoseLink, RestoreLink
<1>7. CASE UNCHANGED vars
  BY <1>0, <1>7 DEF vars, controlVars
<1> QED
  BY <1>1, <1>2, <1>3, <1>4, <1>5, <1>6, <1>7 DEF Next

-----------------------------------------------------------------------------
(* The flags of manager and backend, and the server.                       *)
Flags == [run : BOOLEAN, active : BOOLEAN, remove : BOOLEAN, async : BOOLEAN,
          id : BOOLEAN, thread : BOOLEAN, stuck : BOOLEAN]

Backend == [opened : BOOLEAN, exception : BOOLEAN, manager : BOOLEAN]

Server == [link : BOOLEAN, sub : BOOLEAN, items : SUBSET MonIds,
           pending : SUBSET MonIds, losses : Nat]

(* The flags and the server have their types.                              *)
FlagsOK ==
  /\ sm \in Flags /\ be \in Backend /\ srv \in Server
  /\ srv.pending \subseteq srv.items

(* What a removal of the subscription leaves.                              *)
LEMMA RemovedTyped ==
  ASSUME FlagsOK
  PROVE  /\ Removed \in Flags /\ [Removed EXCEPT !.remove = FALSE] \in Flags
         /\ NoSubscription \in Server
         /\ NoSubscription.pending \subseteq NoSubscription.items
<1> DEFINE b == sm.active /\ ~(Good /\ srv.sub)
<1>1. b \in BOOLEAN
  OBVIOUS
<1>2. Removed = [sm EXCEPT !.id = FALSE, !.active = b]
  BY DEF Removed
<1> HIDE DEF b
<1>3. /\ [sm EXCEPT !.id = FALSE, !.active = b] \in Flags
      /\ [[sm EXCEPT !.id = FALSE, !.active = b] EXCEPT !.remove = FALSE] \in Flags
  BY <1>1 DEF FlagsOK, Flags
<1>4. /\ NoSubscription \in Server
      /\ NoSubscription.pending \subseteq NoSubscription.items
  BY DEF FlagsOK, NoSubscription, Server
<1> QED
  BY <1>2, <1>3, <1>4

(* Types of a removal of the subscription.                                 *)
LEMMA RemovalStep ==
  ASSUME FlagsOK, be' = be,
         \/ RemoveSubscription(Removed)
         \/ RemoveSubscription([Removed EXCEPT !.remove = FALSE])
  PROVE  FlagsOK'
<1>1. /\ sm' \in Flags /\ be' \in Backend
      /\ srv' = NoSubscription \/ srv' = srv
  BY RemovedTyped DEF RemoveSubscription, FlagsOK
<1> QED
  BY <1>1, RemovedTyped DEF FlagsOK

(* Steps that change only the flags of the manager.                        *)
LEMMA FlagStepManager ==
  ASSUME FlagsOK, be' = be, srv' = srv, NEW b \in BOOLEAN, NEW c \in BOOLEAN,
         \/ sm' = sm
         \/ sm' = [sm EXCEPT !.thread = b]
         \/ sm' = [sm EXCEPT !.run = b]
         \/ sm' = [sm EXCEPT !.async = b]
         \/ sm' = [sm EXCEPT !.stuck = b]
         \/ sm' = [sm EXCEPT !.active = b, !.remove = c]
         \/ sm' = [sm EXCEPT !.id = b, !.active = c]
  PROVE  FlagsOK'
BY DEF FlagsOK, Flags

(* Steps that change only the flags of the backend.                        *)
LEMMA FlagStepBackend ==
  ASSUME FlagsOK, sm' = sm, srv' = srv, NEW b \in BOOLEAN, NEW c \in BOOLEAN,
         \/ be' = be
         \/ be' = [be EXCEPT !.opened = b]
         \/ be' = [be EXCEPT !.opened = b, !.exception = c]
         \/ be' = [be EXCEPT !.exception = b]
         \/ be' = [be EXCEPT !.manager = b]
  PROVE  FlagsOK'
BY DEF FlagsOK, Backend

(* Steps that change only the server.                                      *)
LEMMA FlagStepServer ==
  ASSUME FlagsOK, sm' = sm, be' = be, NEW id \in MonIds,
         \/ srv' = [srv EXCEPT !.items = @ \cup {id}, !.pending = @ \cup {id}]
         \/ srv' = [srv EXCEPT !.pending = @ \ {id}]
         \/ srv' = [srv EXCEPT !.pending = @ \cup {id}] /\ id \in srv.items
  PROVE  FlagsOK'
<1>1. /\ srv.items \in SUBSET MonIds /\ srv.pending \in SUBSET MonIds
      /\ srv.pending \subseteq srv.items /\ srv \in Server
  BY DEF FlagsOK, Server
<1>2. srv' \in Server /\ srv'.pending \subseteq srv'.items
  BY <1>1, ZenonT(40) DEF Server
<1> QED
  BY <1>2 DEF FlagsOK

(* Every step keeps the types of the flags.                                *)
LEMMA FlagsStep ==
  ASSUME ThreadsOK, FlagsOK, [Next]_vars
  PROVE  FlagsOK'
<1>0. /\ TRUE \in BOOLEAN /\ FALSE \in BOOLEAN
      /\ sm.active \in BOOLEAN /\ sm.remove \in BOOLEAN
      /\ (sm.remove \/ (sm.active /\ sm.thread)) \in BOOLEAN
  BY DEF FlagsOK, Flags
<1>1. ASSUME sm' = sm, be' = be, srv' = srv PROVE FlagsOK'
  BY <1>1 DEF FlagsOK
<1>2. ASSUME NEW t \in Threads,
             Join(t) \/ Start(t) \/ Assign(t) \/ StopLast(t) \/ ActivateAsync(t)
             \/ Created(t) \/ DeactivateRun(t) \/ DeactivateAsync(t)
      PROVE  FlagsOK'
  BY <1>0, <1>1, <1>2, FlagStepManager
     DEF Join, Start, Assign, StopLast, ActivateAsync, Created, DeactivateRun,
         DeactivateAsync
<1>3. ASSUME NEW t \in Threads, DeactivateSubscription(t) PROVE FlagsOK'
  <2> DEFINE b == sm.remove \/ (sm.active /\ sm.thread)
  <2>1. sm' = [sm EXCEPT !.active = FALSE, !.remove = b] /\ be' = be /\ srv' = srv
    BY <1>3 DEF DeactivateSubscription
  <2>2. b \in BOOLEAN
    OBVIOUS
  <2> HIDE DEF b
  <2> QED
    BY <1>0, <2>1, <2>2, FlagStepManager
<1>4. ASSUME NEW t \in Threads, Disconnect(t) PROVE FlagsOK'
  <2>1. be' = be /\ srv' = NoSubscription
    BY <1>4 DEF Disconnect
  <2>2. sm' = sm \/ sm' = [sm EXCEPT !.active = FALSE, !.id = FALSE]
    BY <1>4 DEF Disconnect
  <2>3. sm' \in Flags
    BY <2>2 DEF FlagsOK, Flags
  <2> QED
    BY <2>1, <2>3, RemovedTyped DEF FlagsOK
<1>5. ASSUME NEW t \in Threads, SetException(t), sm' = sm, srv' = srv
      PROVE  FlagsOK'
  BY <1>0, <1>5, FlagStepBackend DEF SetException
<1>6. ASSUME NEW t \in Threads, AfterDisconnect(t) PROVE FlagsOK'
  <2>1. sm' = sm /\ srv' = srv /\ OpFits("disconnected", th[t].op)
    BY <1>6, OpAt DEF AfterDisconnect
  <2>2. th[t].op \in {"open", "close", "transfer"}
    BY <2>1 DEF OpFits
  <2>3. be' = be \/ SetException(t)
    BY <1>6, <2>2 DEF AfterDisconnect
  <2> QED
    BY <1>1, <1>5, <2>1, <2>3
<1>7. ASSUME NEW t \in Threads,
             Open(t) \/ Close(t) \/ FinishOpen(t) \/ Activate(t)
      PROVE  FlagsOK'
  BY <1>0, <1>1, <1>7, FlagStepBackend
     DEF Open, Close, FinishOpen, Activate, Opened
<1>8. ASSUME NEW t \in Threads, NEW a \in Accessors,
             Construct(t, a) \/ Destruct(t, a) \/ PopException(t, a)
      PROVE  FlagsOK'
  <2>1. CASE Construct(t, a)
    <3>1. /\ be' = [be EXCEPT !.manager = TRUE] /\ srv' = srv
          /\ sm' = sm \/ sm' = [sm EXCEPT !.stuck = TRUE]
      BY <2>1 DEF Construct
    <3> QED
      BY <3>1 DEF FlagsOK, Flags, Backend
  <2> QED
    BY <1>1, <1>5, <1>8, <2>1 DEF Destruct, PopException
<1>9. ASSUME NEW t \in Threads,
             \/ DeactivateRemove(t) \/ CreateRemove(t) \/ RemoveLast(t)
      PROVE  FlagsOK'
  BY <1>9, RemovalStep DEF DeactivateRemove, CreateRemove, RemoveLast
<1>10. CASE RunExit
  BY <1>1, <1>10, RemovalStep DEF RunExit
<1>11. CASE RunEnd
  BY <1>0, <1>11, FlagStepManager DEF RunEnd
<1>12. ASSUME NEW t \in Threads, Create(t) PROVE FlagsOK'
  <2>1. CASE srv' = srv
    BY <1>1, <1>12, <2>1 DEF Create
  <2>2. CASE srv' # srv
    <3>1. /\ srv' = [srv EXCEPT !.sub = TRUE, !.items = {}, !.pending = {}]
          /\ sm' = sm /\ be' = be
      BY <1>12, <2>2 DEF Create
    <3>2. srv' \in Server /\ srv'.pending \subseteq srv'.items
      BY <3>1 DEF FlagsOK, Server
    <3> QED
      BY <3>1, <3>2 DEF FlagsOK
  <2> QED
    BY <2>1, <2>2
<1>13. ASSUME NEW t \in Threads, AddItem(t) PROVE FlagsOK'
  BY <1>0, <1>1, <1>13, FlagStepServer DEF AddItem
<1>14. ASSUME NEW t \in Threads, DeleteItem(t) PROVE FlagsOK'
  <2>1. sm' = sm /\ be' = be
    BY <1>14 DEF DeleteItem
  <2>2. CASE srv' = srv
    BY <1>1, <2>1, <2>2
  <2>3. CASE srv' # srv
    <3>1. srv' = [srv EXCEPT !.items = @ \ {th[t].id}, !.pending = @ \ {th[t].id}]
      BY <1>14, <2>3 DEF DeleteItem
    <3>2. srv' \in Server /\ srv'.pending \subseteq srv'.items
      BY <3>1 DEF FlagsOK, Server
    <3> QED
      BY <2>1, <3>2 DEF FlagsOK
  <2> QED
    BY <2>2, <2>3
<1>15. ASSUME NEW t \in Threads, DataCallback(t) PROVE FlagsOK'
  <2>1. PICK id \in srv.pending : srv' = [srv EXCEPT !.pending = @ \ {id}]
    BY <1>15 DEF DataCallback
  <2>2. id \in MonIds /\ sm' = sm /\ be' = be
    BY <1>15, <2>1 DEF FlagsOK, Server, DataCallback
  <2> QED
    BY <1>0, <2>1, <2>2, FlagStepServer
<1>16. CASE Environment
  <2>1. sm' = sm /\ be' = be
    BY <1>16 DEF Environment, ValueChange, LoseLink, RestoreLink
  <2>2. CASE ValueChange
    <3>1. PICK id \in srv.items : srv' = [srv EXCEPT !.pending = @ \cup {id}]
      BY <2>2 DEF ValueChange
    <3>2. id \in MonIds
      BY <3>1 DEF FlagsOK, Server
    <3> QED
      BY <1>0, <2>1, <3>1, <3>2, FlagStepServer
  <2>3. CASE LoseLink \/ RestoreLink
    <3>1. srv' \in Server /\ srv'.pending \subseteq srv'.items
      <4>1. srv.losses + 1 \in Nat
        BY DEF FlagsOK, Server
      <4> QED
        BY <2>3, <4>1 DEF LoseLink, RestoreLink, FlagsOK, Server
    <3> QED
      BY <2>1, <3>1 DEF FlagsOK
  <2> QED
    BY <1>16, <2>2, <2>3 DEF Environment
<1>17. ASSUME NEW t \in Threads, Deactivate(t) \/ Callback(t) PROVE FlagsOK'
  BY <1>1, <1>2, <1>3, <1>9, <1>15, <1>17
     DEF Deactivate, Callback, DeactivateException, DeactivateMapped,
         DeactivateLock, StateCallback, SessionReused, InactivityCallback,
         DataPush, controlVars
<1>18. ASSUME NEW t \in Threads, AppBegin(t) PROVE FlagsOK'
  BY <1>1, <1>7, <1>8, <1>18 DEF AppBegin, Transfer
<1>8a. ASSUME NEW t \in Threads, NEW n \in Nodes, HandleError(t, n) PROVE FlagsOK'
  BY <1>1, <1>8a DEF HandleError
<1>20. ASSUME NEW t \in Threads,
              \/ AcquireClientLock(t) \/ Spawn(t) \/ ResetClient(t) \/ ResetItems(t)
              \/ Connect(t) \/ CreateSubscription(t) \/ CreateFailed(t)
              \/ ActivateAll(t) \/ AddNext(t) \/ Added(t) \/ AddFailed(t)
              \/ Subscribed(t) \/ Unsubscribed(t) \/ TransferDone(t)
       PROVE  FlagsOK'
  BY <1>1, <1>20
     DEF AcquireClientLock, Spawn, ResetClient, ResetItems, Connect,
         CreateSubscription, CreateFailed, ActivateAll, AddNext, Added, AddFailed,
         Subscribed, Unsubscribed, TransferDone
<1>21. ASSUME NEW t \in Threads, AppStep(t) PROVE FlagsOK'
  BY <1>2, <1>4, <1>6, <1>7, <1>9, <1>12, <1>13, <1>14, <1>8a, <1>20, <1>21
     DEF AppStep
<1>22. CASE ClientStep
  <2>1. Client \in Threads
    BY DEF Threads
  <2> QED
    BY <1>1, <1>10, <1>11, <1>20, <1>22, <2>1 DEF ClientStep, RunLoop, RunIterate
<1>23. CASE \E a \in Accessors : PopValue(a)
  BY <1>1, <1>23 DEF PopValue, controlVars
<1>24. CASE UNCHANGED vars
  BY <1>1, <1>24 DEF vars, controlVars
<1> QED
  BY <1>16, <1>17, <1>18, <1>21, <1>22, <1>23, <1>24 DEF Next, Threads

-----------------------------------------------------------------------------
(* Every step is a critical section of MonitoredItems or leaves the data   *)
(* alone.                                                                  *)

(* Only nodes in the list are activated.                                   *)
LEMMA ActivateNodes ==
  ASSUME NEW S, ActivateItems(S)
  PROVE  \E T \in SUBSET Nodes : ActivateItems(T)
<1>1. ActivateItems(S \cap Nodes)
  BY DEF ActivateItems
<1> QED
  BY <1>1

(* Every step is one of ItemsNext or leaves the items alone.               *)
LEMMA ItemsStep ==
  ASSUME ItemsTypeOK, ThreadsOK, FlagsOK, [Next]_vars
  PROVE  [ItemsNext]_itemVars
<1>0. Threads = Handlers
  BY ManagerAssumption
<1>1. ASSUME NEW t \in Threads,
             \/ AcquireClientLock(t) \/ Join(t) \/ Start(t)
             \/ ResetClient(t) \/ Disconnect(t)
             \/ AfterDisconnect(t) \/ Connect(t) \/ FinishOpen(t)
             \/ CreateSubscription(t) \/ Create(t) \/ Created(t)
             \/ ActivateAsync(t) \/ AddItem(t) \/ Subscribed(t)
             \/ Unsubscribed(t) \/ DeleteItem(t) \/ StopLast(t)
             \/ TransferDone(t)
      PROVE  UNCHANGED itemVars
  BY <1>1
     DEF AcquireClientLock, Join, Start, ResetClient, Disconnect,
         AfterDisconnect, Connect, FinishOpen, CreateSubscription, Create,
         Created, ActivateAsync, AddItem, Subscribed, Unsubscribed, DeleteItem,
         StopLast, TransferDone
<1>2. ASSUME NEW t \in Threads, ResetItems(t) \/ CreateRemove(t) \/ RemoveLast(t)
      PROVE  ItemsNext
  BY <1>2 DEF ResetItems, CreateRemove, RemoveLast, RemoveSubscription, At,
              ItemsNext
<1>3. ASSUME NEW t \in Threads, CreateFailed(t) PROVE [ItemsNext]_itemVars
  <2>1. /\ ~crashed /\ OpFits("createFailed", th[t].op)
        /\ th[t].new \in SUBSET Accessors
    BY <1>3, OpAt DEF CreateFailed, At, Thread
  <2>2. th[t].op \in {"open", "activate", "construct"}
    BY <2>1 DEF OpFits
  <2> QED
    BY <1>3, <2>1, <2>2 DEF CreateFailed, ItemsNext
<1>4. ASSUME NEW t \in Threads, ActivateAll(t) PROVE ItemsNext
  <2>1. ~crashed /\ ActivateItems(ToSet(items))
    BY <1>4 DEF ActivateAll, At
  <2> QED
    BY <2>1, ActivateNodes DEF ItemsNext
<1>5. ASSUME NEW t \in Threads, AddNext(t) PROVE [ItemsNext]_itemVars
  <2>1. ~crashed
    BY <1>5 DEF AddNext, At
  <2>2. UNCHANGED itemVars \/ \E S : ActivateItems(S)
    BY <1>5 DEF AddNext
  <2> QED
    BY <2>1, <2>2, ActivateNodes DEF ItemsNext
<1>6. ASSUME NEW t \in Threads, Added(t) PROVE ItemsNext
  <2>1. /\ ~crashed /\ th[t].id \in MonIds
        /\ MonitorItem(items[th[t].idx], th[t].id)
    BY <1>6 DEF Added, At, ThreadsOK, Fits
  <2>2. items[th[t].idx] \in Nodes
    BY <2>1, ToSetProperties DEF MonitorItem, Listed, ItemsTypeOK
  <2> QED
    BY <2>1, <2>2 DEF ItemsNext
<1>7. ASSUME NEW t \in Threads, AddFailed(t) PROVE ItemsNext
  BY <1>7 DEF AddFailed, At, ItemsNext
<1>8. ASSUME NEW t \in Threads, NEW n \in Nodes, HandleError(t, n)
      PROVE  [ItemsNext]_itemVars
  BY <1>8 DEF HandleError, At, ItemsNext
<1>8a. ASSUME NEW t \in Threads, Spawn(t) \/ Assign(t)
       PROVE  [ItemsNext]_itemVars
  BY <1>8a DEF Spawn, Assign, At, ItemsNext
<1>9. ASSUME NEW t \in Threads, AppStep(t) PROVE [ItemsNext]_itemVars
  BY <1>1, <1>2, <1>3, <1>4, <1>5, <1>6, <1>7, <1>8, <1>9, <1>8a DEF AppStep
<1>10. ASSUME NEW t \in Threads, Open(t) \/ Close(t) \/ Activate(t) \/ Transfer(t)
       PROVE  UNCHANGED itemVars
  BY <1>10 DEF Open, Close, Activate, Transfer
<1>11. ASSUME NEW t \in Threads, NEW a \in Accessors,
              Construct(t, a) \/ Destruct(t, a) \/ PopException(t, a)
       PROVE  ItemsNext
  BY <1>11 DEF Construct, Destruct, PopException, At, ItemsNext
<1>12. ASSUME NEW t \in Threads, AppBegin(t) PROVE [ItemsNext]_itemVars
  BY <1>10, <1>11, <1>12 DEF AppBegin
<1>13. CASE ClientStep
  <2>1. CASE RunExit
    BY <2>1 DEF RunExit, RemoveSubscription, At, ItemsNext
  <2>2. CASE AcquireClientLock(Client)
    BY <1>1, <2>2 DEF Threads
  <2> QED
    BY <1>13, <2>1, <2>2 DEF ClientStep, RunLoop, RunIterate, RunEnd
<1>14. ASSUME NEW t \in Threads, Deactivate(t) PROVE [ItemsNext]_itemVars
  <2>1. CASE \/ DeactivateException(t) \/ DeactivateMapped(t)
             \/ DeactivateRemove(t)
    BY <2>1 DEF DeactivateException, DeactivateMapped, DeactivateRemove,
                RemoveSubscription, Deact, ItemsNext
  <2> QED
    BY <1>14, <2>1 DEF Deactivate, DeactivateRun, DeactivateSubscription,
                       DeactivateLock, DeactivateAsync
<1>15. ASSUME NEW t \in Threads, Callback(t) PROVE [ItemsNext]_itemVars
  <2>1. CASE DataCallback(t)
    <3>1. PICK id \in srv.pending :
            CheckActive(t, id) \/ (~IsActive(id) /\ UNCHANGED itemVars)
      BY <2>1 DEF DataCallback
    <3>2. id \in MonIds /\ ~crashed
      BY <2>1 DEF FlagsOK, Server, DataCallback, InCall, At
    <3> QED
      BY <1>0, <3>1, <3>2 DEF ItemsNext
  <2>2. CASE DataPush(t)
    BY <1>0, <2>2 DEF DataPush, ItemsNext
  <2> QED
    BY <1>15, <2>1, <2>2
       DEF Callback, StateCallback, SessionReused, InactivityCallback
<1>16. CASE \E a \in Accessors : PopValue(a)
  BY <1>16 DEF PopValue, ItemsNext
<1>17. CASE Environment
  BY <1>17 DEF Environment, ValueChange, LoseLink, RestoreLink
<1>18. CASE UNCHANGED vars
  BY <1>18 DEF vars
<1> QED
  BY <1>9, <1>12, <1>13, <1>14, <1>15, <1>16, <1>17, <1>18 DEF Next, Threads

(* The control state of Init.                                              *)
LEMMA ControlInit ==
  ASSUME Init
  PROVE  ThreadsOK /\ FlagsOK
<1>1. Idle \in Thread /\ Fits(Idle) /\ ~HasLock(Idle)
  BY LabelsAre, LabelFacts DEF Idle, Thread, Fits, OpFits, HasLock, Operations
<1>2. th \in [Threads -> Thread] /\ \A t \in Threads : th[t] = Idle
  BY <1>1 DEF Init
<1>3. ThreadsOK
  BY <1>1, <1>2, ManagerAssumption DEF Init, ThreadsOK, Connection
<1>4. FlagsOK
  BY DEF Init, FlagsOK, Flags, Backend, Server
<1> QED
  BY <1>3, <1>4

(* The inductive invariant of the control flow.                            *)
ControlInv == ItemsTypeOK /\ ItemsInUse /\ ThreadsOK /\ FlagsOK

(* The threads, the lock, the flags and the items fit together at every    *)
(* point of every operation.                                               *)
THEOREM ControlInvariant == Spec => []ControlInv
<1>1. Init => ControlInv
  BY ControlInit, TypeInit, InUseInit DEF Init, ControlInv
<1>2. ControlInv /\ [Next]_vars => ControlInv'
  BY ItemsStep, TypeStep, InUseStep, ThreadsStep, FlagsStep DEF ControlInv
<1> QED
  BY <1>1, <1>2, PTL DEF Spec

(* client_lock is held by a thread exactly while it is in a section of it, *)
(* by any number of threads, on every path out of every section.           *)
THEOREM LockAlwaysHeld == Spec => []LockHeldInSection
<1>1. ControlInv => LockHeldInSection
  BY DEF ControlInv, ThreadsOK, LockHeldInSection, Holds, HasLock
<1> QED
  BY <1>1, ControlInvariant, PTL

(* Whatever the threads of the manager do, an accessor gets no second      *)
(* exception before a value, and draining its queue leads to what was      *)
(* pushed last: the losses callbacks report, failed additions, transfers,  *)
(* resets and notifications are all made of the critical sections          *)
(* MonitoredItems describes.                                               *)
THEOREM QueuesAlwaysTruthful == Spec => [](NoRepeatedException /\ NewestKept)
<1>1. Init => ItemsInit
  BY DEF Init
<1>2. ControlInv /\ [Next]_vars => [ItemsNext]_itemVars
  BY ItemsStep DEF ControlInv
<1>3. Spec => ItemsSpec
  BY <1>1, <1>2, ControlInvariant, PTL DEF Spec, ItemsSpec
<1> QED
  BY <1>3, ExceptionOnce, NewestReaches, PTL

==============================================================================
