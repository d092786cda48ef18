---------------------------- MODULE ManagedValues ----------------------------
(***************************************************************************)
(* Who owns the memory of open62541 that a notification carries.  Every    *)
(* accessor of MonitoredItems has ManagedDataValues: one in each element   *)
(* of its queue and its member `data`; all others are local to one call.   *)
(* A ManagedDataValue is a pointer to a block and two flags; only those    *)
(* decide whether its destructor frees the block.  The actions are those   *)
(* of MonitoredItems, each with the constructors, assignments and          *)
(* destructors it runs.                                                    *)
(*                                                                         *)
(* Of future_queue, which is external, three things are used: an element   *)
(* is constructed from the rvalue pushed; it is destroyed when it has been *)
(* popped or overwritten, or with the queue; the continuation gets a       *)
(* reference to the element it pops.                                       *)
(***************************************************************************)
EXTENDS MonitoredItems

CONSTANTS
  Blocks,  \* addresses of blocks, for every accessor
  Null     \* no address

ASSUME BlocksAssumption == Null \notin Blocks

VARIABLES
  element,  \* the ManagedDataValues in each accessor's queue
  member,   \* OpcUABackendRegisterAccessorBase::data
  memory    \* the blocks allocated for each accessor's values, and whether
            \* one was freed twice or used after it was freed

ownVars == <<element, member, memory>>
valueVars == <<itemVars, ownVars>>

Managed == [block : Blocks \cup {Null}, hasValue : BOOLEAN, clear : BOOLEAN]

Empty == [block |-> Null, hasValue |-> FALSE, clear |-> FALSE]

-----------------------------------------------------------------------------
(* UA_DataValue_clear.                                                     *)
Cleared(m, b) ==
  [live |-> m.live \ {b}, wrong |-> m.wrong \/ b \notin m.live]

(* The constructor from a UA_DataValue and the copy constructor: a deep    *)
(* copy that its destructor will not clear.                                *)
CopiedTo(b) == [block |-> b, hasValue |-> TRUE, clear |-> FALSE]

(* The move constructor; its argument is const and keeps its flag.         *)
MoveConstructed(v) == [v EXCEPT !.clear = v.hasValue]

(* operator=: the target takes the pointer, and the flag if there is a     *)
(* value.                                                                  *)
Assigned(v, other) == [other EXCEPT !.clear = other.hasValue \/ v.clear]

(* Mutation of MovedFrom: the source of an assignment keeps its flag.      *)
MovedFromOwner(v) == v

(* The source of an assignment gives the flag up and keeps the pointer.    *)
MovedFrom(v) == [v EXCEPT !.clear = FALSE]

(* Mutation of Prepared: an assignment forgets the value it replaces.      *)
PreparedNothing(m, v) == m

(* prepare: what a target of an assignment held is cleared, with or        *)
(* without the flag.                                                       *)
Prepared(m, v) == IF v.hasValue THEN Cleared(m, v.block) ELSE m

(* The destructor.                                                         *)
Destroyed(m, v) == IF v.hasValue /\ v.clear THEN Cleared(m, v.block) ELSE m

(* The destructors of a sequence of values, in any order.                  *)
AllDestroyed(m, s) ==
  LET D == {i \in DOMAIN s : s[i].hasValue /\ s[i].clear}
  IN  [live |-> m.live \ {s[i].block : i \in D},
       wrong |-> \/ m.wrong
                 \/ \E i \in D : \/ s[i].block \notin m.live
                                 \/ \E j \in D \ {i} : s[j].block = s[i].block]

-----------------------------------------------------------------------------
NewBlock(a) == CHOOSE b \in Blocks : b \notin memory[a].live

Room(a) == Blocks \ memory[a].live # {}

Allocated(a) == [memory[a] EXCEPT !.live = @ \cup {NewBlock(a)}]

(* What push_overwrite replaces: the newest element of a full queue.       *)
Overwritten(a) == IF Len(queue[a]) < QueueLen THEN Empty ELSE Last(element[a])

(* push_overwrite of a local value that was copied into a new block, and   *)
(* the end of the local value.                                             *)
PushedMemory(a) ==
  Destroyed(Destroyed(Allocated(a), Overwritten(a)), CopiedTo(NewBlock(a)))

PushedElement(a) ==
  PushOverwrite(element[a], MoveConstructed(CopiedTo(NewBlock(a))))

(* Values for the accessors in S.                                          *)
PushValues(S) ==
  /\ \A a \in S : Room(a)
  /\ element' = [a \in Accessors |->
                   IF a \in S THEN PushedElement(a) ELSE element[a]]
  /\ memory' = [a \in Accessors |->
                  IF a \in S THEN PushedMemory(a) ELSE memory[a]]
  /\ UNCHANGED member

(* push_overwrite_exception: an element without a value.                   *)
PushExceptions(S) ==
  /\ element' = [a \in Accessors |->
                   IF a \in S THEN PushOverwrite(element[a], Empty)
                   ELSE element[a]]
  /\ memory' = [a \in Accessors |->
                  IF a \in S THEN Destroyed(memory[a], Overwritten(a))
                  ELSE memory[a]]
  /\ UNCHANGED member

LiveIn(S) == {a \in S : obj[a] = "live"}

(* The accessors responseHandler pushes to.                                *)
Receivers(h) ==
  IF LiveSlot(handling[h]) THEN LiveIn(Users(ItemAt(handling[h]))) ELSE {}

-----------------------------------------------------------------------------
ValuesInit ==
  /\ ItemsInit
  /\ element = [a \in Accessors |-> <<>>]
  /\ member = [a \in Accessors |-> Empty]
  /\ memory = [a \in Accessors |-> [live |-> {}, wrong |-> FALSE]]

(* The value a new accessor's first one is copied from.                    *)
Source(tmp) == IF element[tmp] = <<>> THEN member[tmp] ELSE Head(element[tmp])

Readable(tmp) ==
  obj[tmp] = "live" /\ Source(tmp).block \in memory[tmp].live

(* subscribe for a node with an item, which may copy an initial value.     *)
SubscribeAndCopy(a) ==
  LET n == NodeOf[a]
      tmp == Last(item[n].accessors)
  IN  /\ SubscribeShared(a)
      /\ IF item[n].active /\ InitialValue(tmp) \in Values
         THEN /\ Room(a)
              /\ element' = [element EXCEPT ![a] = PushedElement(a)]
              /\ memory' = [memory EXCEPT
                   ![a] = [PushedMemory(a) EXCEPT !.wrong =
                             @ \/ ~Readable(tmp)]]
              /\ UNCHANGED member
         ELSE UNCHANGED ownVars

(* The end of an accessor, or of its base class when the constructor       *)
(* threw.                                                                  *)
EndValues(a) ==
  /\ memory' = [memory EXCEPT
                  ![a] = AllDestroyed(@, <<member[a]>> \o element[a])]
  /\ element' = [element EXCEPT ![a] = <<>>]
  /\ member' = [member EXCEPT ![a] = Empty]

(* The continuation assigns a value to the member; an exception leaves the *)
(* member.  Then the element goes.                                         *)
PopMemory(a) ==
  LET e == Head(element[a])
  IN  IF Head(queue[a]) = Exception
      THEN /\ memory' = [memory EXCEPT ![a] = Destroyed(@, e)]
           /\ UNCHANGED member
      ELSE /\ memory' = [memory EXCEPT
                ![a] = Destroyed(Prepared(@, member[a]), MovedFrom(e))]
           /\ member' = [member EXCEPT ![a] = Assigned(@, e)]

PopAndMove(a) ==
  /\ Pop(a)
  /\ PopMemory(a)
  /\ element' = [element EXCEPT ![a] = Tail(@)]

(* The actions that touch no value; a constructor that throws in subscribe *)
(* ends with an empty queue and an empty member.                           *)
Bookkeeping ==
  \/ \E a \in Accessors : SubscribeNew(a) \/ SubscribeThrow(a)
  \/ \E n \in Nodes, id \in MonIds : MonitorItem(n, id)
  \/ \E S \in SUBSET Nodes : ActivateItems(S)
  \/ DeactivateItems
  \/ ResetMonitoredItems
  \/ Terminate
  \/ \E n \in Nodes : SetExternalError(n)
  \/ \E h \in Handlers, id \in MonIds : CheckActive(h, id)
  \/ \E h \in Handlers : NullItem(h)

ValuesNext ==
  /\ ~crashed
  /\ \/ Bookkeeping /\ UNCHANGED ownVars
     \/ \E a \in Accessors : SubscribeAndCopy(a)
     \/ \E a \in Accessors : UnsubscribeShared(a) /\ EndValues(a)
     \/ \E a \in Accessors : UnsubscribeLast(a) /\ EndValues(a)
     \/ \E a \in Accessors : Abandon(a) /\ EndValues(a)
     \/ \E a \in Accessors : PopAndMove(a)
     \/ /\ HandleException
        /\ PushExceptions(LiveIn(UNION {Users(n) : n \in Failing}))
     \/ \E h \in Handlers, v \in Values :
          PushValue(h, v) /\ PushValues(Receivers(h))

ValuesSpec == ValuesInit /\ [][ValuesNext]_valueVars

-----------------------------------------------------------------------------
(* The ManagedDataValues of an accessor: its member is at place 0, its     *)
(* queue at the others.                                                    *)
Places(a) == {0} \cup DOMAIN element[a]

ValueAt(a, p) == IF p = 0 THEN member[a] ELSE element[a][p]

(* No block is freed twice or read after it was freed, along every path a  *)
(* notification can take from responseHandler over queues, overflows,      *)
(* readers and later accessors.  A constructor that throws after subscribe *)
(* has listed it is the one exception: its queue is read after its end.    *)
MemorySafe ==
  (\A a \in Accessors : obj[a] # "dangling")
    => \A a \in Accessors : ~memory[a].wrong

(* Every block in use will be freed: it belongs to a value whose           *)
(* destructor clears it.  An accessor that is gone leaves no block.        *)
NothingLeaked ==
  \A a \in Accessors, b \in Blocks :
    b \in memory[a].live =>
      \E p \in Places(a) : /\ ValueAt(a, p).block = b
                           /\ ValueAt(a, p).hasValue /\ ValueAt(a, p).clear

(* What a reader can get is backed by memory: each value in a queue and in *)
(* a member has a block that is allocated and that no other value of the   *)
(* accessor has, and only an exception has none.                           *)
ValuesBacked ==
  \A a \in Accessors :
    obj[a] = "live" =>
      /\ \A i \in DOMAIN queue[a] :
           queue[a][i] \in Values <=> element[a][i].hasValue
      /\ data[a] \in Values <=> member[a].hasValue
      /\ \A p \in Places(a) : ValueAt(a, p).hasValue =>
           /\ ValueAt(a, p).block \in memory[a].live
           /\ \A q \in Places(a) \ {p} : ValueAt(a, q).hasValue =>
                ValueAt(a, q).block # ValueAt(a, p).block
=============================================================================
