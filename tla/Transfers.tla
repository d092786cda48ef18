------------------------------ MODULE Transfers ------------------------------
(***************************************************************************)
(* Transfers of accessors of one array of the server.  Each accessor is    *)
(* used by a thread of its own and covers a part of the array.  A server   *)
(* can only write whole arrays, so a write reads the array first, gives    *)
(* client_lock up, replaces its own words and writes the whole back.       *)
(*                                                                         *)
(* Data that were read are stamped with the client's clock, data that were *)
(* sent to a subscription with the server's.  VersionMapper puts both on   *)
(* one time line: its Send is the tick of a common clock.                  *)
(***************************************************************************)
EXTENDS VersionMapper

CONSTANTS
  Subscribed,   \* the accessors with wait_for_new_data
  ArrayLength,  \* info->arrayLength, the length the server has as well
  SizeLimit,    \* 2^w for the w bits of a size_t
  MaxWords,     \* the most words a buffer of an accessor can be resized to
  Elements,     \* contents of an element
  NoData        \* an accessor that holds no value yet

ASSUME TransfersAssumption ==
  /\ Subscribed \subseteq Readers
  /\ ArrayLength \in Nat \ {0} /\ MaxWords \in Nat /\ SizeLimit \in Nat
  /\ ArrayLength <= MaxWords /\ MaxWords < SizeLimit
  /\ NoData \notin [0..(ArrayLength - 1) -> Elements]

VARIABLES
  part,       \* offsetWords and numberOfWords of each accessor
  array,      \* the array of the server
  data,       \* the array in OpcUABackendRegisterAccessorBase::data
  time,       \* its source time stamp
  pc,         \* where the thread of each accessor is
  connected,  \* no transfer has failed since the last open
  outside,    \* a transfer has used an element that data does not have
  untouched   \* history: the array is as it was when the write began

transferVars == <<part, array, data, time, pc, connected, outside, untouched>>

Indices == 0..(ArrayLength - 1)

Arrays == [Indices -> Elements]

(* Mutation of Accepted: an offset may come without a number of words.     *)
AcceptedZero(n, offset) == (n + offset) % SizeLimit <= ArrayLength

(* getRegisterAccessor_impl refuses what exceeds the array, as far as a    *)
(* sum of two size_t shows it.                                             *)
Accepted(n, offset) ==
  (n + offset) % SizeLimit <= ArrayLength /\ (n = 0 => offset = 0)

(* What may be asked for; no number of words asks for all.                 *)
Parts ==
  {[offset |-> r[2], words |-> IF r[1] = 0 THEN ArrayLength ELSE r[1]] :
     r \in {q \in (0..MaxWords) \X (0..(SizeLimit - 1)) : Accepted(q[1], q[2])}}

(* The elements of a part; the index offsetWords + i wraps as well.        *)
ElementsOf(p) == {(p.offset + i) % SizeLimit : i \in 0..(p.words - 1)}

Own(a) == ElementsOf(part[a])

Inside(a) == Own(a) \subseteq Indices

IsPartial(a) == part[a].words # ArrayLength

-----------------------------------------------------------------------------
TransfersInit ==
  /\ VersionsInit
  /\ part \in [Readers -> Parts]
  /\ array \in Arrays
  /\ data = [a \in Readers |-> NoData]
  /\ time = [a \in Readers |-> 0]
  /\ pc = [a \in Readers |-> "idle"]
  /\ connected = TRUE
  /\ outside = FALSE
  /\ untouched = [a \in Readers |-> FALSE]

(* A whole array comes from the server, stamped now.                       *)
CopyVariant(a) ==
  /\ data' = [data EXCEPT ![a] = array]
  /\ time' = [time EXCEPT ![a] = sent]

(* doReadTransferSynchronously as a read of the application.  The clock    *)
(* ticks between two reads of an accessor.                                 *)
Read(a) ==
  /\ a \notin Subscribed /\ pc[a] = "idle" /\ connected /\ stamp[a] < sent
  /\ CopyVariant(a)
  /\ pc' = [pc EXCEPT ![a] = "read"]
  /\ UNCHANGED <<versionVars, part, array, connected, outside, untouched>>

(* doPostRead after it.                                                    *)
ReadDone(a) ==
  /\ pc[a] = "read" /\ Inside(a)
  /\ \E s \in Stamps : s = time[a] /\ PostRead(a, s)
  /\ pc' = [pc EXCEPT ![a] = "idle"]
  /\ UNCHANGED <<part, array, data, time, connected, outside, untouched>>

(* A notification with array d of time s is popped from the queue.         *)
Notified(a, d, s) ==
  /\ a \in Subscribed /\ pc[a] = "idle" /\ Inside(a)
  /\ PostRead(a, s)
  /\ data' = [data EXCEPT ![a] = d]
  /\ time' = [time EXCEPT ![a] = s]
  /\ UNCHANGED <<part, array, pc, connected, outside, untouched>>

(* Mutation of ReadsFirst: an accessor that has data is content with them. *)
ReadsOnce(a) == data[a] = NoData

ReadsFirst(a) == IsPartial(a) \/ data[a] = NoData

(* The read of the application, or the one in a write, fails: handleError  *)
(* closes the connection and throws.                                       *)
ReadFails(a) ==
  /\ pc[a] = "idle" /\ connected /\ (a \notin Subscribed \/ ReadsFirst(a))
  /\ connected' = FALSE
  /\ UNCHANGED <<versionVars, part, array, data, time, pc, outside, untouched>>

(* doWriteTransfer up to where it waits for client_lock.                   *)
BeginWrite(a) ==
  /\ pc[a] = "idle" /\ connected
  /\ IF ReadsFirst(a) THEN CopyVariant(a) ELSE UNCHANGED <<data, time>>
  /\ pc' = [pc EXCEPT ![a] = "write"]
  /\ untouched' = [untouched EXCEPT ![a] = TRUE]
  /\ UNCHANGED <<versionVars, part, array, connected, outside>>

(* The array to be written, with the words w of the accessor in it.        *)
Modified(a, w) == [i \in Indices |-> IF i \in Own(a) THEN w[i] ELSE data[a][i]]

(* The words are in `data` whether the server takes the array or not.      *)
Modify(a, w) ==
  /\ pc[a] = "write" /\ Inside(a)
  /\ data' = [data EXCEPT ![a] = Modified(a, w)]
  /\ pc' = [pc EXCEPT ![a] = "idle"]
  /\ UNCHANGED <<versionVars, part, time, outside>>

Write(a, w) ==
  /\ connected
  /\ Modify(a, w)
  /\ array' = Modified(a, w)
  /\ untouched' = [b \in Readers |-> untouched[b] /\ array' = array]
  /\ UNCHANGED connected

(* The server refuses or cannot be reached; only a node that is not        *)
(* writable leaves the connection open.                                    *)
WriteFails(a, w) ==
  /\ Modify(a, w)
  /\ connected' \in {FALSE, connected}
  /\ UNCHANGED <<array, untouched>>

(* The loops of doPostRead and doWriteTransfer use data without a check.   *)
(* An element that is not there is undefined behaviour, after which no     *)
(* more is said of the process.                                            *)
LeaveArray(a) ==
  /\ ~Inside(a)
  /\ \/ pc[a] \in {"read", "write"}
     \/ a \in Subscribed /\ pc[a] = "idle" /\ stamp[a] < sent
  /\ outside' = TRUE
  /\ UNCHANGED <<versionVars, part, array, data, time, pc, connected, untouched>>

(* Another client writes the array.                                        *)
OtherClient(d) ==
  /\ array' = d
  /\ untouched' = [b \in Readers |-> untouched[b] /\ d = array]
  /\ UNCHANGED <<versionVars, part, data, time, pc, connected, outside>>

(* open, after an error.                                                   *)
Reopen ==
  /\ ~connected
  /\ connected' = TRUE
  /\ UNCHANGED <<versionVars, part, array, data, time, pc, outside, untouched>>

TransfersNext ==
  /\ ~outside
  /\ \/ Send /\ UNCHANGED transferVars
     \/ \E a \in Readers : \/ Read(a) \/ ReadDone(a) \/ ReadFails(a)
                           \/ BeginWrite(a) \/ LeaveArray(a)
     \/ \E a \in Readers, d \in Arrays, s \in Stamps : Notified(a, d, s)
     \/ \E a \in Readers : \E w \in [Own(a) -> Elements] :
          Write(a, w) \/ WriteFails(a, w)
     \/ \E d \in Arrays : OtherClient(d)
     \/ Reopen

TransfersSpec ==
  TransfersInit /\ [][TransfersNext]_<<versionVars, transferVars>>

-----------------------------------------------------------------------------
(* A sum of words and offset that wraps                                    *)
Wraps(a) == part[a].offset + part[a].words >= SizeLimit

(* is all that getRegisterAccessor_impl misses: every other accessor has   *)
(* its words inside the array, so doPostRead and doWriteTransfer stay      *)
(* inside data, which is a whole array whenever a transfer uses it.        *)
TransfersTypeOK ==
  /\ part \in [Readers -> [offset : 0..(SizeLimit - 1), words : 1..MaxWords]]
  /\ \A a \in Readers : Inside(a) \/ Wraps(a)
  /\ outside \in BOOLEAN /\ (outside => \E a \in Readers : Wraps(a))
  /\ array \in Arrays
  /\ data \in [Readers -> Arrays \cup {NoData}]
  /\ \A a \in Readers : pc[a] # "idle" => data[a] # NoData
  /\ time \in [Readers -> 0..sent]
  /\ pc \in [Readers -> {"idle", "read", "write"}]
  /\ connected \in BOOLEAN
  /\ untouched \in [Readers -> BOOLEAN]

(* A write changes elements outside the accessor's part only if the array  *)
(* has changed since doWriteTransfer began: between its read and its write *)
(* client_lock is free, and what others write then is lost.  Without that  *)
(* the other parts survive, also after earlier writes that failed and      *)
(* whatever data the accessor holds, as long as its words are inside the   *)
(* array.                                                                  *)
OthersKept ==
  [][\A a \in Readers :
       Inside(a) /\ pc[a] = "write" /\ pc'[a] = "idle" /\ untouched[a]
         => \A i \in Indices \ Own(a) : array'[i] = array[i]
    ]_<<versionVars, transferVars>>
=============================================================================
