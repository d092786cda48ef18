------------------------ MODULE CatalogueStartProofs ------------------------
(***************************************************************************)
(* For any processes, server and map files: the cache file is whole unless *)
(* a write has failed, by the temporary files being whole when renamed     *)
(* (WholeInv); a catalogue holds only what the server says, by what the    *)
(* processes ask for and the files hold (FaithInv); and all of it, by what *)
(* is still ahead of a process (FullInv).                                  *)
(***************************************************************************)
EXTENDS CatalogueStart, SequenceTheorems, TLAPS

WholeInv == TmpWhole /\ CacheWhole

(* Steps of the constructor before the cache file is saved write no file,  *)
(* and none of them leads to the rename.                                   *)
Reading(p) == \/ Start(p) \/ ReadCatalogue(p) \/ Connect(p)
              \/ FillCatalogue(p) \/ Browse(p) \/ PassOver(p)
              \/ ReadDataType(p) \/ ReadDescription(p) \/ ReadValue(p)
              \/ ReadAccessLevel(p) \/ Filled(p)

(* What a step that writes no file does to the files and the places: it    *)
(* moves at most its own process, and not to the rename                    *)
(* (the constructor up to saveCatalogue).                                  *)
Quiet(p) == /\ UNCHANGED <<cache, tmp, faulty>>
            /\ \E s \in {"read", "connect", "fill", "next", "description",
                         "value", "access", "open", "ready", "failed",
                         "died"} : pc' = [pc EXCEPT ![p] = s]

(* Leaving out a node or an exception of addRegister goes on with the next *)
(* node or fails (addCatalogueEntry, addProperty).                         *)
LEMMA AddMoves ==
  ASSUME NEW p \in Processes, NEW e, AddProperty(p, e)
  PROVE  \E s \in {"next", "failed"} : pc' = [pc EXCEPT ![p] = s]
<1>1. CASE Skip(p)
  BY <1>1 DEF Skip, Goto
<1>2. CASE Throw(p)
  BY <1>2 DEF Throw, Goto
<1> QED
  BY <1>1, <1>2 DEF AddProperty

(* Every step before saveCatalogue is quiet.                               *)
LEMMA ReadingQuiet ==
  ASSUME pc = [q \in Processes |-> pc[q]], NEW p \in Processes, Reading(p)
  PROVE  Quiet(p)
<1>1. CASE Start(p)
  BY <1>1 DEF Start, Goto, Files, Quiet
<1>2. CASE ReadCatalogue(p)
  BY <1>2 DEF ReadCatalogue, Goto, Files, Quiet
<1>3. CASE Connect(p)
  BY <1>3 DEF Connect, Goto, Files, Quiet
<1>4. CASE FillCatalogue(p)
  BY <1>4 DEF FillCatalogue, Goto, Files, Quiet
<1>5. CASE Browse(p) \/ PassOver(p)
  <2>1. pc[p] = "next" /\ pc' = pc /\ UNCHANGED <<cache, tmp, faulty>>
    BY <1>5 DEF Browse, AtObject, PassOver, AtNumeric, Files
  <2>2. pc' = [pc EXCEPT ![p] = "next"]
    BY <2>1
  <2> QED
    BY <2>1, <2>2 DEF Quiet
<1>6. CASE ReadDataType(p)
  BY <1>6 DEF ReadDataType, LeaveOut, Skip, Goto, Files, Quiet
<1>7. CASE ReadDescription(p)
  BY <1>7 DEF ReadDescription, Goto, Files, Quiet
<1>8. CASE ReadValue(p)
  BY <1>8 DEF ReadValue, LeaveOut, Skip, Goto, Files, Quiet
<1>9. CASE ReadAccessLevel(p)
  <2>1. CASE AddCurrent(p, Attr[Current(p).node].writable)
    BY <1>9, <2>1, AddMoves DEF ReadAccessLevel, AddCurrent, Files, Quiet
  <2>2. CASE LeaveOut(p)
    BY <1>9, <2>2 DEF ReadAccessLevel, LeaveOut, Skip, Goto, Files, Quiet
  <2> QED
    BY <1>9, <2>1, <2>2 DEF ReadAccessLevel
<1>10. CASE Filled(p)
  BY <1>10 DEF Filled, Goto, Files, Quiet
<1> QED
  BY <1>1, <1>2, <1>3, <1>4, <1>5, <1>6, <1>7, <1>8, <1>9, <1>10 DEF Reading

(* A quiet step keeps the temporary files whole where they are renamed.    *)
LEMMA QuietKeeps ==
  ASSUME WholeInv, NEW p \in Processes, Quiet(p)
  PROVE  WholeInv'
<1>1. PICK s : s # "rename" /\ pc' = [pc EXCEPT ![p] = s]
  BY DEF Quiet
<1>2. \A q \in Processes : pc'[q] = "rename" => pc[q] = "rename"
  BY <1>1 DEF WholeInv, TmpWhole
<1>3. pc' = [q \in Processes |-> pc'[q]]
  BY <1>1 DEF WholeInv, TmpWhole
<1> QED
  BY <1>2, <1>3 DEF Quiet, WholeInv, TmpWhole, CacheWhole

(* The three steps of saveCatalogue keep the invariant: a file is renamed  *)
(* only after it was written.                                              *)
LEMMA SaveKeeps ==
  ASSUME WholeInv, NEW p \in Processes,
         SaveOpen(p) \/ SaveWrite(p) \/ SaveRename(p)
  PROVE  WholeInv'
<1>0. /\ pc = [q \in Processes |-> pc[q]]
      /\ tmp = [q \in Processes |-> tmp[q]]
      /\ ~faulty => \A q \in Processes : pc[q] = "rename" =>
                                           tmp[q].kind = "whole"
      /\ ~faulty => cache.kind \in {"none", "whole"}
  BY DEF WholeInv, TmpWhole, CacheWhole
<1>1. CASE SaveOpen(p)
  <2>1. /\ pc' = [pc EXCEPT ![p] = "write"]
        /\ tmp' = [tmp EXCEPT ![p] = EmptyFile]
        /\ UNCHANGED <<cache, faulty>>
    BY <1>1 DEF SaveOpen, Goto
  <2> QED
    BY <1>0, <2>1 DEF WholeInv, TmpWhole, CacheWhole
<1>2. CASE SaveWrite(p)
  <2>1. pc' = [pc EXCEPT ![p] = "rename"] /\ UNCHANGED cache
    BY <1>2 DEF SaveWrite, Goto
  <2>2. CASE UNCHANGED faulty /\ \E xs : tmp' = [tmp EXCEPT ![p] = WholeFile(xs)]
    <3>1. PICK xs : tmp' = [tmp EXCEPT ![p] = WholeFile(xs)]
      BY <2>2
    <3>2. WholeFile(xs).kind = "whole"
      BY DEF WholeFile
    <3>3. ~faulty => \A q \in Processes : pc'[q] = "rename" =>
                                             tmp'[q].kind = "whole"
      BY <1>0, <2>1, <3>1, <3>2
    <3>4. /\ pc' = [q \in Processes |-> pc'[q]]
          /\ tmp' = [q \in Processes |-> tmp'[q]]
      BY <1>0, <2>1, <3>1
    <3> QED
      BY <1>0, <2>1, <2>2, <3>3, <3>4 DEF WholeInv, TmpWhole, CacheWhole
  <2>3. CASE faulty' = TRUE /\ \E f : tmp' = [tmp EXCEPT ![p] = f]
    BY <1>0, <2>1, <2>3 DEF WholeInv, TmpWhole, CacheWhole
  <2> QED
    BY <1>2, <2>2, <2>3 DEF SaveWrite
<1>3. CASE SaveRename(p)
  <2>1. CASE /\ UNCHANGED faulty /\ pc[p] = "rename"
             /\ cache' = tmp[p] /\ tmp' = [tmp EXCEPT ![p] = NoFile]
             /\ pc' = [pc EXCEPT ![p] = "ready"]
    BY <1>0, <2>1 DEF WholeInv, TmpWhole, CacheWhole
  <2>2. CASE /\ UNCHANGED <<cache, tmp>> /\ (UNCHANGED faulty \/ faulty' = TRUE)
             /\ pc' = [pc EXCEPT ![p] = "failed"]
    BY <1>0, <2>2 DEF WholeInv, TmpWhole, CacheWhole
  <2> QED
    BY <1>3, <2>1, <2>2 DEF SaveRename, Goto, Files
<1> QED
  BY <1>1, <1>2, <1>3

(* The start, a step of the constructor and the end of a process: the      *)
(* invariant is kept by all of them.                                       *)
LEMMA NextKeeps ==
  ASSUME WholeInv, [Next]_vars
  PROVE  WholeInv'
<1>1. ASSUME NEW p \in Processes, Start(p) \/ Step(p) PROVE WholeInv'
  <2>1. CASE Reading(p)
    BY <2>1, ReadingQuiet, QuietKeeps DEF WholeInv, TmpWhole
  <2>2. CASE SaveOpen(p) \/ SaveWrite(p) \/ SaveRename(p)
    BY <2>2, SaveKeeps
  <2> QED
    BY <1>1, <2>1, <2>2 DEF Step, Reading
<1>2. ASSUME NEW p \in Processes, Leave(p) PROVE WholeInv'
  <2>1. /\ pc' = [pc EXCEPT ![p] = "off"]
        /\ tmp' = [tmp EXCEPT ![p] = NoFile]
        /\ UNCHANGED <<cache, faulty>>
    BY <1>2 DEF Leave, Goto
  <2> QED
    BY <2>1 DEF WholeInv, TmpWhole, CacheWhole
<1>3. CASE UNCHANGED vars
  BY <1>3 DEF vars, WholeInv, TmpWhole, CacheWhole
<1> QED
  BY <1>1, <1>2, <1>3 DEF Next

(* Whatever processes crash wherever and save at the same time, the cache  *)
(* file is absent or whole unless a write has failed (saveCatalogue).      *)
THEOREM CacheAlwaysWhole == Spec => []CacheWhole
<1>1. Init => WholeInv
  BY DEF Init, WholeInv, TmpWhole, CacheWhole, NoFile
<1>2. WholeInv /\ [Next]_vars => WholeInv'
  BY NextKeeps
<1>3. WholeInv => CacheWhole
  BY DEF WholeInv
<1> QED
  BY <1>1, <1>2, <1>3, PTL DEF Spec

-----------------------------------------------------------------------------
(***************************************************************************)
(* What a catalogue holds.  FaithInv says what each process may have in    *)
(* its variables and what the files hold.                                  *)
(***************************************************************************)

(* The types of the variables: the functions are over the processes.       *)
VarTypes ==
  /\ mapFile \in MapFiles \cup {NoMap} /\ useCache \in BOOLEAN
  /\ pc \in [Processes -> {"off"} \cup Steps \cup Ended]
  /\ refused \in BOOLEAN /\ faulty \in BOOLEAN
  /\ todo \in [Processes -> Seq(Requests)]
  /\ seen \in [Processes -> [described : BOOLEAN, length : Nat]]
  /\ cat = [p \in Processes |-> cat[p]]
  /\ tmp = [p \in Processes |-> tmp[p]]

(* What a process may come to ask the server for.                          *)
Asked == IF mapFile.use THEN {mapFile.lines[i] : i \in DOMAIN mapFile.lines}
         ELSE {Request(n, NoName, NoRange) : n \in FromRoot}

AtReads == {"description", "value", "access"}

(* One process: what is in todo may be asked for, the current node is a    *)
(* wanted variable that passed the checks made so far, and every register  *)
(* is one of a usable variable.                                            *)
ReadsFit(p) ==
  /\ \A i \in 1 .. Len(todo[p]) : todo[p][i] \in Asked
  /\ pc[p] \in AtReads => /\ todo[p] # <<>> /\ Current(p) \in Wanted
                          /\ HasType(Current(p).node)
  /\ pc[p] = "access" => /\ HasLength(Current(p))
                         /\ seen[p].length = ArrayLength(Current(p))
  /\ cat[p] \subseteq AllRegisters

(* A file that is whole holds registers of usable variables.               *)
Saved == {AddRegInfoXmlNode(e) : e \in AllRegisters}
Holds(f) == f.kind = "whole" => f.registers \subseteq Saved

FilesFit ==
  /\ cache.kind \in {"none", "cut", "whole"} /\ Holds(cache)
  /\ \A p \in Processes : /\ tmp[p].kind \in {"none", "empty", "cut", "whole"}
                          /\ pc[p] = "rename" => tmp[p].kind # "none"
                          /\ Holds(tmp[p])

FaithInv == VarTypes /\ FilesFit /\ \A p \in Processes : ReadsFit(p)

-----------------------------------------------------------------------------
(* What can be reached from an object is closed, and is there from itself. *)
LEMMA ReachableClosed ==
  ASSUME NEW o, NEW p \in Reachable(o) \cap Objects, NEW i \in DOMAIN Refs[p]
  PROVE  Refs[p][i] \in Reachable(o)
<1>1. Refs[p][i] \in Nodes
  BY ServerAssumption, ElementOfSeq, LenProperties
<1>2. ASSUME NEW S \in SUBSET Nodes, ClosedFrom(S, o)
      PROVE  Refs[p][i] \in S
  BY <1>2 DEF ClosedFrom, Reachable
<1> QED
  BY <1>1, <1>2 DEF Reachable

(* A node is reached from itself.                                          *)
LEMMA ReachableSelf ==
  ASSUME NEW o \in Nodes
  PROVE  o \in Reachable(o)
BY DEF Reachable, ClosedFrom

(* What is reached from nodes of the server are nodes of the server.       *)
LEMMA ReachableNodes ==
  ASSUME NEW o
  PROVE  Reachable(o) \subseteq Nodes
BY DEF Reachable

(* What an object refers to are requests for nodes, in the same order.     *)
LEMMA ReferencesRequests ==
  ASSUME NEW o \in Objects
  PROVE  /\ References(o) \in Seq(Requests)
         /\ Len(References(o)) = Len(Refs[o])
         /\ \A i \in 1 .. Len(Refs[o]) :
              /\ Refs[o][i] \in Nodes
              /\ References(o)[i] = Request(Refs[o][i], NoName, NoRange)
<1>1. Refs[o] \in Seq(Nodes)
  BY ServerAssumption
<1>2. Len(Refs[o]) \in Nat /\ DOMAIN Refs[o] = 1 .. Len(Refs[o])
  BY <1>1, LenProperties
<1>3. \A i \in 1 .. Len(Refs[o]) : Refs[o][i] \in Nodes
  BY <1>1, ElementOfSeq
<1>4. NoName \in Seq(STRING)
  BY EmptySeq DEF NoName
<1>5. \A n \in Nodes : Request(n, NoName, NoRange) \in Requests
  BY <1>4 DEF Request, Requests, NoRange
<1>6. References(o) = [i \in 1 .. Len(Refs[o]) |->
                         Request(Refs[o][i], NoName, NoRange)]
  BY <1>2 DEF References
<1>7. References(o) \in [1 .. Len(Refs[o]) -> Requests]
  BY <1>3, <1>5, <1>6
<1>8. References(o) \in Seq(Requests)
  BY <1>2, <1>7, SeqDef
<1>9. Len(References(o)) = Len(Refs[o])
  BY <1>2, <1>7, <1>8, LenProperties
<1> QED
  BY <1>3, <1>6, <1>8, <1>9

(* What the server answers of the references of an object are requests,    *)
(* the first ones of the object.                                           *)
LEMMA AnsweredRequests ==
  ASSUME NEW p, Current(p).node \in Objects,
         NEW k \in 0 .. Len(Refs[Current(p).node])
  PROVE  /\ Answered(p, k) \in Seq(Requests)
         /\ \A i \in 1 .. Len(Answered(p, k)) :
              /\ i \in 1 .. Len(References(Current(p).node))
              /\ Answered(p, k)[i] = References(Current(p).node)[i]
         /\ ~(k < Len(Refs[Current(p).node])) =>
              Answered(p, k) = References(Current(p).node)
<1> DEFINE s == References(Current(p).node)
<1>1. s \in Seq(Requests) /\ Len(s) = Len(Refs[Current(p).node])
  BY ReferencesRequests
<1>2. Answered(p, k) = SubSeq(s, 1, k)
  BY DEF Answered
<1> HIDE DEF s
<1>3. Len(s) \in Nat /\ k \in 0 .. Len(s) /\ k \in Int
  BY <1>1, LenProperties
<1>4. \A i \in 1 .. k : s[i] \in Requests
  BY <1>1, <1>3, ElementOfSeq
<1>5. /\ SubSeq(s, 1, k) \in Seq(Requests)
      /\ Len(SubSeq(s, 1, k)) = IF 1 <= k THEN k - 1 + 1 ELSE 0
      /\ \A i \in 1 .. k - 1 + 1 : SubSeq(s, 1, k)[i] = s[1 + i - 1]
  BY <1>3, <1>4, SubSeqProperties
<1>6. Len(SubSeq(s, 1, k)) = k
  BY <1>3, <1>5
<1>7. \A i \in 1 .. k : i \in 1 .. Len(s) /\ SubSeq(s, 1, k)[i] = s[i]
  <2> SUFFICES ASSUME NEW i \in 1 .. k
               PROVE  i \in 1 .. Len(s) /\ SubSeq(s, 1, k)[i] = s[i]
    OBVIOUS
  <2>1. i \in 1 .. k - 1 + 1 /\ 1 + i - 1 = i /\ i \in 1 .. Len(s)
    BY <1>3
  <2>2. SubSeq(s, 1, k)[i] = s[1 + i - 1]
    BY <1>5, <2>1
  <2> QED
    BY <2>1, <2>2
<1>8. ASSUME ~(k < Len(s)) PROVE SubSeq(s, 1, k) = s
  <2>1. k = Len(s)
    BY <1>3, <1>8
  <2> QED
    BY <1>1, <1>5, <1>6, <1>7, <2>1, SeqEqual
<1>9. /\ Answered(p, k) \in Seq(Requests)
      /\ \A i \in 1 .. Len(Answered(p, k)) :
           i \in 1 .. Len(s) /\ Answered(p, k)[i] = s[i]
      /\ ~(k < Len(s)) => Answered(p, k) = s
  BY <1>2, <1>5, <1>6, <1>7, <1>8
<1> QED
  BY <1>1, <1>9 DEF s

(* The first request and the rest.                                         *)
LEMMA TodoPlaces ==
  ASSUME NEW s \in Seq(Requests), s # <<>>
  PROVE  /\ Head(s) \in Requests /\ Tail(s) \in Seq(Requests)
         /\ Head(s) = s[1] /\ 1 \in 1 .. Len(s)
         /\ Len(s) \in Nat /\ Len(Tail(s)) = Len(s) - 1
         /\ \A i \in 1 .. Len(Tail(s)) : /\ Tail(s)[i] = s[i + 1]
                                         /\ i + 1 \in 1 .. Len(s)
         /\ \A i \in 1 .. Len(s) : i # 1 => /\ i - 1 \in 1 .. Len(Tail(s))
                                            /\ Tail(s)[i - 1] = s[i]
<1>1. Len(s) \in Nat /\ Len(s) # 0
  BY EmptySeq, LenProperties
<1>2. /\ Head(s) \in Requests /\ Tail(s) \in Seq(Requests)
      /\ Len(Tail(s)) = Len(s) - 1
      /\ \A i \in 1 .. Len(Tail(s)) : Tail(s)[i] = s[i + 1]
  BY HeadTailProperties
<1>3. \A i \in 1 .. Len(s) : i # 1 => i - 1 \in 1 .. Len(Tail(s))
  BY <1>1, <1>2
<1>4. \A i \in 1 .. Len(s) : i # 1 => Tail(s)[i - 1] = s[i]
  <2> SUFFICES ASSUME NEW i \in 1 .. Len(s), i # 1 PROVE Tail(s)[i - 1] = s[i]
    OBVIOUS
  <2>1. i - 1 \in 1 .. Len(Tail(s)) /\ (i - 1) + 1 = i
    BY <1>1, <1>3
  <2> QED
    BY <2>1, <1>2
<1>5. \A i \in 1 .. Len(Tail(s)) : i + 1 \in 1 .. Len(s)
  BY <1>1, <1>2
<1>6. Head(s) = s[1] /\ 1 \in 1 .. Len(s)
  BY <1>1
<1> QED
  BY <1>1, <1>2, <1>3, <1>4, <1>5, <1>6

(* What is asked for are requests, and variables among them are wanted.    *)
LEMMA AskedRequests ==
  ASSUME VarTypes
  PROVE  /\ Asked \subseteq Requests /\ Wanted \subseteq Asked
         /\ mapFile.use => Wanted = Asked
         /\ ~mapFile.use => \A r \in Asked :
              /\ r = Request(r.node, NoName, NoRange) /\ r.node \in FromRoot
              /\ r.node \in Variables /\ ~r.node.numeric => r \in Wanted
<1>1. CASE mapFile.use
  <2>1. mapFile \in MapFiles
    BY <1>1 DEF VarTypes, NoMap
  <2>2. mapFile.lines \in Seq(Requests)
    BY <2>1, MapAssumption
  <2>3. \A i \in DOMAIN mapFile.lines : mapFile.lines[i] \in Requests
    BY <2>2, LenProperties, ElementOfSeq
  <2> QED
    BY <1>1, <2>3 DEF Asked, Wanted
<1>2. CASE ~mapFile.use
  <2>1. NoName \in Seq(STRING)
    BY EmptySeq DEF NoName
  <2>2. \A n \in Nodes : Request(n, NoName, NoRange) \in Requests
    BY <2>1 DEF Request, Requests, NoRange
  <2>3. FromRoot \subseteq Nodes
    BY ReachableNodes DEF FromRoot
  <2>4. Asked = {Request(n, NoName, NoRange) : n \in FromRoot}
    BY <1>2 DEF Asked
  <2>5. Wanted = {Request(v, NoName, NoRange) :
                    v \in {n \in Variables \cap FromRoot : ~n.numeric}}
    BY <1>2 DEF Wanted
  <2>6. \A n : Request(n, NoName, NoRange).node = n
    BY DEF Request
  <2> QED
    BY <1>2, <2>2, <2>3, <2>4, <2>5, <2>6
<1> QED
  BY <1>1, <1>2

(* A usable variable gives a register with a length.                       *)
LEMMA UsableLength ==
  ASSUME VarTypes, NEW r \in Usable
  PROVE  /\ r \in Requests /\ r.node \in Variables /\ HasLength(r)
         /\ ArrayLength(r) \in Nat \ {0} /\ Known(Attr[r.node].type)
<1>1. /\ r \in Wanted /\ r.node \in Variables /\ Known(Attr[r.node].type)
      /\ HasLength(r)
  BY DEF Usable, HasType
<1>2. r \in Requests
  BY <1>1, AskedRequests
<1>3. r.range \in Nat \cup {TwoDimensional}
  BY <1>2 DEF Requests
<1>4. Attr[r.node].length \in Nat
  BY <1>1, ServerAssumption
<1>5. ArrayLength(r) \in Nat \ {0}
  BY <1>1, <1>3, <1>4 DEF HasLength, ArrayLength, NoRange, TwoDimensional
<1> QED
  BY <1>1, <1>2, <1>5

-----------------------------------------------------------------------------
(* A step of one process leaves the configuration and what the other       *)
(* processes have alone.                                                   *)
OthersStay(p) ==
  /\ UNCHANGED Config
  /\ \A q \in Processes \ {p} :
       /\ pc'[q] = pc[q] /\ todo'[q] = todo[q]
       /\ seen'[q] = seen[q] /\ cat'[q] = cat[q] /\ tmp'[q] = tmp[q]

TypedStep(p) == VarTypes' /\ OthersStay(p)

(* Passing over the current node is typed: the rest of todo is kept.       *)
LEMMA SkipTyped ==
  ASSUME VarTypes, NEW p \in Processes, todo[p] # <<>>, Skip(p)
  PROVE  /\ todo' \in [Processes -> Seq(Requests)]
         /\ seen' \in [Processes -> [described : BOOLEAN, length : Nat]]
         /\ pc' \in [Processes -> {"off"} \cup Steps \cup Ended]
         /\ \A q \in Processes \ {p} :
              pc'[q] = pc[q] /\ todo'[q] = todo[q] /\ seen'[q] = seen[q]
<1>1. Tail(todo[p]) \in Seq(Requests)
  BY TodoPlaces DEF VarTypes
<1> QED
  BY <1>1 DEF VarTypes, Skip, Goto, Steps, Unseen

(* So is an exception of addRegister.                                      *)
LEMMA ThrowTyped ==
  ASSUME VarTypes, NEW p \in Processes, Throw(p)
  PROVE  /\ todo' \in [Processes -> Seq(Requests)]
         /\ seen' \in [Processes -> [described : BOOLEAN, length : Nat]]
         /\ pc' \in [Processes -> {"off"} \cup Steps \cup Ended]
         /\ \A q \in Processes \ {p} :
              pc'[q] = pc[q] /\ todo'[q] = todo[q] /\ seen'[q] = seen[q]
<1>1. <<>> \in Seq(Requests)
  BY EmptySeq
<1>2. CASE /\ todo' = [todo EXCEPT ![p] = <<>>]
           /\ seen' = [seen EXCEPT ![p] = Unseen]
           /\ pc' = [pc EXCEPT ![p] = "next"]
  BY <1>1, <1>2 DEF VarTypes, Steps, Unseen
<1>3. CASE pc' = [pc EXCEPT ![p] = "failed"] /\ UNCHANGED <<todo, seen>>
  BY <1>3 DEF VarTypes, Ended
<1> QED
  BY <1>2, <1>3 DEF Throw, Goto

(* Adding a register keeps the types.                                      *)
LEMMA AddTyped ==
  ASSUME VarTypes, NEW p \in Processes, todo[p] # <<>>, NEW e,
         AddProperty(p, e)
  PROVE  /\ todo' \in [Processes -> Seq(Requests)]
         /\ seen' \in [Processes -> [described : BOOLEAN, length : Nat]]
         /\ pc' \in [Processes -> {"off"} \cup Steps \cup Ended]
         /\ cat' = [q \in Processes |-> cat'[q]]
         /\ \A q \in Processes \ {p} :
              /\ pc'[q] = pc[q] /\ todo'[q] = todo[q] /\ seen'[q] = seen[q]
              /\ cat'[q] = cat[q]
<1>1. Skip(p) \/ Throw(p)
  BY DEF AddProperty
<1>2. cat' = [cat EXCEPT ![p] = @ \cup {e}] \/ cat' = cat
  BY DEF AddProperty
<1>3. cat' = [q \in Processes |-> cat'[q]]
  BY <1>2 DEF VarTypes
<1>4. \A q \in Processes \ {p} : cat'[q] = cat[q]
  BY <1>2 DEF VarTypes
<1> QED
  BY <1>1, <1>3, <1>4, SkipTyped, ThrowTyped

(* Before the catalogue is saved: every step keeps the types.              *)
LEMMA FillTyped ==
  ASSUME VarTypes, \A q \in Processes : ReadsFit(q), NEW p \in Processes,
         \/ FillCatalogue(p) \/ Browse(p) \/ PassOver(p) \/ ReadDataType(p)
         \/ ReadDescription(p) \/ ReadValue(p) \/ ReadAccessLevel(p)
  PROVE  TypedStep(p)
<1>1. CASE FillCatalogue(p)
  <2>1. (IF mapFile.use THEN mapFile.lines
         ELSE <<Request(Root, NoName, NoRange)>>) \in Seq(Requests)
    <3>1. CASE mapFile.use
      BY <3>1, MapAssumption DEF VarTypes, NoMap
    <3>2. CASE ~mapFile.use
      <4>1. NoName \in Seq(STRING)
        BY EmptySeq DEF NoName
      <4>2. Request(Root, NoName, NoRange) \in Requests
        BY <4>1, ServerAssumption DEF Request, Requests, NoRange, Nodes
      <4> QED
        BY <3>2, <4>2
    <3> QED
      BY <3>1, <3>2
  <2>2. \E s \in {"next", "died"} : pc' = [pc EXCEPT ![p] = s]
    BY <1>1 DEF FillCatalogue, Goto
  <2>3. \/ todo' = todo
        \/ todo' = [todo EXCEPT ![p] =
                      IF mapFile.use THEN mapFile.lines
                      ELSE <<Request(Root, NoName, NoRange)>>]
    BY <1>1 DEF FillCatalogue
  <2>4. /\ todo' \in [Processes -> Seq(Requests)]
        /\ \A q \in Processes \ {p} : todo'[q] = todo[q]
    BY <2>1, <2>3 DEF VarTypes
  <2>5. UNCHANGED <<Config, Files, seen, cat, refused>>
    BY <1>1 DEF FillCatalogue
  <2> QED
    BY <2>2, <2>4, <2>5 DEF Files, Config, VarTypes, Steps, Ended, TypedStep,
                            OthersStay
<1>2. CASE Browse(p)
  <2>1. todo[p] \in Seq(Requests) /\ todo[p] # <<>>
        /\ Head(todo[p]).node \in Objects
    BY <1>2 DEF Browse, AtObject, Current, VarTypes
  <2>2. PICK k \in 0 .. Len(Refs[Current(p).node]) :
          /\ todo' = [todo EXCEPT ![p] = Answered(p, k) \o Tail(@)]
          /\ refused' = (refused \/ k < Len(Refs[Current(p).node]))
    BY <1>2 DEF Browse
  <2>3. Answered(p, k) \in Seq(Requests)
    BY <2>1, AnsweredRequests DEF Current
  <2>4. Answered(p, k) \o Tail(todo[p]) \in Seq(Requests)
    BY <2>1, <2>3, TodoPlaces, ConcatProperties
  <2>5. /\ todo' \in [Processes -> Seq(Requests)]
        /\ \A q \in Processes \ {p} : todo'[q] = todo[q]
    BY <2>2, <2>4 DEF VarTypes
  <2>6. refused' \in BOOLEAN
    BY <2>2
  <2> QED
    BY <1>2, <2>5, <2>6 DEF Browse, Files, Config, VarTypes, TypedStep,
                            OthersStay
<1>3. CASE PassOver(p)
  <2>1. Tail(todo[p]) \in Seq(Requests)
    BY <1>3, TodoPlaces DEF PassOver, AtNumeric, VarTypes
  <2> QED
    BY <1>3, <2>1 DEF PassOver, Files, Config, VarTypes, TypedStep, OthersStay
<1>4. CASE ReadDataType(p)
  <2>1. /\ todo[p] # <<>> /\ UNCHANGED <<Config, Files, cat>>
        /\ refused' \in BOOLEAN
    BY <1>4 DEF ReadDataType, AtEntry, LeaveOut, VarTypes
  <2>2. CASE Skip(p)
    BY <2>1, <2>2, SkipTyped DEF Files, Config, VarTypes, TypedStep, OthersStay
  <2>3. CASE Goto(p, "description") /\ UNCHANGED <<todo, seen>>
    BY <2>1, <2>3 DEF Goto, Files, Config, VarTypes, Steps, TypedStep,
                      OthersStay
  <2> QED
    BY <1>4, <2>2, <2>3 DEF ReadDataType, LeaveOut
<1>5. CASE ReadDescription(p)
  <2>1. PICK good \in BOOLEAN :
          /\ seen' = [seen EXCEPT ![p].described = good]
          /\ refused' = (refused \/ ~good)
    BY <1>5 DEF ReadDescription
  <2>2. /\ seen' \in [Processes -> [described : BOOLEAN, length : Nat]]
        /\ \A q \in Processes \ {p} : seen'[q] = seen[q]
    BY <2>1 DEF VarTypes
  <2>3. refused' \in BOOLEAN
    BY <2>1
  <2> QED
    BY <1>5, <2>2, <2>3 DEF ReadDescription, Goto, Files, Config, VarTypes,
                            Steps, TypedStep, OthersStay
<1>6. CASE ReadValue(p)
  <2>1. /\ todo[p] # <<>> /\ Current(p) \in Wanted
        /\ Current(p).node \in Variables
        /\ UNCHANGED <<Config, Files, cat>> /\ refused' \in BOOLEAN
    BY <1>6 DEF ReadValue, LeaveOut, VarTypes, ReadsFit, AtReads, HasType
  <2>2. CASE Skip(p)
    BY <2>1, <2>2, SkipTyped DEF Files, Config, VarTypes, TypedStep, OthersStay
  <2>3. CASE ~Skip(p)
    <3>1. /\ seen' = [seen EXCEPT ![p].length = ArrayLength(Current(p))]
          /\ Goto(p, "access") /\ UNCHANGED todo /\ HasLength(Current(p))
      BY <1>6, <2>3 DEF ReadValue, LeaveOut
    <3>2. Current(p) \in Usable
      BY <1>6, <2>1, <3>1 DEF Usable, ReadValue, ReadsFit, AtReads
    <3>3. ArrayLength(Current(p)) \in Nat
      BY <3>2, UsableLength
    <3> QED
      BY <2>1, <3>1, <3>3 DEF Goto, Files, Config, VarTypes, Steps, TypedStep,
                              OthersStay
  <2> QED
    BY <2>2, <2>3
<1>7. CASE ReadAccessLevel(p)
  <2>1. /\ todo[p] # <<>> /\ UNCHANGED <<Config, Files>>
        /\ refused' \in BOOLEAN
    BY <1>7 DEF ReadAccessLevel, LeaveOut, VarTypes, ReadsFit, AtReads
  <2>2. CASE Skip(p) /\ UNCHANGED cat
    BY <2>1, <2>2, SkipTyped DEF Files, Config, VarTypes, TypedStep, OthersStay
  <2>3. CASE \E e : AddProperty(p, e)
    <3>1. PICK e : AddProperty(p, e)
      BY <2>3
    <3> QED
      BY <2>1, <3>1, AddTyped DEF Files, Config, VarTypes, TypedStep, OthersStay
  <2> QED
    BY <1>7, <2>2, <2>3 DEF ReadAccessLevel, AddCurrent, LeaveOut
<1> QED
  BY <1>1, <1>2, <1>3, <1>4, <1>5, <1>6, <1>7

(* The other steps, those of the constructor and of its surroundings.      *)
LEMMA OtherTyped ==
  ASSUME VarTypes, NEW p \in Processes,
         \/ Start(p) \/ ReadCatalogue(p) \/ Connect(p) \/ Filled(p)
         \/ SaveOpen(p) \/ SaveWrite(p) \/ SaveRename(p) \/ Leave(p)
  PROVE  TypedStep(p)
<1>1. CASE Start(p)
  BY <1>1 DEF Start, Goto, Files, Filling, Config, VarTypes, Steps, TypedStep,
              OthersStay
<1>2. CASE ReadCatalogue(p)
  <2>1. \/ pc' = [pc EXCEPT ![p] = "connect"] \/ pc' = [pc EXCEPT ![p] = "died"]
        \/ pc' = [pc EXCEPT ![p] = "ready"]
    BY <1>2 DEF ReadCatalogue, Goto
  <2>2. cat' = cat \/ \E c : cat' = [cat EXCEPT ![p] = c]
    BY <1>2 DEF ReadCatalogue
  <2>3. UNCHANGED <<Config, Files, todo, seen, refused>>
    BY <1>2 DEF ReadCatalogue
  <2>4. /\ cat' = [q \in Processes |-> cat'[q]]
        /\ \A q \in Processes \ {p} : cat'[q] = cat[q]
    BY <2>2 DEF VarTypes
  <2> QED
    BY <2>1, <2>3, <2>4 DEF Files, Config, VarTypes, Steps, Ended, TypedStep,
                            OthersStay
<1>3. CASE Connect(p)
  BY <1>3 DEF Connect, Goto, Files, Filling, Config, VarTypes, Steps, Ended,
              TypedStep, OthersStay
<1>4. CASE Filled(p)
  <2>1. PICK s \in {"failed", "open", "ready"} : pc' = [pc EXCEPT ![p] = s]
    BY <1>4 DEF Filled, Goto
  <2> QED
    BY <1>4, <2>1 DEF Filled, Files, Filling, Config, VarTypes, Steps, Ended,
                      TypedStep, OthersStay
<1>5. CASE SaveOpen(p)
  BY <1>5 DEF SaveOpen, Goto, Filling, Config, VarTypes, Steps, TypedStep,
              OthersStay
<1>6. CASE SaveWrite(p)
  <2>1. PICK f : tmp' = [tmp EXCEPT ![p] = f]
    BY <1>6 DEF SaveWrite
  <2> QED
    BY <1>6, <2>1 DEF SaveWrite, Goto, Filling, Config, VarTypes, Steps,
                      TypedStep, OthersStay
<1>7. CASE SaveRename(p)
  <2>1. tmp' = tmp \/ tmp' = [tmp EXCEPT ![p] = NoFile]
    BY <1>7 DEF SaveRename, Files
  <2>2. \E s \in {"ready", "failed"} : pc' = [pc EXCEPT ![p] = s]
    BY <1>7 DEF SaveRename, Goto
  <2>3. UNCHANGED <<Config, Filling, refused>> /\ faulty' \in BOOLEAN
    BY <1>7 DEF SaveRename, Files, VarTypes
  <2>4. /\ tmp' = [q \in Processes |-> tmp'[q]]
        /\ \A q \in Processes \ {p} : tmp'[q] = tmp[q]
    BY <2>1 DEF VarTypes
  <2> QED
    BY <2>2, <2>3, <2>4 DEF Filling, Config, VarTypes, Ended, TypedStep,
                            OthersStay
<1>8. CASE Leave(p)
  <2>1. <<>> \in Seq(Requests)
    BY EmptySeq
  <2> QED
    BY <1>8, <2>1 DEF Leave, Goto, Config, VarTypes, Unseen, TypedStep,
                      OthersStay
<1> QED
  BY <1>1, <1>2, <1>3, <1>4, <1>5, <1>6, <1>7, <1>8

-----------------------------------------------------------------------------
(* The map file is chosen once, so what is wanted never changes.           *)
LEMMA FixedWishes ==
  ASSUME UNCHANGED mapFile
  PROVE  /\ Asked' = Asked /\ Wanted' = Wanted /\ Usable' = Usable
         /\ AllRegisters' = AllRegisters /\ Saved' = Saved
         /\ RepeatedName' = RepeatedName
<1>1. Asked' = Asked /\ Wanted' = Wanted
  BY DEF Asked, Wanted
<1>2. Usable' = Usable
  BY <1>1 DEF Usable
<1> QED
  BY <1>1, <1>2 DEF AllRegisters, Saved, RepeatedName

(* A process that does not move keeps what it has read.                    *)
LEMMA ReadsStay ==
  ASSUME UNCHANGED Config, NEW q, ReadsFit(q), pc'[q] = pc[q],
         todo'[q] = todo[q], seen'[q] = seen[q], cat'[q] = cat[q]
  PROVE  ReadsFit(q)'
BY FixedWishes DEF Config, ReadsFit, Current

(* The current node is left: the rest of todo is asked for as before.      *)
LEMMA SkipFits ==
  ASSUME VarTypes, NEW p \in Processes, ReadsFit(p), todo[p] # <<>>, Skip(p),
         UNCHANGED Config, cat'[p] \subseteq AllRegisters
  PROVE  ReadsFit(p)'
<1>1. pc'[p] = "next" /\ todo'[p] = Tail(todo[p]) /\ todo[p] \in Seq(Requests)
  BY DEF Skip, Goto, VarTypes
<1>2. \A i \in 1 .. Len(todo'[p]) : todo'[p][i] \in Asked
  BY <1>1, TodoPlaces DEF ReadsFit
<1> QED
  BY <1>1, <1>2, FixedWishes DEF ReadsFit, AtReads, Config

(* What the browsed object refers to can be reached from the root.         *)
LEMMA ReferencesAsked ==
  ASSUME ~mapFile.use, NEW o \in Objects, o \in FromRoot,
         NEW i \in 1 .. Len(References(o))
  PROVE  References(o)[i] \in Asked
<1>1. Refs[o] \in Seq(Nodes)
  BY ServerAssumption
<1>2. i \in DOMAIN Refs[o] /\ i \in 1 .. Len(Refs[o])
  BY <1>1, LenProperties, ReferencesRequests
<1>3. Refs[o][i] \in FromRoot
  BY <1>2, ReachableClosed DEF FromRoot
<1>4. References(o)[i] = Request(Refs[o][i], NoName, NoRange)
  BY <1>2, ReferencesRequests
<1> QED
  BY <1>3, <1>4 DEF Asked

(* A variable taken into todo and past the first check is wanted.          *)
LEMMA EntryWanted ==
  ASSUME VarTypes, NEW p \in Processes, ReadsFit(p), AtEntry(p)
  PROVE  /\ Current(p) \in Asked /\ Current(p) \in Requests
         /\ HasType(Current(p).node) => Current(p) \in Wanted
<1>1. todo[p] \in Seq(Requests) /\ todo[p] # <<>>
  BY DEF VarTypes, AtEntry
<1>2. Current(p) \in Asked /\ Current(p) \in Requests
  BY <1>1, TodoPlaces DEF ReadsFit, Current
<1>3. ASSUME HasType(Current(p).node) PROVE Current(p) \in Wanted
  <2>1. Current(p).node \in Variables
    BY <1>3 DEF HasType
  <2>2. CASE mapFile.use
    BY <1>2, <2>2, AskedRequests
  <2>3. CASE ~mapFile.use
    <3>1. ~Current(p).node.numeric
      BY <2>1, <2>3, <1>1 DEF AtEntry, AtNumeric
    <3> QED
      BY <1>2, <2>1, <2>3, <3>1, AskedRequests
  <2> QED
    BY <2>2, <2>3
<1> QED
  BY <1>2, <1>3

(* The register that is added is one of a usable variable.                 *)
LEMMA AddedRegister ==
  ASSUME VarTypes, NEW p \in Processes, ReadsFit(p), pc[p] = "access"
  PROVE  /\ Current(p) \in Usable /\ todo[p] # <<>>
         /\ Register(Current(p), seen[p].length, seen[p].described,
                     Attr[Current(p).node].writable) \in AllRegisters
<1>1. /\ todo[p] # <<>> /\ Current(p) \in Usable
      /\ seen[p].length = ArrayLength(Current(p))
  BY DEF ReadsFit, AtReads, Usable
<1>2. seen[p].described \in BOOLEAN
  BY DEF VarTypes
<1>3. Register(Current(p), seen[p].length, seen[p].described,
               Attr[Current(p).node].writable) \in RegistersOf(Current(p))
  BY <1>1, <1>2 DEF RegistersOf
<1> QED
  BY <1>1, <1>3 DEF AllRegisters

(* What the reads and their outcomes leave of one process.                 *)
LEMMA FillFits ==
  ASSUME VarTypes, NEW p \in Processes, ReadsFit(p),
         \/ FillCatalogue(p) \/ Browse(p) \/ PassOver(p) \/ ReadDataType(p)
         \/ ReadDescription(p) \/ ReadValue(p) \/ ReadAccessLevel(p)
  PROVE  ReadsFit(p)'
<1>1. CASE FillCatalogue(p)
  <2>1. /\ UNCHANGED Config /\ cat' = cat /\ pc'[p] \in {"next", "died"}
        /\ \/ todo'[p] = todo[p]
           \/ todo'[p] = IF mapFile.use THEN mapFile.lines
                         ELSE <<Request(Root, NoName, NoRange)>>
    BY <1>1 DEF FillCatalogue, Goto, VarTypes
  <2>2. ASSUME todo'[p] # todo[p]
        PROVE  \A i \in 1 .. Len(todo'[p]) : todo'[p][i] \in Asked
    <3>1. CASE mapFile.use
      <4>1. mapFile.lines \in Seq(Requests)
        BY <3>1, MapAssumption DEF VarTypes, NoMap
      <4>2. todo'[p] = mapFile.lines
        BY <2>1, <2>2, <3>1
      <4> QED
        BY <3>1, <4>1, <4>2, LenProperties DEF Asked
    <3>2. CASE ~mapFile.use
      <4>1. todo'[p] = <<Request(Root, NoName, NoRange)>>
        BY <2>1, <2>2, <3>2
      <4>2. Root \in FromRoot
        BY ServerAssumption, ReachableSelf DEF FromRoot, Nodes
      <4>3. Request(Root, NoName, NoRange) \in Asked
        BY <3>2, <4>2 DEF Asked
      <4> QED
        BY <4>1, <4>3
    <3> QED
      BY <3>1, <3>2
  <2> QED
    BY <2>1, <2>2, FixedWishes DEF ReadsFit, AtReads, Config
<1>2. CASE Browse(p)
  <2>1. /\ UNCHANGED <<Config, pc, seen, cat>> /\ pc[p] = "next"
        /\ todo[p] \in Seq(Requests) /\ todo[p] # <<>> /\ ~mapFile.use
        /\ Current(p).node \in Objects /\ Current(p) = Head(todo[p])
    BY <1>2 DEF Browse, AtObject, VarTypes, Current
  <2>0. PICK k \in 0 .. Len(Refs[Current(p).node]) :
          todo' = [todo EXCEPT ![p] = Answered(p, k) \o Tail(@)]
    BY <1>2 DEF Browse
  <2> DEFINE s == Answered(p, k)
             t == Tail(todo[p])
  <2>2. todo'[p] = s \o t
    BY <2>0, <2>1 DEF VarTypes
  <2>3. s \in Seq(Requests) /\ t \in Seq(Requests)
    BY <2>1, AnsweredRequests, TodoPlaces
  <2>4. Current(p).node \in FromRoot
    <3>1. Current(p) \in Asked
      BY <2>1, TodoPlaces DEF ReadsFit
    <3> QED
      BY <2>1, <3>1 DEF Asked, Request
  <2>5. \A i \in 1 .. Len(s) : s[i] \in Asked
    BY <2>1, <2>4, AnsweredRequests, ReferencesAsked
  <2>6. \A i \in 1 .. Len(t) : t[i] \in Asked
    BY <2>1, TodoPlaces DEF ReadsFit
  <2> HIDE DEF s, t
  <2>7. \A i \in 1 .. Len(s \o t) : (s \o t)[i] \in Asked
    <3> SUFFICES ASSUME NEW i \in 1 .. Len(s \o t)
                 PROVE  (s \o t)[i] \in Asked
      OBVIOUS
    <3>1. /\ Len(s) \in Nat /\ Len(t) \in Nat /\ i \in 1 .. Len(s) + Len(t)
          /\ (s \o t)[i] = IF i <= Len(s) THEN s[i] ELSE t[i - Len(s)]
      BY <2>3, ConcatProperties, LenProperties
    <3>2. CASE i <= Len(s)
      BY <2>5, <3>1, <3>2
    <3>3. CASE ~(i <= Len(s))
      <4>1. i - Len(s) \in 1 .. Len(t)
        BY <3>1, <3>3
      <4> QED
        BY <2>6, <3>1, <3>3, <4>1
    <3> QED
      BY <3>2, <3>3
  <2> QED
    BY <2>1, <2>2, <2>7, FixedWishes DEF ReadsFit, AtReads, Config
<1>3. CASE PassOver(p)
  <2>1. /\ UNCHANGED <<Config, pc, cat>> /\ pc[p] = "next"
        /\ todo[p] # <<>> /\ todo[p] \in Seq(Requests)
        /\ todo'[p] = Tail(todo[p])
    BY <1>3 DEF PassOver, AtNumeric, VarTypes
  <2>2. \A i \in 1 .. Len(todo'[p]) : todo'[p][i] \in Asked
    BY <2>1, TodoPlaces DEF ReadsFit
  <2> QED
    BY <2>1, <2>2, FixedWishes DEF ReadsFit, AtReads, Config
<1>4. CASE ReadDataType(p)
  <2>1. todo[p] # <<>> /\ UNCHANGED <<Config, cat>> /\ AtEntry(p)
    BY <1>4 DEF ReadDataType, AtEntry
  <2>2. CASE Skip(p)
    BY <2>1, <2>2, SkipFits DEF ReadsFit
  <2>3. CASE ~Skip(p)
    <3>1. /\ HasType(Current(p).node) /\ pc'[p] = "description"
          /\ UNCHANGED <<todo, seen>>
      BY <1>4, <2>3 DEF ReadDataType, LeaveOut, Goto, VarTypes
    <3>2. Current(p) \in Wanted
      BY <2>1, <3>1, EntryWanted
    <3> QED
      BY <2>1, <3>1, <3>2, FixedWishes DEF ReadsFit, Current, Config
  <2> QED
    BY <2>2, <2>3
<1>5. CASE ReadDescription(p)
  <2>1. /\ pc[p] = "description" /\ pc'[p] = "value"
        /\ UNCHANGED <<Config, todo, cat>>
    BY <1>5 DEF ReadDescription, Goto, VarTypes
  <2> QED
    BY <2>1, FixedWishes DEF ReadsFit, Current, Config, AtReads
<1>6. CASE ReadValue(p)
  <2>1. /\ pc[p] = "value" /\ UNCHANGED <<Config, cat>>
        /\ todo[p] # <<>> /\ Current(p) \in Wanted /\ HasType(Current(p).node)
    BY <1>6 DEF ReadValue, ReadsFit, AtReads
  <2>2. CASE Skip(p)
    BY <2>1, <2>2, SkipFits DEF ReadsFit
  <2>3. CASE ~Skip(p)
    <3>1. /\ HasLength(Current(p)) /\ pc'[p] = "access" /\ UNCHANGED todo
          /\ seen' = [seen EXCEPT ![p].length = ArrayLength(Current(p))]
      BY <1>6, <2>3 DEF ReadValue, LeaveOut, Goto, VarTypes
    <3>2. seen'[p].length = ArrayLength(Current(p))
      BY <3>1 DEF VarTypes
    <3> QED
      BY <2>1, <3>1, <3>2, FixedWishes DEF ReadsFit, Current, Config
  <2> QED
    BY <2>2, <2>3
<1>7. CASE ReadAccessLevel(p)
  <2> DEFINE e == Register(Current(p), seen[p].length, seen[p].described,
                           Attr[Current(p).node].writable)
  <2>1. pc[p] = "access" /\ UNCHANGED Config
    BY <1>7 DEF ReadAccessLevel
  <2>2. todo[p] # <<>> /\ e \in AllRegisters
    BY <2>1, AddedRegister
  <2>3. AddProperty(p, e) \/ (Skip(p) /\ UNCHANGED cat)
    BY <1>7 DEF ReadAccessLevel, AddCurrent, LeaveOut
  <2> HIDE DEF e
  <2>4. cat' = cat \/ cat' = [cat EXCEPT ![p] = @ \cup {e}]
    BY <2>3 DEF AddProperty
  <2>5. cat'[p] \subseteq AllRegisters
    BY <2>2, <2>4 DEF VarTypes, ReadsFit
  <2>6. CASE Skip(p)
    BY <2>1, <2>2, <2>5, <2>6, SkipFits
  <2>7. CASE Throw(p)
    <3>1. /\ pc'[p] \in {"next", "failed"}
          /\ (todo'[p] = <<>> \/ todo'[p] = todo[p])
      BY <2>7 DEF Throw, Goto, VarTypes
    <3>2. \A i \in 1 .. Len(todo'[p]) : todo'[p][i] \in Asked
      BY <3>1 DEF ReadsFit
    <3> QED
      BY <2>1, <2>5, <3>1, <3>2, FixedWishes DEF ReadsFit, AtReads, Config
  <2> QED
    BY <2>3, <2>6, <2>7 DEF AddProperty
<1> QED
  BY <1>1, <1>2, <1>3, <1>4, <1>5, <1>6, <1>7

(* A register is read back from the cache file as it was written.          *)
LEMMA SavedAndRead ==
  ASSUME VarTypes, NEW e \in AllRegisters
  PROVE  ParseRegister(AddRegInfoXmlNode(e)) = e
<1>1. PICK r \in Usable : e \in RegistersOf(r)
  BY DEF AllRegisters
<1>2. PICK d \in BOOLEAN :
        e = Register(r, ArrayLength(r), d, Attr[r.node].writable)
  BY <1>1 DEF RegistersOf
<1>3. r.node \in Nodes
  BY UsableLength DEF Nodes
<1>4. r.node = [numeric |-> r.node.numeric, ns |-> r.node.ns, id |-> r.node.id]
  BY <1>3, ServerAssumption
<1> QED
  BY <1>2, <1>4 DEF ParseRegister, AddRegInfoXmlNode, Register

(* What is read from a file that holds saved registers.                    *)
LEMMA ReadBack ==
  ASSUME VarTypes, NEW f, Holds(f), f.kind = "whole"
  PROVE  {ParseRegister(x) : x \in f.registers} \subseteq AllRegisters
<1> SUFFICES ASSUME NEW x \in f.registers
             PROVE  ParseRegister(x) \in AllRegisters
  OBVIOUS
<1>1. x \in Saved
  BY DEF Holds
<1>2. PICK e \in AllRegisters : x = AddRegInfoXmlNode(e)
  BY <1>1 DEF Saved
<1> QED
  BY <1>2, SavedAndRead

(* The other steps: a process that reads the cache file gets what was      *)
(* saved, one that ends forgets everything.                                *)
LEMMA OtherFits ==
  ASSUME VarTypes, FilesFit, NEW p \in Processes, ReadsFit(p),
         \/ Start(p) \/ ReadCatalogue(p) \/ Connect(p) \/ Filled(p)
         \/ SaveOpen(p) \/ SaveWrite(p) \/ SaveRename(p) \/ Leave(p)
  PROVE  ReadsFit(p)'
<1>1. CASE ReadCatalogue(p)
  <2>1. /\ pc'[p] \notin AtReads /\ UNCHANGED <<Config, todo>>
        /\ \/ cat' = cat
           \/ /\ cache.kind = "whole"
              /\ cat' = [cat EXCEPT ![p] =
                           {ParseRegister(x) : x \in cache.registers}]
    BY <1>1 DEF ReadCatalogue, Goto, VarTypes, AtReads
  <2>2. cat'[p] \subseteq AllRegisters
    BY <2>1, ReadBack DEF VarTypes, FilesFit, ReadsFit
  <2> QED
    BY <2>1, <2>2, FixedWishes DEF ReadsFit, AtReads, Config
<1>2. CASE Leave(p)
  <2>1. /\ pc'[p] = "off" /\ todo'[p] = <<>> /\ cat'[p] = {}
        /\ UNCHANGED Config
    BY <1>2 DEF Leave, Goto, VarTypes
  <2>2. \A i \in 1 .. Len(todo'[p]) : FALSE
    BY <2>1, EmptySeq
  <2> QED
    BY <2>1, <2>2, FixedWishes DEF ReadsFit, AtReads, Config
<1>3. CASE \/ Start(p) \/ Connect(p) \/ Filled(p)
           \/ SaveOpen(p) \/ SaveWrite(p) \/ SaveRename(p)
  <2>1. UNCHANGED <<Config, todo, cat>>
    BY <1>3 DEF Start, Connect, Filled, SaveOpen, SaveWrite, SaveRename, Filling
  <2>2. pc'[p] \notin AtReads
    BY <1>3 DEF Start, Connect, Filled, SaveOpen, SaveWrite, SaveRename, Goto,
                VarTypes, AtReads
  <2> QED
    BY <2>1, <2>2, FixedWishes DEF ReadsFit, AtReads, Config
<1> QED
  BY <1>1, <1>2, <1>3

(* The files hold registers of usable variables, whoever wrote them.       *)
LEMMA FilesStayFit ==
  ASSUME VarTypes, FilesFit, NEW p \in Processes, ReadsFit(p),
         Start(p) \/ Step(p) \/ Leave(p),
         UNCHANGED Config
  PROVE  FilesFit'
<1>0. Saved' = Saved
  BY FixedWishes DEF Config
<1>1. CASE UNCHANGED <<cache, tmp>> /\ \A q \in Processes :
                           pc'[q] = "rename" => pc[q] = "rename"
  BY <1>0, <1>1 DEF FilesFit, Holds
<1>2. CASE Reading(p)
  <2>1. Quiet(p)
    BY <1>2, ReadingQuiet DEF VarTypes
  <2>2. PICK s : s # "rename" /\ pc' = [pc EXCEPT ![p] = s]
    BY <2>1 DEF Quiet
  <2> QED
    BY <1>1, <2>1, <2>2 DEF Quiet, VarTypes
<1>4. CASE SaveOpen(p) \/ Leave(p)
  <2>1. /\ cache' = cache /\ pc'[p] # "rename"
        /\ \A q \in Processes \ {p} : pc'[q] = pc[q] /\ tmp'[q] = tmp[q]
        /\ tmp'[p] \in {EmptyFile, NoFile}
    BY <1>4 DEF SaveOpen, Leave, Goto, VarTypes
  <2>2. \A f \in {EmptyFile, NoFile} : f.kind \in {"empty", "none"}
    BY DEF EmptyFile, NoFile
  <2> QED
    BY <1>0, <2>1, <2>2 DEF FilesFit, Holds
<1>5. CASE SaveWrite(p)
  <2> DEFINE w == WholeFile({AddRegInfoXmlNode(e) : e \in cat[p]})
  <2>1. /\ cache' = cache
        /\ \A q \in Processes \ {p} : pc'[q] = pc[q] /\ tmp'[q] = tmp[q]
        /\ tmp'[p] \in {w, EmptyFile, CutFile}
    BY <1>5 DEF SaveWrite, Goto, VarTypes
  <2>2. w.kind = "whole" /\ w.registers \subseteq Saved
    BY DEF WholeFile, Saved, ReadsFit
  <2>3. EmptyFile.kind = "empty" /\ CutFile.kind = "cut"
    BY DEF EmptyFile, CutFile
  <2> HIDE DEF w
  <2>4. tmp'[p].kind \in {"empty", "cut", "whole"} /\ Holds(tmp'[p])
    BY <2>1, <2>2, <2>3 DEF Holds
  <2> QED
    BY <1>0, <2>1, <2>4 DEF FilesFit, Holds
<1>6. CASE SaveRename(p)
  <2>1. CASE UNCHANGED <<cache, tmp>> /\ pc' = [pc EXCEPT ![p] = "failed"]
    BY <1>1, <2>1 DEF VarTypes
  <2>2. CASE /\ pc[p] = "rename" /\ tmp[p].kind # "empty" /\ cache' = tmp[p]
             /\ tmp' = [tmp EXCEPT ![p] = NoFile]
             /\ pc' = [pc EXCEPT ![p] = "ready"]
    <3>1. cache'.kind \in {"cut", "whole"} /\ Holds(cache')
      BY <2>2 DEF FilesFit
    <3>2. /\ \A q \in Processes \ {p} : pc'[q] = pc[q] /\ tmp'[q] = tmp[q]
          /\ tmp'[p].kind = "none" /\ pc'[p] = "ready"
      BY <2>2 DEF VarTypes, NoFile
    <3> QED
      BY <1>0, <3>1, <3>2 DEF FilesFit, Holds
  <2> QED
    BY <1>6, <2>1, <2>2 DEF SaveRename, Goto, Files
<1> QED
  BY <1>2, <1>4, <1>5, <1>6 DEF Step, Reading

-----------------------------------------------------------------------------
(* Any step of a process, of the constructor or around it.                 *)
Moves(p) == Start(p) \/ Step(p) \/ Leave(p)

(* Every move keeps the types and leaves the other processes alone.        *)
LEMMA MovesTyped ==
  ASSUME FaithInv, NEW p \in Processes, Moves(p)
  PROVE  TypedStep(p)
BY FillTyped, OtherTyped DEF FaithInv, Moves, Step

(* The invariant is kept by the steps of all processes.                    *)
LEMMA FaithKept ==
  ASSUME FaithInv, [Next]_vars
  PROVE  FaithInv'
<1>1. ASSUME NEW p \in Processes, Moves(p) PROVE FaithInv'
  <2>1. VarTypes' /\ OthersStay(p)
    BY <1>1, MovesTyped DEF TypedStep
  <2>2. FilesFit'
    BY <1>1, <2>1, FilesStayFit DEF Moves, FaithInv, OthersStay
  <2>3. ReadsFit(p)'
    BY <1>1, FillFits, OtherFits DEF Moves, Step, FaithInv
  <2>4. ASSUME NEW q \in Processes \ {p} PROVE ReadsFit(q)'
    BY <2>1, ReadsStay DEF FaithInv, OthersStay
  <2> QED
    BY <2>1, <2>2, <2>3, <2>4 DEF FaithInv
<1>2. CASE UNCHANGED vars
  <2>1. UNCHANGED Config /\ VarTypes' /\ FilesFit'
    BY <1>2, FixedWishes DEF vars, Config, FaithInv, VarTypes, FilesFit, Holds
  <2>2. ASSUME NEW q \in Processes PROVE ReadsFit(q)'
    BY <1>2, <2>1, ReadsStay DEF vars, FaithInv
  <2> QED
    BY <2>1, <2>2 DEF FaithInv
<1> QED
  BY <1>1, <1>2 DEF Next, Moves

(* FaithInv holds initially ...                                            *)
LEMMA FaithStarts == Init => FaithInv
<1> SUFFICES ASSUME Init PROVE FaithInv
  OBVIOUS
<1>1. <<>> \in Seq(Requests) /\ Len(<<>>) = 0
  BY EmptySeq
<1>2. VarTypes
  BY <1>1 DEF Init, VarTypes, Unseen
<1>3. FilesFit
  BY DEF Init, FilesFit, Holds, NoFile
<1>4. ASSUME NEW p \in Processes PROVE ReadsFit(p)
  BY <1>1 DEF Init, ReadsFit, AtReads
<1> QED
  BY <1>2, <1>3, <1>4 DEF FaithInv

(* ... and in every state.                                                 *)
LEMMA FaithAlways == Spec => []FaithInv
BY FaithStarts, FaithKept, PTL DEF Spec

(* Every process is at a step of the constructor with the data that step   *)
(* uses, every register has a length and a known type, and the files are   *)
(* of known kinds (addCatalogueEntry, saveCatalogue).                      *)
THEOREM StartTypes == Spec => []StartTypeOK
<1>1. FaithInv => StartTypeOK
  <2> SUFFICES ASSUME FaithInv PROVE StartTypeOK
    OBVIOUS
  <2>1. VarTypes /\ FilesFit /\ \A p \in Processes : ReadsFit(p)
    BY DEF FaithInv
  <2>2. ASSUME NEW p \in Processes, NEW e \in cat[p]
        PROVE  e.length \in Nat \ {0} /\ Known(e.type)
    <3>1. PICK r \in Usable : e \in RegistersOf(r)
      BY <2>1 DEF ReadsFit, AllRegisters
    <3>2. e.length = ArrayLength(r) /\ e.type = Attr[r.node].type
      BY <3>1 DEF RegistersOf, Register
    <3> QED
      BY <2>1, <3>2, UsableLength
  <2>3. ASSUME NEW p \in Processes, pc[p] \in AtReads
        PROVE  todo[p] # <<>> /\ Current(p).node \in Variables
    BY <2>1, <2>3 DEF ReadsFit, HasType
  <2> QED
    BY <2>1, <2>2, <2>3 DEF VarTypes, FilesFit, AtReads, StartTypeOK
<1> QED
  BY <1>1, FaithAlways, PTL

(* A backend that is ready has only registers as the server and the map    *)
(* file say them, whether it read the server itself or the cache file of   *)
(* another process, and whatever request was refused in between            *)
(* (addCatalogueEntry, addRegInfoXmlNode, parseRegister).                  *)
THEOREM CatalogueAlwaysFaithful == Spec => []CatalogueFaithful
<1>1. FaithInv => CatalogueFaithful
  BY DEF FaithInv, ReadsFit, CatalogueFaithful
<1> QED
  BY <1>1, FaithAlways, PTL

(***************************************************************************)
(* Whether a catalogue is complete.  FullInv says of every usable variable *)
(* that it is in the catalogue or still ahead of the process.              *)
(***************************************************************************)
Undisturbed == ~refused /\ ~RepeatedName
Going == AtReads \cup {"next"}

Had(p, r) == \E e \in cat[p] : e.name = LocalName(r)

(* Reading the request q gets to the request r.                            *)
Leads(q, r) == \/ q = r
               \/ /\ ~mapFile.use /\ q.node \in Objects
                  /\ r.node \in Reachable(q.node)
Ahead(s, r) == \E i \in 1 .. Len(s) : Leads(s[i], r)

(* The lines of the map file not yet done are its last ones, and the       *)
(* registers come from the others.                                         *)
Done(p) == Len(mapFile.lines) - Len(todo[p])
LinesLeft(p) ==
  /\ Done(p) >= 0
  /\ \A i \in 1 .. Len(todo[p]) : todo[p][i] = mapFile.lines[Done(p) + i]
  /\ \A e \in cat[p] : \E j \in 1 .. Done(p) :
       mapFile.lines[j] \in Usable /\ e.name = LocalName(mapFile.lines[j])

(* A whole file is complete, and not empty if a map file was used.         *)
Full(f) == f.kind = "whole" =>
             /\ mapFile.use => f.registers # {}
             /\ Undisturbed => \A r \in Usable :
                                 \E x \in f.registers : x.name = LocalName(r)

CatalogueFull(p) ==
  /\ pc[p] \in {"off", "read", "connect", "fill"} => cat[p] = {}
  /\ mapFile.use /\ pc[p] \in Going => LinesLeft(p)
  /\ Undisturbed /\ pc[p] \in Going =>
       \A r \in Usable : Had(p, r) \/ Ahead(todo[p], r)
  /\ Undisturbed /\ pc[p] \in {"open", "write", "rename", "ready"} =>
       \A r \in Usable : Had(p, r)
  /\ mapFile.use /\ pc[p] \in {"open", "write"} => cat[p] # {}
DeathFit(p) == pc[p] = "died" => refused \/ Usable = {} \/ mapFile.blank

FullInv ==
  /\ FaithInv /\ Full(cache)
  /\ \A p \in Processes : CatalogueFull(p) /\ DeathFit(p) /\ Full(tmp[p])

-----------------------------------------------------------------------------
(* What can be reached from an object that another one reaches can be      *)
(* reached from that one, too.                                             *)
LEMMA ReachableTransitive ==
  ASSUME NEW o \in Objects, NEW q \in Objects, q \in Reachable(o)
  PROVE  Reachable(q) \subseteq Reachable(o)
<1>1. ClosedFrom(Reachable(o), q)
  BY ReachableClosed DEF ClosedFrom
<1>2. Reachable(o) \in SUBSET Nodes
  BY ReachableNodes
<1> QED
  BY <1>1, <1>2 DEF Reachable

(* A variable that can be reached from an object is one it refers to, or   *)
(* can be reached from an object it refers to.                             *)
LEMMA ReachableByReference ==
  ASSUME NEW o \in Objects, NEW v \in Reachable(o), v \in Variables
  PROVE  \E i \in 1 .. Len(Refs[o]) :
           \/ Refs[o][i] = v
           \/ Refs[o][i] \in Objects /\ v \in Reachable(Refs[o][i])
<1> DEFINE Via(n) == \E i \in 1 .. Len(Refs[o]) :
                       \/ Refs[o][i] = n
                       \/ Refs[o][i] \in Objects /\ n \in Reachable(Refs[o][i])
           S == {n \in Nodes : n = o \/ Via(n)}
<1>1. \A p \in Objects : DOMAIN Refs[p] = 1 .. Len(Refs[p])
                         /\ \A i \in 1 .. Len(Refs[p]) : Refs[p][i] \in Nodes
  BY ServerAssumption, LenProperties, ElementOfSeq
<1>2. ASSUME NEW p \in S \cap Objects, NEW i \in DOMAIN Refs[p]
      PROVE  Refs[p][i] \in S
  <2>1. Refs[p][i] \in Nodes /\ i \in 1 .. Len(Refs[p])
    BY <1>1
  <2>2. CASE p = o
    BY <2>1, <2>2
  <2>3. CASE p # o
    <3>1. PICK k \in 1 .. Len(Refs[o]) :
            \/ Refs[o][k] = p
            \/ Refs[o][k] \in Objects /\ p \in Reachable(Refs[o][k])
      BY <2>3
    <3>2. Refs[o][k] \in Objects /\ p \in Reachable(Refs[o][k])
      BY <3>1, ReachableSelf DEF Nodes
    <3>3. Refs[p][i] \in Reachable(Refs[o][k])
      BY <3>2, ReachableClosed
    <3> QED
      BY <2>1, <3>2, <3>3
  <2> QED
    BY <2>2, <2>3
<1>3. ClosedFrom(S, o)
  BY <1>2 DEF ClosedFrom, Nodes
<1>4. v \in S
  BY <1>3 DEF Reachable
<1>5. v # o
  BY ServerAssumption
<1> QED
  BY <1>4, <1>5

(* While the server is browsed, a request that leads to a usable variable  *)
(* may be replaced by what its object refers to.                           *)
LEMMA ReferencesLead ==
  ASSUME VarTypes, ~mapFile.use, NEW q, q.node \in Objects,
         NEW r \in Usable, Leads(q, r)
  PROVE  Ahead(References(q.node), r)
<1>1. /\ r = Request(r.node, NoName, NoRange) /\ r.node \in Variables
      /\ r.node \in Nodes
  BY AskedRequests DEF Usable, HasType, Nodes
<1>2. r.node \in Reachable(q.node)
  BY <1>1, ServerAssumption DEF Leads
<1>3. PICK i \in 1 .. Len(Refs[q.node]) :
        \/ Refs[q.node][i] = r.node
        \/ /\ Refs[q.node][i] \in Objects
           /\ r.node \in Reachable(Refs[q.node][i])
  BY <1>1, <1>2, ReachableByReference
<1>4. /\ i \in 1 .. Len(References(q.node))
      /\ References(q.node)[i] = Request(Refs[q.node][i], NoName, NoRange)
  BY ReferencesRequests
<1>5. Leads(References(q.node)[i], r)
  BY <1>1, <1>3, <1>4 DEF Leads, Request
<1> QED
  BY <1>4, <1>5 DEF Ahead

(* What is ahead in a part of todo is ahead in the whole.                  *)
LEMMA AheadInConcat ==
  ASSUME NEW s \in Seq(Requests), NEW t \in Seq(Requests), NEW r,
         Ahead(s, r) \/ Ahead(t, r)
  PROVE  Ahead(s \o t, r)
<1>1. /\ Len(s) \in Nat /\ Len(t) \in Nat /\ Len(s \o t) = Len(s) + Len(t)
      /\ \A i \in 1 .. Len(s) + Len(t) :
           (s \o t)[i] = IF i <= Len(s) THEN s[i] ELSE t[i - Len(s)]
  BY ConcatProperties, LenProperties
<1>2. CASE Ahead(s, r)
  <2>1. PICK i \in 1 .. Len(s) : Leads(s[i], r)
    BY <1>2 DEF Ahead
  <2>2. i \in 1 .. Len(s \o t) /\ (s \o t)[i] = s[i]
    BY <1>1
  <2> QED
    BY <2>1, <2>2 DEF Ahead
<1>3. CASE Ahead(t, r)
  <2>1. PICK i \in 1 .. Len(t) : Leads(t[i], r)
    BY <1>3 DEF Ahead
  <2>2. /\ Len(s) + i \in 1 .. Len(s \o t) /\ ~(Len(s) + i <= Len(s))
        /\ (Len(s) + i) - Len(s) = i
    BY <1>1
  <2>3. (s \o t)[Len(s) + i] = t[i]
    BY <1>1, <2>2
  <2> QED
    BY <2>1, <2>2, <2>3 DEF Ahead
<1> QED
  BY <1>2, <1>3

(* What is ahead comes with the first request or with the rest.            *)
LEMMA AheadInTail ==
  ASSUME NEW s \in Seq(Requests), s # <<>>, NEW r, Ahead(s, r)
  PROVE  Leads(Head(s), r) \/ Ahead(Tail(s), r)
<1>1. PICK i \in 1 .. Len(s) : Leads(s[i], r)
  BY DEF Ahead
<1>2. CASE i = 1
  BY <1>1, <1>2, TodoPlaces
<1>3. CASE i # 1
  BY <1>1, <1>3, TodoPlaces DEF Ahead
<1> QED
  BY <1>2, <1>3

-----------------------------------------------------------------------------
(* A request that was refused is not forgotten.                            *)
LEMMA RefusedGrows ==
  ASSUME FaithInv, NEW p \in Processes, Moves(p)
  PROVE  /\ refused => refused'
         /\ UNCHANGED Config
         /\ Undisturbed' => Undisturbed
<1>1. refused => refused'
  <2>1. CASE Browse(p)
    BY <2>1 DEF Browse
  <2>2. CASE ReadDescription(p)
    BY <2>2 DEF ReadDescription
  <2>3. CASE ReadDataType(p) \/ ReadValue(p) \/ ReadAccessLevel(p)
    BY <2>3 DEF ReadDataType, ReadValue, ReadAccessLevel, LeaveOut
  <2>4. CASE \/ Start(p) \/ ReadCatalogue(p) \/ Connect(p)
             \/ FillCatalogue(p) \/ PassOver(p) \/ Filled(p) \/ SaveOpen(p)
             \/ SaveWrite(p) \/ SaveRename(p) \/ Leave(p)
    BY <2>4 DEF Start, ReadCatalogue, Connect, FillCatalogue, PassOver, Filled,
                SaveOpen, SaveWrite, SaveRename, Leave
  <2> QED
    BY <2>1, <2>2, <2>3, <2>4 DEF Moves, Step
<1>2. UNCHANGED Config
  BY MovesTyped DEF TypedStep, OthersStay
<1> QED
  BY <1>1, <1>2, FixedWishes DEF Undisturbed, Config

(* A process that does not move keeps what it has.                         *)
LEMMA CatalogueStays ==
  ASSUME UNCHANGED Config, Undisturbed' => Undisturbed, NEW q,
         CatalogueFull(q), pc'[q] = pc[q], todo'[q] = todo[q],
         cat'[q] = cat[q]
  PROVE  CatalogueFull(q)'
<1>1. UNCHANGED mapFile /\ Usable' = Usable
  BY FixedWishes DEF Config
<1>2. \A r : /\ Had(q, r)' <=> Had(q, r)
             /\ Ahead(todo[q], r)' <=> Ahead(todo[q], r)
  BY <1>1 DEF Had, Ahead, Leads, LocalName
<1>3. LinesLeft(q)' <=> LinesLeft(q)
  BY <1>1 DEF LinesLeft, Done, LocalName
<1> QED
  BY <1>1, <1>2, <1>3 DEF CatalogueFull

(* A line of the map file is done: the registers still come from the lines *)
(* that are done.                                                          *)
LEMMA LinesSkip ==
  ASSUME VarTypes, mapFile.use, UNCHANGED mapFile, NEW p \in Processes,
         LinesLeft(p), todo[p] # <<>>, todo'[p] = Tail(todo[p]),
         \A e \in cat'[p] :
           \/ e \in cat[p]
           \/ Current(p) \in Usable /\ e.name = LocalName(Current(p))
  PROVE  LinesLeft(p)'
<1>1. /\ todo[p] \in Seq(Requests) /\ mapFile.lines \in Seq(Requests)
      /\ Usable' = Usable
  BY MapAssumption, FixedWishes DEF VarTypes, NoMap
<1>2. /\ Len(mapFile.lines) \in Nat /\ Len(todo[p]) \in Nat
      /\ Len(Tail(todo[p])) = Len(todo[p]) - 1
  BY <1>1, LenProperties, TodoPlaces
<1>3. Done(p)' = Done(p) + 1 /\ Done(p) \in Int /\ Done(p) >= 0
  <2>1. Done(p)' = Len(mapFile.lines) - (Len(todo[p]) - 1)
    BY <1>2 DEF Done
  <2>2. Done(p) = Len(mapFile.lines) - Len(todo[p])
    BY DEF Done
  <2>3. Done(p) >= 0
    BY DEF LinesLeft
  <2> QED
    BY <1>2, <2>1, <2>2, <2>3
<1>4. ASSUME NEW i \in 1 .. Len(todo'[p])
      PROVE  todo'[p][i] = mapFile.lines[Done(p)' + i]
  <2>1. /\ todo'[p][i] = todo[p][i + 1] /\ i + 1 \in 1 .. Len(todo[p])
    BY <1>1, TodoPlaces
  <2>2. todo[p][i + 1] = mapFile.lines[Done(p) + (i + 1)]
    BY <2>1 DEF LinesLeft
  <2>3. Done(p) + (i + 1) = Done(p)' + i
    BY <1>3, <1>2
  <2> QED
    BY <2>1, <2>2, <2>3
<1>5. ASSUME NEW e \in cat'[p]
      PROVE  \E j \in 1 .. Done(p)' : /\ mapFile.lines[j] \in Usable
                                     /\ e.name = LocalName(mapFile.lines[j])
  <2>1. CASE e \in cat[p]
    BY <1>3, <2>1 DEF LinesLeft
  <2>2. CASE Current(p) \in Usable /\ e.name = LocalName(Current(p))
    <3>1. Current(p) = todo[p][1] /\ 1 \in 1 .. Len(todo[p])
      BY <1>1, TodoPlaces DEF Current
    <3>2. Current(p) = mapFile.lines[Done(p) + 1]
      BY <3>1 DEF LinesLeft
    <3>3. Done(p) + 1 \in 1 .. Done(p)'
      BY <1>3
    <3> QED
      BY <2>2, <3>2, <3>3
  <2> QED
    BY <2>1, <2>2
<1> QED
  BY <1>1, <1>3, <1>4, <1>5 DEF LinesLeft, LocalName

(* A node is done that leads to no usable variable, or to one the          *)
(* catalogue now has: nothing usable is lost.                              *)
LEMMA SkipFull ==
  ASSUME VarTypes, NEW p \in Processes, CatalogueFull(p), pc[p] \in Going,
         UNCHANGED Config, Undisturbed' => Undisturbed,
         todo[p] # <<>>, todo'[p] = Tail(todo[p]), pc'[p] = "next",
         cat[p] \subseteq cat'[p],
         \A e \in cat'[p] :
           \/ e \in cat[p]
           \/ Current(p) \in Usable /\ e.name = LocalName(Current(p)),
         Undisturbed' => \A r \in Usable : Leads(Current(p), r) => Had(p, r)'
  PROVE  CatalogueFull(p)'
<1>1. /\ UNCHANGED mapFile /\ Usable' = Usable /\ todo[p] \in Seq(Requests)
      /\ pc'[p] \in Going
  BY FixedWishes DEF Config, VarTypes, Going
<1>2. mapFile.use => LinesLeft(p)'
  BY <1>1, LinesSkip DEF CatalogueFull
<1>3. ASSUME Undisturbed', NEW r \in Usable
      PROVE  Had(p, r)' \/ Ahead(todo[p], r)'
  <2>1. Had(p, r) \/ Ahead(todo[p], r)
    BY <1>3 DEF CatalogueFull
  <2>2. CASE Had(p, r)
    BY <1>1, <2>2 DEF Had, LocalName
  <2>3. CASE Ahead(todo[p], r)
    <3>1. Leads(Current(p), r) \/ Ahead(Tail(todo[p]), r)
      BY <1>1, <2>3, AheadInTail DEF Current
    <3>2. CASE Ahead(Tail(todo[p]), r)
      BY <1>1, <3>2 DEF Ahead, Leads
    <3> QED
      BY <1>3, <3>1, <3>2
  <2> QED
    BY <2>1, <2>2, <2>3
<1> QED
  BY <1>1, <1>2, <1>3 DEF CatalogueFull

-----------------------------------------------------------------------------
(* At the start everything usable is ahead.                                *)
LEMMA FillStartsFull ==
  ASSUME FullInv, NEW p \in Processes, FillCatalogue(p)
  PROVE  CatalogueFull(p)'
<1>0. CASE pc'[p] = "died"
  BY <1>0 DEF CatalogueFull, Going, AtReads
<1> SUFFICES ASSUME pc'[p] # "died" PROVE CatalogueFull(p)'
  BY <1>0
<1>1. /\ VarTypes /\ pc[p] = "fill" /\ pc'[p] = "next" /\ UNCHANGED <<Config, cat>>
      /\ cat[p] = {}
      /\ todo'[p] = IF mapFile.use THEN mapFile.lines
                    ELSE <<Request(Root, NoName, NoRange)>>
  BY DEF FillCatalogue, Goto, FullInv, FaithInv, VarTypes, CatalogueFull
<1>2. UNCHANGED mapFile /\ Usable' = Usable
  BY <1>1, FixedWishes DEF Config
<1>3. CASE mapFile.use
  <2>1. mapFile.lines \in Seq(Requests) /\ todo'[p] = mapFile.lines
    BY <1>1, <1>3, MapAssumption DEF VarTypes, NoMap
  <2>2. Len(mapFile.lines) \in Nat /\ DOMAIN mapFile.lines = 1 .. Len(mapFile.lines)
    BY <2>1, LenProperties
  <2>3. LinesLeft(p)'
    <3>1. Done(p)' = 0
      BY <1>2, <2>1, <2>2 DEF Done
    <3>2. \A i \in 1 .. Len(mapFile.lines) : 0 + i = i
      BY <2>2
    <3> QED
      BY <1>1, <1>2, <2>1, <3>1, <3>2 DEF LinesLeft
  <2>4. ASSUME NEW r \in Usable PROVE Ahead(todo[p], r)'
    <3>1. PICK i \in 1 .. Len(mapFile.lines) : r = mapFile.lines[i]
      BY <1>3, <2>2 DEF Usable, Wanted
    <3> QED
      BY <2>1, <3>1 DEF Ahead, Leads
  <2> QED
    BY <1>1, <1>2, <2>3, <2>4 DEF CatalogueFull
<1>4. CASE ~mapFile.use
  <2>1. todo'[p] = <<Request(Root, NoName, NoRange)>>
    BY <1>1, <1>4
  <2>2. ASSUME NEW r \in Usable PROVE Ahead(todo[p], r)'
    <3>1. r.node \in Reachable(Root)
      BY <1>1, <1>4, AskedRequests DEF Usable, FromRoot
    <3>2. Request(Root, NoName, NoRange).node = Root /\ Root \in Objects
      BY ServerAssumption DEF Request
    <3>3. 1 \in 1 .. Len(todo'[p]) /\ todo'[p][1] = Request(Root, NoName, NoRange)
      BY <2>1
    <3>4. Leads(Request(Root, NoName, NoRange), r)'
      BY <1>2, <1>4, <3>1, <3>2 DEF Leads
    <3> QED
      BY <3>3, <3>4 DEF Ahead
  <2> QED
    BY <1>1, <1>2, <1>4, <2>2 DEF CatalogueFull
<1> QED
  BY <1>3, <1>4

(* An object that answers in full is replaced by what it refers to.        *)
LEMMA BrowseFull ==
  ASSUME FullInv, NEW p \in Processes, Browse(p)
  PROVE  CatalogueFull(p)'
<1>1. /\ VarTypes /\ pc[p] = "next" /\ UNCHANGED <<Config, pc, cat>>
      /\ todo[p] \in Seq(Requests) /\ todo[p] # <<>> /\ ~mapFile.use
      /\ Current(p).node \in Objects /\ Current(p) = Head(todo[p])
      /\ CatalogueFull(p)
  BY DEF Browse, AtObject, Current, FullInv, FaithInv, VarTypes
<1>2. UNCHANGED mapFile /\ Usable' = Usable /\ (Undisturbed' => Undisturbed)
  BY <1>1, FixedWishes, RefusedGrows DEF Config, Moves, Step, FullInv
<1>4. PICK k \in 0 .. Len(Refs[Current(p).node]) :
        /\ todo' = [todo EXCEPT ![p] = Answered(p, k) \o Tail(@)]
        /\ refused' = (refused \/ k < Len(Refs[Current(p).node]))
  BY DEF Browse
<1>3. ASSUME Undisturbed', NEW r \in Usable
      PROVE  Had(p, r)' \/ Ahead(todo[p], r)'
  <2>1. ~(k < Len(Refs[Current(p).node]))
    BY <1>3, <1>4 DEF Undisturbed
  <2>2. todo'[p] = References(Current(p).node) \o Tail(todo[p])
    BY <1>1, <1>4, <2>1, AnsweredRequests DEF VarTypes
  <2>3. /\ References(Current(p).node) \in Seq(Requests)
        /\ Tail(todo[p]) \in Seq(Requests)
    BY <1>1, ReferencesRequests, TodoPlaces
  <2>4. Had(p, r) \/ Ahead(todo[p], r)
    BY <1>1, <1>2, <1>3 DEF CatalogueFull, Going
  <2>5. CASE Had(p, r)
    BY <1>1, <1>2, <2>5 DEF Had, LocalName
  <2>6. CASE Ahead(todo[p], r)
    <3>1. Ahead(References(Current(p).node), r) \/ Ahead(Tail(todo[p]), r)
      BY <1>1, <2>6, AheadInTail, ReferencesLead
    <3>2. Ahead(References(Current(p).node) \o Tail(todo[p]), r)
      BY <2>3, <3>1, AheadInConcat
    <3> QED
      BY <1>2, <2>2, <3>2 DEF Ahead, Leads
  <2> QED
    BY <2>4, <2>5, <2>6
<1> QED
  BY <1>1, <1>2, <1>3 DEF CatalogueFull

(* A node that is passed over or fails a check leads to nothing usable.    *)
LEMMA UnusableLeads ==
  ASSUME VarTypes, NEW p \in Processes, Current(p) \notin Usable,
         mapFile.use \/ Current(p).node \notin Objects, NEW r \in Usable
  PROVE  ~Leads(Current(p), r)
BY DEF Leads

(* Passing over an unusable node loses no register.                        *)
LEMMA PassOverFull ==
  ASSUME FullInv, NEW p \in Processes, PassOver(p)
  PROVE  CatalogueFull(p)'
<1>1. /\ VarTypes /\ pc[p] = "next" /\ UNCHANGED <<Config, pc, cat, refused>>
      /\ todo[p] # <<>> /\ ~mapFile.use /\ todo'[p] = Tail(todo[p])
      /\ Current(p).node \in Variables /\ Current(p).node.numeric
      /\ CatalogueFull(p)
  BY DEF PassOver, AtNumeric, FullInv, FaithInv, VarTypes
<1>2. Undisturbed' => Undisturbed
  BY <1>1, FixedWishes DEF Config, Undisturbed
<1>3. Current(p) \notin Usable
  BY <1>1 DEF Usable, Wanted, Request
<1>4. Current(p).node \notin Objects
  BY <1>1, ServerAssumption
<1>5. \A r \in Usable : ~Leads(Current(p), r)
  BY <1>1, <1>3, <1>4, UnusableLeads
<1>6. pc[p] \in Going
  BY <1>1 DEF Going
<1> QED
  BY <1>1, <1>2, <1>5, <1>6, SkipFull

(* The first three reads: nothing usable is left out while all answer.     *)
LEMMA ReadsFull ==
  ASSUME FullInv, NEW p \in Processes,
         ReadDataType(p) \/ ReadDescription(p) \/ ReadValue(p)
  PROVE  CatalogueFull(p)'
<1>1. /\ VarTypes /\ CatalogueFull(p) /\ ReadsFit(p) /\ UNCHANGED <<Config, cat>>
  BY DEF ReadDataType, ReadDescription, ReadValue, FullInv, FaithInv
<1>2. /\ pc[p] \in Going /\ todo[p] # <<>>
      /\ mapFile.use \/ Current(p).node \notin Objects
  <2>1. CASE ReadDataType(p)
    BY <2>1 DEF ReadDataType, AtEntry, AtObject, Going
  <2>2. CASE ReadDescription(p) \/ ReadValue(p)
    <3>1. pc[p] \in AtReads
      BY <2>2 DEF ReadDescription, ReadValue, AtReads
    <3>2. todo[p] # <<>> /\ Current(p).node \in Variables
      BY <1>1, <3>1 DEF ReadsFit, HasType
    <3> QED
      BY <3>1, <3>2, ServerAssumption DEF Going, AtReads
  <2> QED
    BY <2>1, <2>2
<1>3. Undisturbed' => Undisturbed
  BY RefusedGrows DEF Moves, Step, FullInv
<1>4. CASE Skip(p)
  <2>1. pc'[p] = "next" /\ todo'[p] = Tail(todo[p])
    BY <1>1, <1>4 DEF Skip, Goto, VarTypes
  <2>2. ASSUME Undisturbed', NEW r \in Usable, Leads(Current(p), r)
        PROVE  Had(p, r)'
    <3>1. refused' # TRUE
      BY <2>2 DEF Undisturbed
    <3>2. pc[p] \in {"next", "value"}
      <4>1. CASE ReadDescription(p)
        BY <1>1, <2>1, <4>1 DEF ReadDescription, Goto, VarTypes
      <4>2. CASE ReadDataType(p) \/ ReadValue(p)
        BY <4>2 DEF ReadDataType, AtEntry, ReadValue
      <4> QED
        BY <4>1, <4>2
    <3>3. ~HasType(Current(p).node) \/ ~HasLength(Current(p))
      <4>1. CASE ReadDataType(p)
        BY <1>1, <2>1, <3>1, <4>1 DEF ReadDataType, LeaveOut, Goto, VarTypes
      <4>2. CASE ReadValue(p)
        BY <1>1, <2>1, <3>1, <4>2 DEF ReadValue, LeaveOut, Goto, VarTypes
      <4>3. CASE ReadDescription(p)
        BY <3>2, <4>3 DEF ReadDescription
      <4> QED
        BY <4>1, <4>2, <4>3
    <3>4. Current(p) \notin Usable
      BY <3>3 DEF Usable
    <3> QED
      BY <1>1, <1>2, <2>2, <3>4, UnusableLeads
  <2> QED
    BY <1>1, <1>2, <1>3, <2>1, <2>2, SkipFull
<1>5. CASE ~Skip(p)
  <2>1. pc'[p] \in AtReads /\ UNCHANGED todo
    BY <1>1, <1>5 DEF ReadDataType, ReadDescription, ReadValue, LeaveOut, Goto,
                      VarTypes, AtReads
  <2>2. UNCHANGED mapFile /\ Usable' = Usable
    BY <1>1, FixedWishes DEF Config
  <2>3. \A r : /\ Had(p, r)' <=> Had(p, r)
               /\ Ahead(todo[p], r)' <=> Ahead(todo[p], r)
    BY <1>1, <2>1, <2>2 DEF Had, Ahead, Leads, LocalName
  <2>4. LinesLeft(p)' <=> LinesLeft(p)
    BY <1>1, <2>1, <2>2 DEF LinesLeft, Done, LocalName
  <2> QED
    BY <1>1, <1>2, <1>3, <2>1, <2>2, <2>3, <2>4 DEF CatalogueFull, Going,
                                                    AtReads
<1> QED
  BY <1>4, <1>5

(* Arithmetic: what is left of a number.                                   *)
LEMMA Difference ==
  ASSUME NEW m \in Nat, NEW n \in Nat
  PROVE  m - n \in Int /\ m - n <= m /\ (n >= 1 => m - n < m)
OBVIOUS

(* addRegister throws out of an XML map file only for a repeated name.     *)
LEMMA ThrowRepeats ==
  ASSUME VarTypes, NEW p \in Processes, mapFile.use, mapFile.xml, LinesLeft(p),
         Current(p) \in Usable, todo[p] # <<>>,
         NEW f \in cat[p], f.name = LocalName(Current(p))
  PROVE  RepeatedName
<1>1. todo[p] \in Seq(Requests) /\ mapFile.lines \in Seq(Requests)
  BY MapAssumption DEF VarTypes, NoMap
<1>2. Current(p) = todo[p][1] /\ 1 \in 1 .. Len(todo[p])
  BY <1>1, TodoPlaces DEF Current
<1>3. Current(p) = mapFile.lines[Done(p) + 1]
  BY <1>2 DEF LinesLeft
<1>4. PICK j \in 1 .. Done(p) : /\ mapFile.lines[j] \in Usable
                                /\ f.name = LocalName(mapFile.lines[j])
  BY DEF LinesLeft
<1>5. Len(mapFile.lines) \in Nat /\ Len(todo[p]) \in Nat
  BY <1>1, LenProperties
<1>7. Done(p) \in Int /\ Done(p) >= 0 /\ Done(p) < Len(mapFile.lines)
  <2>1. Done(p) >= 0
    BY DEF LinesLeft
  <2>2. Len(todo[p]) >= 1
    BY <1>2, <1>5
  <2> QED
    BY <2>1, <2>2, <1>5, Difference DEF Done
<1>8. /\ j \in DOMAIN mapFile.lines /\ Done(p) + 1 \in DOMAIN mapFile.lines
      /\ j # Done(p) + 1
  <2>1. DOMAIN mapFile.lines = 1 .. Len(mapFile.lines)
    BY <1>1, LenProperties
  <2>2. /\ j \in 1 .. Len(mapFile.lines) /\ j # Done(p) + 1
        /\ Done(p) + 1 \in 1 .. Len(mapFile.lines)
    BY <1>5, <1>7
  <2> QED
    BY <2>1, <2>2
<1> QED
  BY <1>3, <1>4, <1>8 DEF RepeatedName

(* The last read adds the register, unless its name is there already.      *)
LEMMA AccessFull ==
  ASSUME FullInv, NEW p \in Processes, ReadAccessLevel(p)
  PROVE  CatalogueFull(p)'
<1> DEFINE e == Register(Current(p), seen[p].length, seen[p].described,
                         Attr[Current(p).node].writable)
<1>1. /\ VarTypes /\ CatalogueFull(p) /\ ReadsFit(p)
      /\ pc[p] = "access" /\ UNCHANGED Config /\ pc[p] \in Going
  BY DEF ReadAccessLevel, FullInv, FaithInv, Going, AtReads
<1>2. todo[p] # <<>> /\ Current(p) \in Usable /\ Current(p).node \notin Objects
  BY <1>1, AddedRegister, UsableLength, ServerAssumption
<1>3. e.name = LocalName(Current(p))
  BY DEF Register
<1>4. UNCHANGED mapFile /\ (Undisturbed' => Undisturbed)
  BY <1>1, RefusedGrows DEF Config, Moves, Step, FullInv
<1>5. AddProperty(p, e) \/ (Skip(p) /\ UNCHANGED cat /\ refused' = TRUE)
  BY DEF ReadAccessLevel, AddCurrent, LeaveOut
<1> HIDE DEF e
<1>6. CASE Skip(p)
  <2>1. pc'[p] = "next" /\ todo'[p] = Tail(todo[p])
    BY <1>1, <1>6 DEF Skip, Goto, VarTypes
  <2>2. cat' = cat \/ cat' = [cat EXCEPT ![p] = @ \cup {e}]
    BY <1>5 DEF AddProperty
  <2>3. /\ cat[p] \subseteq cat'[p]
        /\ \A x \in cat'[p] : x \in cat[p] \/ x = e
    BY <1>1, <2>2 DEF VarTypes
  <2>4. ASSUME Undisturbed', NEW r \in Usable, Leads(Current(p), r)
        PROVE  Had(p, r)'
    <3>1. r = Current(p)
      BY <1>2, <2>4 DEF Leads
    <3>2. AddProperty(p, e)
      BY <1>5, <2>4 DEF Undisturbed
    <3>3. CASE ~Taken(p, e)
      <4>1. e \in cat'[p]
        BY <1>1, <3>2, <3>3 DEF AddProperty, VarTypes
      <4> QED
        BY <1>3, <1>4, <3>1, <4>1 DEF Had, LocalName
    <3>4. CASE Taken(p, e)
      <4>1. PICK f \in cat[p] : f.name = e.name
        BY <3>4 DEF Taken
      <4> QED
        BY <1>3, <1>4, <2>3, <3>1, <4>1 DEF Had, LocalName
    <3> QED
      BY <3>3, <3>4
  <2>5. \A x \in cat'[p] :
          \/ x \in cat[p]
          \/ Current(p) \in Usable /\ x.name = LocalName(Current(p))
    BY <1>2, <1>3, <2>3
  <2> QED
    BY <1>1, <1>2, <1>4, <2>1, <2>3, <2>4, <2>5, SkipFull
<1>7. CASE Throw(p) /\ Taken(p, e) /\ UNCHANGED cat
  <2>1. CASE pc'[p] = "failed"
    BY <2>1 DEF CatalogueFull, Going, AtReads
  <2>2. CASE /\ mapFile.use /\ mapFile.xml /\ pc'[p] = "next"
             /\ todo'[p] = <<>>
    <3>1. LinesLeft(p)
      BY <1>1, <2>2 DEF CatalogueFull
    <3>2. PICK f \in cat[p] : f.name = LocalName(Current(p))
      BY <1>3, <1>7 DEF Taken
    <3>3. RepeatedName
      BY <1>1, <1>2, <2>2, <3>1, <3>2, ThrowRepeats
    <3>4. ~Undisturbed'
      BY <1>4, <3>3 DEF Undisturbed
    <3>5. LinesLeft(p)'
      <4>1. /\ mapFile.lines \in Seq(Requests) /\ todo[p] \in Seq(Requests)
            /\ Usable' = Usable
        BY <1>1, <1>4, <2>2, MapAssumption, FixedWishes DEF VarTypes, NoMap
      <4>2. Len(mapFile.lines) \in Nat /\ Len(todo[p]) \in Nat
        BY <4>1, LenProperties
      <4>3. Done(p)' = Len(mapFile.lines)
        <5>1. Len(todo'[p]) = 0
          BY <2>2, EmptySeq
        <5> QED
          BY <1>4, <4>2, <5>1 DEF Done
      <4>5. 1 .. Done(p) \subseteq 1 .. Done(p)' /\ Done(p)' >= 0
        <5>1. Done(p) \in Int /\ Done(p) <= Len(mapFile.lines)
          BY <4>2, Difference DEF Done
        <5>2. \A j \in 1 .. Done(p) : j \in 1 .. Len(mapFile.lines)
          BY <4>2, <5>1
        <5> QED
          BY <4>2, <4>3, <5>2
      <4>6. \A i \in 1 .. Len(todo'[p]) : FALSE
        BY <2>2, EmptySeq
      <4>7. \A x \in cat'[p] : \E j \in 1 .. Done(p)' :
              /\ mapFile.lines[j] \in Usable
              /\ x.name = LocalName(mapFile.lines[j])
        BY <1>7, <3>1, <4>5 DEF LinesLeft
      <4> QED
        BY <1>4, <4>1, <4>5, <4>6, <4>7 DEF LinesLeft, LocalName
    <3> QED
      BY <2>2, <3>4, <3>5 DEF CatalogueFull
  <2> QED
    BY <1>1, <1>7, <2>1, <2>2 DEF Throw, Goto, VarTypes
<1> QED
  BY <1>5, <1>6, <1>7 DEF AddProperty

(* When no node is left, what is usable is in the catalogue.               *)
LEMMA FilledFull ==
  ASSUME FullInv, NEW p \in Processes, Filled(p)
  PROVE  CatalogueFull(p)'
<1>1. /\ VarTypes /\ CatalogueFull(p) /\ pc[p] = "next" /\ todo[p] = <<>>
      /\ UNCHANGED <<Config, todo, cat, refused>>
      /\ pc'[p] \in {"failed", "open", "ready"}
      /\ mapFile.use /\ pc'[p] # "failed" => cat[p] # {}
  BY DEF Filled, Filling, Goto, FullInv, FaithInv, VarTypes
<1>2. /\ UNCHANGED mapFile /\ Usable' = Usable /\ (Undisturbed' => Undisturbed)
  BY <1>1, FixedWishes DEF Config, Undisturbed
<1>3. \A r : ~Ahead(todo[p], r)
  BY <1>1, EmptySeq DEF Ahead
<1>4. Undisturbed' => \A r \in Usable : Had(p, r)
  BY <1>1, <1>2, <1>3 DEF CatalogueFull, Going
<1>5. \A r : Had(p, r)' <=> Had(p, r)
  BY <1>1, <1>2 DEF Had, LocalName
<1> QED
  BY <1>1, <1>2, <1>4, <1>5 DEF CatalogueFull, Going, AtReads

(* What is read from a full cache file is all that is usable.              *)
LEMMA ReadCatalogueFull ==
  ASSUME FullInv, NEW p \in Processes, ReadCatalogue(p)
  PROVE  CatalogueFull(p)'
<1>1. /\ VarTypes /\ CatalogueFull(p) /\ pc[p] = "read" /\ Full(cache)
      /\ cat[p] = {} /\ UNCHANGED <<Config, refused>>
  BY DEF ReadCatalogue, FullInv, FaithInv, CatalogueFull
<1>2. /\ UNCHANGED mapFile /\ Usable' = Usable /\ (Undisturbed' => Undisturbed)
  BY <1>1, FixedWishes DEF Config, Undisturbed
<1>3. CASE pc'[p] \in {"connect", "died"} /\ UNCHANGED cat
  BY <1>1, <1>3 DEF CatalogueFull, Going, AtReads
<1>4. CASE /\ pc'[p] = "ready" /\ cache.kind = "whole"
           /\ cat' = [cat EXCEPT ![p] =
                        {ParseRegister(x) : x \in cache.registers}]
  <2>1. ASSUME Undisturbed', NEW r \in Usable PROVE Had(p, r)'
    <3>1. PICK x \in cache.registers : x.name = LocalName(r)
      BY <1>1, <1>2, <1>4, <2>1 DEF Full
    <3>2. ParseRegister(x).name = x.name
      BY DEF ParseRegister
    <3>3. ParseRegister(x) \in cat'[p]
      BY <1>1, <1>4 DEF VarTypes
    <3> QED
      BY <1>2, <3>1, <3>2, <3>3 DEF Had, LocalName
  <2> QED
    BY <1>2, <1>4, <2>1 DEF CatalogueFull, Going, AtReads
<1> QED
  BY <1>1, <1>3, <1>4 DEF ReadCatalogue, Goto, VarTypes

(* The steps before and after the catalogue is filled leave it alone.      *)
LEMMA AroundFull ==
  ASSUME FullInv, NEW p \in Processes,
         \/ Start(p) \/ Connect(p) \/ SaveOpen(p) \/ SaveWrite(p)
         \/ SaveRename(p) \/ Leave(p)
  PROVE  CatalogueFull(p)'
<1>1. /\ VarTypes /\ CatalogueFull(p) /\ UNCHANGED <<Config, refused>>
  BY DEF Start, Connect, SaveOpen, SaveWrite, SaveRename, Leave, FullInv,
         FaithInv
<1>2. /\ UNCHANGED mapFile /\ Usable' = Usable /\ (Undisturbed' => Undisturbed)
  BY <1>1, FixedWishes DEF Config, Undisturbed
<1>3. CASE Start(p) \/ Connect(p)
  <2>1. pc'[p] \in {"read", "connect", "fill", "failed"} /\ cat' = cat
        /\ pc[p] \in {"off", "connect"}
    BY <1>1, <1>3 DEF Start, Connect, Goto, Filling, VarTypes
  <2> QED
    BY <1>1, <2>1 DEF CatalogueFull, Going, AtReads
<1>4. CASE Leave(p)
  <2>1. pc'[p] = "off" /\ cat'[p] = {}
    BY <1>1, <1>4 DEF Leave, Goto, VarTypes
  <2> QED
    BY <2>1 DEF CatalogueFull, Going, AtReads
<1>5. CASE SaveOpen(p) \/ SaveWrite(p) \/ SaveRename(p)
  <2>1. /\ pc[p] \in {"open", "write", "rename"} /\ cat' = cat
        /\ pc'[p] \in {"write", "rename", "ready", "failed"}
        /\ pc'[p] = "write" => pc[p] = "open"
    BY <1>1, <1>5 DEF SaveOpen, SaveWrite, SaveRename, Goto, Filling, VarTypes
  <2>2. \A r : Had(p, r)' <=> Had(p, r)
    BY <1>2, <2>1 DEF Had, LocalName
  <2> QED
    BY <1>1, <1>2, <2>1, <2>2 DEF CatalogueFull, Going, AtReads
<1> QED
  BY <1>3, <1>4, <1>5

-----------------------------------------------------------------------------
(* A file is full when it is renamed because the catalogue was when it was *)
(* written.                                                                *)
LEMMA FilesStayFull ==
  ASSUME FullInv, NEW p \in Processes, Moves(p)
  PROVE  Full(cache)' /\ \A q \in Processes : Full(tmp[q])'
<1>1. /\ VarTypes /\ OthersStay(p) /\ UNCHANGED Config
      /\ (Undisturbed' => Undisturbed) /\ Full(cache)
      /\ \A q \in Processes : Full(tmp[q])
  <2>1. FaithInv /\ Full(cache) /\ \A q \in Processes : Full(tmp[q])
    BY DEF FullInv
  <2>2. UNCHANGED Config /\ (Undisturbed' => Undisturbed)
    BY <2>1, RefusedGrows
  <2>3. VarTypes /\ OthersStay(p)
    BY <2>1, MovesTyped DEF TypedStep, FaithInv
  <2> QED
    BY <2>1, <2>2, <2>3
<1>3. ASSUME cache' = cache PROVE Full(cache)'
  BY <1>1, <1>3, FixedWishes DEF Full, Config, LocalName, NodeName
<1>4. ASSUME NEW q \in Processes, tmp'[q] = tmp[q] PROVE Full(tmp[q])'
  BY <1>1, <1>4, FixedWishes DEF Full, Config, LocalName, NodeName
<1>5. ASSUME NEW q \in Processes \ {p} PROVE Full(tmp[q])'
  BY <1>1, <1>4 DEF OthersStay
<1>6. \A f \in {NoFile, EmptyFile, CutFile} : f.kind # "whole"
  BY DEF NoFile, EmptyFile, CutFile
<1>7. CASE UNCHANGED <<cache, tmp>>
  BY <1>3, <1>4, <1>7
<1>8. CASE SaveOpen(p) \/ Leave(p)
  <2>1. cache' = cache /\ tmp'[p] \in {NoFile, EmptyFile}
    BY <1>1, <1>8 DEF SaveOpen, Leave, VarTypes
  <2> QED
    BY <1>3, <1>5, <1>6, <2>1 DEF Full
<1>9. CASE SaveWrite(p)
  <2> DEFINE w == WholeFile({AddRegInfoXmlNode(e) : e \in cat[p]})
  <2>1. /\ cache' = cache /\ pc[p] = "write" /\ CatalogueFull(p)
        /\ tmp'[p] \in {w, EmptyFile, CutFile}
    BY <1>1, <1>9 DEF SaveWrite, VarTypes, FullInv
  <2>2. mapFile.use => w.registers # {}
    BY <2>1 DEF WholeFile, CatalogueFull
  <2>3. ASSUME Undisturbed, NEW r \in Usable
        PROVE  \E x \in w.registers : x.name = LocalName(r)
    <3>1. PICK e \in cat[p] : e.name = LocalName(r)
      BY <2>1, <2>3 DEF CatalogueFull, Had
    <3>2. AddRegInfoXmlNode(e).name = e.name
      BY DEF AddRegInfoXmlNode
    <3>3. AddRegInfoXmlNode(e) \in w.registers
      BY DEF WholeFile
    <3> QED
      BY <3>1, <3>2, <3>3
  <2> HIDE DEF w
  <2>4. Full(w)
    BY <2>2, <2>3 DEF Full
  <2>5. Full(tmp'[p])
    BY <1>6, <2>1, <2>4 DEF Full
  <2>6. Full(tmp[p])'
    BY <1>1, <2>5, FixedWishes DEF Full, Config, LocalName, NodeName
  <2> QED
    BY <1>3, <1>5, <2>1, <2>6
<1>10. CASE SaveRename(p)
  <2>1. CASE UNCHANGED <<cache, tmp>>
    BY <1>7, <2>1
  <2>2. CASE cache' = tmp[p] /\ tmp' = [tmp EXCEPT ![p] = NoFile]
    <3>1. tmp'[p] = NoFile
      BY <1>1, <2>2 DEF VarTypes
    <3>2. Full(tmp[p])'
      BY <1>6, <3>1 DEF Full
    <3>3. Full(cache)'
      BY <1>1, <2>2, FixedWishes DEF Full, Config, LocalName, NodeName
    <3> QED
      BY <1>5, <3>2, <3>3
  <2> QED
    BY <1>10, <2>1, <2>2 DEF SaveRename, Files
<1>11. CASE Reading(p)
  BY <1>1, <1>7, <1>11, ReadingQuiet DEF Quiet, VarTypes
<1> QED
  BY <1>8, <1>9, <1>10, <1>11 DEF Moves, Step, Reading

(* A process dies of an empty <pv> or an empty cache file, and a full one  *)
(* is empty only after a refusal or for a server with nothing to offer.    *)
LEMMA DeathKept ==
  ASSUME FullInv, NEW p \in Processes, Moves(p), NEW q \in Processes
  PROVE  DeathFit(q)'
<1>1. /\ VarTypes /\ OthersStay(p) /\ (refused => refused') /\ Usable' = Usable
      /\ UNCHANGED mapFile /\ DeathFit(q) /\ Full(cache) /\ FilesFit
  <2>1. FaithInv /\ Full(cache) /\ DeathFit(q)
    BY DEF FullInv
  <2>2. UNCHANGED Config /\ (refused => refused')
    BY <2>1, RefusedGrows
  <2>3. VarTypes /\ OthersStay(p) /\ FilesFit
    BY <2>1, MovesTyped DEF TypedStep, FaithInv
  <2>4. Usable' = Usable /\ UNCHANGED mapFile
    BY <2>2, FixedWishes DEF Config
  <2> QED
    BY <2>1, <2>2, <2>3, <2>4
<1>2. CASE pc'[q] = pc[q]
  BY <1>1, <1>2 DEF DeathFit
<1>3. CASE q = p /\ ReadCatalogue(p) /\ pc'[p] = "died"
  <2>1. cache.kind = "whole" /\ cache.registers = {} /\ refused' = refused
    BY <1>1, <1>3 DEF ReadCatalogue, Goto, VarTypes
  <2>2. ~mapFile.use
    BY <1>1, <2>1 DEF Full
  <2>3. ~RepeatedName
    BY <2>2 DEF RepeatedName
  <2>4. refused \/ Usable = {}
    BY <1>1, <2>1, <2>3 DEF Full, Undisturbed
  <2> QED
    BY <1>1, <1>3, <2>1, <2>4 DEF DeathFit
<1>4. CASE q = p /\ pc'[p] # "died"
  BY <1>4 DEF DeathFit
<1>5. CASE mapFile.blank
  BY <1>1, <1>5 DEF DeathFit
<1>6. pc'[p] = "died" => pc[p] = "died" \/ ReadCatalogue(p) \/ mapFile.blank
  <2>1. CASE Browse(p) \/ PassOver(p)
    BY <2>1 DEF Browse, PassOver
  <2>2. CASE ReadAccessLevel(p)
    <3>1. \/ Skip(p) \/ Throw(p)
      BY <2>2 DEF ReadAccessLevel, AddCurrent, LeaveOut, AddProperty
    <3> QED
      BY <1>1, <3>1 DEF Skip, Throw, Goto, VarTypes
  <2>3. CASE \/ Start(p) \/ Connect(p) \/ FillCatalogue(p) \/ ReadDataType(p)
             \/ ReadDescription(p) \/ ReadValue(p) \/ Filled(p)
             \/ SaveOpen(p) \/ SaveWrite(p) \/ SaveRename(p) \/ Leave(p)
    BY <1>1, <2>3 DEF Start, Connect, FillCatalogue, ReadDataType, LeaveOut, Skip,
                      ReadDescription, ReadValue, Filled, SaveOpen, SaveWrite,
                      SaveRename, Leave, Goto, VarTypes
  <2> QED
    BY <2>1, <2>2, <2>3 DEF Moves, Step
<1> QED
  BY <1>1, <1>2, <1>3, <1>4, <1>5, <1>6 DEF OthersStay

-----------------------------------------------------------------------------
(* The whole invariant is kept by every step.                              *)
LEMMA FullKept ==
  ASSUME FullInv, [Next]_vars
  PROVE  FullInv'
<1>1. FaithInv'
  BY FaithKept DEF FullInv
<1>2. ASSUME NEW p \in Processes, Moves(p) PROVE FullInv'
  <2>1. /\ FaithInv /\ \A q \in Processes : CatalogueFull(q)
    BY DEF FullInv
  <2>2. /\ OthersStay(p) /\ UNCHANGED Config /\ (Undisturbed' => Undisturbed)
    BY <1>2, <2>1, RefusedGrows, MovesTyped DEF TypedStep
  <2>3. CatalogueFull(p)'
    BY <1>2, FillStartsFull, BrowseFull, PassOverFull, ReadsFull, AccessFull,
       FilledFull, ReadCatalogueFull, AroundFull DEF Moves, Step
  <2>4. ASSUME NEW q \in Processes \ {p} PROVE CatalogueFull(q)'
    BY <2>1, <2>2, CatalogueStays DEF OthersStay
  <2>5. ASSUME NEW q \in Processes
        PROVE  DeathFit(q)'
    BY <1>2, DeathKept
  <2>6. Full(cache)' /\ \A q \in Processes : Full(tmp[q])'
    BY <1>2, FilesStayFull
  <2> QED
    BY <1>1, <2>3, <2>4, <2>5, <2>6 DEF FullInv
<1>3. CASE UNCHANGED vars
  <2>1. UNCHANGED <<mapFile, Config, cache, tmp, pc, todo, cat, refused>>
    BY <1>3 DEF vars, Config
  <2>2. Undisturbed' = Undisturbed /\ Usable' = Usable
    BY <2>1, FixedWishes DEF Undisturbed
  <2>3. ASSUME NEW q \in Processes PROVE CatalogueFull(q)'
    BY <2>1, <2>2, CatalogueStays DEF FullInv
  <2>4. Full(cache)' /\ \A q \in Processes : Full(tmp[q])'
    BY <2>1, <2>2 DEF FullInv, Full, LocalName, NodeName
  <2>5. ASSUME NEW q \in Processes
        PROVE  DeathFit(q)'
    BY <2>1, <2>2 DEF FullInv, DeathFit
  <2> QED
    BY <1>1, <2>3, <2>4, <2>5 DEF FullInv
<1> QED
  BY <1>2, <1>3 DEF Next, Moves

(* FullInv holds initially ...                                             *)
LEMMA FullStarts == Init => FullInv
<1> SUFFICES ASSUME Init PROVE FullInv
  OBVIOUS
<1>1. FaithInv
  BY FaithStarts
<1>2. Full(cache) /\ \A p \in Processes : Full(tmp[p])
  BY DEF Init, Full, NoFile
<1>3. ASSUME NEW p \in Processes
      PROVE  CatalogueFull(p) /\ DeathFit(p)
  BY DEF Init, CatalogueFull, Going, AtReads, DeathFit
<1> QED
  BY <1>1, <1>2, <1>3 DEF FullInv

(* ... and in every state.                                                 *)
LEMMA FullAlways == Spec => []FullInv
BY FullStarts, FullKept, PTL DEF Spec

(* A backend that is ready has every register that can be had, also one    *)
(* that read the cache file of another process, if every request was       *)
(* answered in full and an XML map file repeats no name (browseRecursive,  *)
(* addCatalogueEntry, getNodesFromMapfile).                                *)
THEOREM CatalogueComplete == Spec => []CompleteIfAnswered
<1>1. FullInv => CompleteIfAnswered
  BY DEF FullInv, CatalogueFull, Had, Undisturbed, CompleteIfAnswered
<1> QED
  BY <1>1, FullAlways, PTL

(* Apart from a map file with an empty <pv> a process dies only of a cache *)
(* file without registers, and only after a request that was refused or    *)
(* answered in part or when the server has nothing to offer: neither a     *)
(* crash nor a failed connect nor a map file ever makes such a file        *)
(* (readCatalogue, saveCatalogue, getNodesFromMapfile).                    *)
THEOREM DeathAlwaysNeedsRefusal == Spec => []DeathNeedsRefusal
<1>1. FullInv => DeathNeedsRefusal
  BY DEF FullInv, DeathFit, DeathNeedsRefusal
<1> QED
  BY <1>1, FullAlways, PTL
=============================================================================
