--------------------------- MODULE CatalogueStart ---------------------------
(***************************************************************************)
(* How a backend gets its register catalogue: the constructor of           *)
(* OpcUABackend, which reads the cache file or else connects to the        *)
(* server, fills the catalogue by browsing or from a map file, and writes  *)
(* the cache file.  Several processes start a backend for the same device  *)
(* and share the cache file; each may crash at any step and start again,   *)
(* and every request one makes to the server may fail or, for a browse, be *)
(* answered in part: the connection is gone, the server refuses, it limits *)
(* the references of an answer.  The contents of the server do not change. *)
(***************************************************************************)
EXTENDS Integers, Sequences

CONSTANTS
  Processes,   \* processes that start a backend for the device
  Variables,   \* variable nodes of the server
  Objects,     \* object nodes of the server
  Root,        \* the object the browsing starts from
  Refs,        \* for each object the nodes it refers to, in order
  Attr,        \* for each variable its type, value shape and access
  MapFiles     \* the map files the device may be configured with

Nodes == Variables \cup Objects

(* A map file that is not there, and its absence from the configuration.   *)
NoMap == [use |-> FALSE, xml |-> FALSE, blank |-> FALSE, lines |-> <<>>]

NoName == <<>>       \* no name given: the name is derived from the node
NoRange == 0         \* no index range; n > 0 is a range of n elements
TwoDimensional == -1 \* an index range with more than one dimension

ClosedFrom(S, o) == /\ o \in S
                    /\ \A p \in S \cap Objects : \A i \in DOMAIN Refs[p] :
                         Refs[p][i] \in S

(* What can be reached from o: the smallest closed set.                    *)
Reachable(o) ==
  {n \in Nodes : \A S \in SUBSET Nodes : ClosedFrom(S, o) => n \in S}

FromRoot == Reachable(Root)

ASSUME ServerAssumption ==
  /\ Root \in Objects
  /\ Refs \in [Objects -> Seq(Nodes)]
  \* browseRecursive keeps no record of the nodes it has visited
  /\ \A o \in Objects : \A i \in DOMAIN Refs[o] :
       Refs[o][i] \in Objects => o \notin Reachable(Refs[o][i])
  /\ Variables \cap Objects = {}
  /\ \A n \in Nodes : n \in [numeric : BOOLEAN, ns : Nat, id : STRING]
  /\ \A v \in Variables : /\ Attr[v].type \in Nat
                          /\ Attr[v].scalar \in BOOLEAN
                          /\ Attr[v].length \in Nat
                          /\ Attr[v].writable \in BOOLEAN

(* What a line of a map file asks for; the node may be an object, too.     *)
Requests == [node : Nodes, name : Seq(STRING),
             range : Nat \cup {TwoDimensional}]

ASSUME MapAssumption ==
  \A f \in MapFiles : /\ f.use = TRUE /\ f.xml \in BOOLEAN
                      \* an XML file may have a <pv> without text
                      /\ f.blank \in BOOLEAN /\ (f.blank => f.xml)
                      /\ f.lines \in Seq(Requests)

-----------------------------------------------------------------------------
(* Files: absent, cut off (not well-formed; an empty file is one), or      *)
(* whole with one XML element per register.                                *)
NoFile == [kind |-> "none", registers |-> {}]
EmptyFile == [kind |-> "empty", registers |-> {}]
CutFile == [kind |-> "cut", registers |-> {}]
WholeFile(xs) == [kind |-> "whole", registers |-> xs]

(* Where a process is in the constructor.                                  *)
Steps == {"read", "connect", "fill", "next", "description", "value",
          "access", "open", "write", "rename"}
Ended == {"ready", "failed", "died"}

VARIABLES
  mapFile,   \* _mapfile: the map file all processes are configured with
  useCache,  \* the parameter cacheFile is not empty
  cache,     \* the cache file
  tmp,       \* per process its temporary file
  pc,        \* per process its place in the constructor, "off" if not running
  todo,      \* per process the nodes still to be read, the current one first
  seen,      \* per process what was read of the current node
  cat,       \* per process _catalogue_mutable
  refused,   \* history: the server has not answered, or not in full
  faulty     \* a write of a file or a rename has failed

vars == <<mapFile, useCache, cache, tmp, pc, todo, seen, cat, refused, faulty>>

(* One entry of todo: a node, with what the map file says of it.           *)
Request(n, name, range) == [node |-> n, name |-> name, range |-> range]

(* What the current node has answered so far.                              *)
Unseen == [described |-> FALSE, length |-> 0]

(* The name a node gets unless the map file names it.                      *)
NodeName(n) == IF n.numeric THEN <<"numeric", n.id>> ELSE <<n.id>>
LocalName(r) == IF r.name = NoName THEN NodeName(r.node) ELSE r.name

Register(r, length, described, writable) ==
  [node |-> r.node, name |-> LocalName(r), range |-> r.range,
   type |-> Attr[r.node].type, length |-> length,
   described |-> described, readonly |-> ~writable]

(* The <register> element of the cache file, and what is read from it.     *)
AddRegInfoXmlNode(e) ==
  [nodeId |-> e.node.id, nameSpace |-> e.node.ns,
   isNumeric |-> e.node.numeric, name |-> e.name, indexRange |-> e.range,
   typeId |-> e.type, length |-> e.length, description |-> e.described,
   readOnly |-> e.readonly]

ParseRegister(x) ==
  [node |-> [numeric |-> x.isNumeric, ns |-> x.nameSpace, id |-> x.nodeId],
   name |-> x.name, range |-> x.indexRange, type |-> x.typeId,
   length |-> x.length, described |-> x.description,
   readonly |-> x.readOnly]

-----------------------------------------------------------------------------
Init ==
  /\ mapFile \in MapFiles \cup {NoMap}
  /\ useCache \in BOOLEAN
  /\ cache = NoFile
  /\ tmp = [p \in Processes |-> NoFile]
  /\ pc = [p \in Processes |-> "off"]
  /\ todo = [p \in Processes |-> <<>>]
  /\ seen = [p \in Processes |-> Unseen]
  /\ cat = [p \in Processes |-> {}]
  /\ refused = FALSE
  /\ faulty = FALSE

Goto(p, s) == pc' = [pc EXCEPT ![p] = s]
Config == <<mapFile, useCache>>
Files == <<cache, tmp, faulty>>
Filling == <<todo, seen, cat>>

(* The process creates the backend.                                        *)
Start(p) ==
  /\ pc[p] = "off"
  /\ Goto(p, IF useCache THEN "read" ELSE "connect")
  /\ UNCHANGED <<Config, Files, Filling, refused>>

(* Cache::readCatalogue: a file that is absent or not well-formed is a     *)
(* logic_error, after which the server is used.  A file without registers  *)
(* has no text in <serverAddress>; its text node is dereferenced all the   *)
(* same and the process dies.                                              *)
ReadCatalogue(p) ==
  /\ pc[p] = "read"
  /\ \/ /\ cache.kind # "whole"
        /\ Goto(p, "connect")
        /\ UNCHANGED cat
     \/ /\ cache.kind = "whole" /\ cache.registers = {}
        /\ Goto(p, "died")
        /\ UNCHANGED cat
     \/ /\ cache.kind = "whole" /\ cache.registers # {}
        /\ Goto(p, "ready")
        /\ cat' = [cat EXCEPT ![p] = {ParseRegister(x) : x \in cache.registers}]
  /\ UNCHANGED <<Config, Files, todo, seen, refused>>

(* connect: a server that cannot be reached is a runtime_error, which      *)
(* leaves the constructor.                                                 *)
Connect(p) ==
  /\ pc[p] = "connect"
  /\ Goto(p, "fill") \/ Goto(p, "failed")
  /\ UNCHANGED <<Config, Files, Filling, refused>>

-----------------------------------------------------------------------------
(* fillCatalogue starts to browse, or getNodesFromMapfile to go through    *)
(* the lines of the map file: the XML reader and the reader of the old     *)
(* format both leave out the lines they cannot read.  The XML reader takes *)
(* the text of every <pv> before any line is used and dereferences null    *)
(* when there is none, which ends the process.                             *)
FillCatalogue(p) ==
  /\ pc[p] = "fill"
  /\ \/ /\ ~mapFile.blank
        /\ todo' = [todo EXCEPT ![p] =
                      IF mapFile.use THEN mapFile.lines
                      ELSE <<Request(Root, NoName, NoRange)>>]
        /\ Goto(p, "next")
     \/ /\ mapFile.blank
        /\ Goto(p, "died")
        /\ UNCHANGED todo
  /\ UNCHANGED <<Config, Files, seen, cat, refused>>

Current(p) == Head(todo[p])

(* While the server is browsed: at an object, at a variable whose          *)
(* identifier is no string; addCatalogueEntry is called for all others,    *)
(* and for every line of a map file.                                       *)
AtObject(p) == /\ pc[p] = "next" /\ todo[p] # <<>> /\ ~mapFile.use
               /\ Current(p).node \in Objects
AtNumeric(p) == /\ pc[p] = "next" /\ todo[p] # <<>> /\ ~mapFile.use
                /\ Current(p).node \in Variables /\ Current(p).node.numeric
AtEntry(p) == /\ pc[p] = "next" /\ todo[p] # <<>>
              /\ ~AtObject(p) /\ ~AtNumeric(p)

References(o) == [i \in DOMAIN Refs[o] |-> Request(Refs[o][i], NoName, NoRange)]

(* What the server answers of the references of an object: the first k.    *)
Answered(p, k) == SubSeq(References(Current(p).node), 1, k)

(* Mutations: an object that was answered in part is browsed again; a      *)
(* variable that is passed over, or has no type that is known, ends the    *)
(* loop.                                                                   *)
BrowseAgain(p) ==
  /\ AtObject(p)
  /\ \E k \in 0 .. Len(Refs[Current(p).node]) :
       LET all == k = Len(Refs[Current(p).node])
       IN  /\ todo' = [todo EXCEPT ![p] =
                         Answered(p, k) \o (IF all THEN Tail(@) ELSE @)]
           /\ refused' = (refused \/ ~all)
  /\ UNCHANGED <<Config, Files, pc, seen, cat>>

(* One call of browseRecursive: what the object refers to is read before   *)
(* the nodes after it.  Neither the status of the result nor its           *)
(* continuation point is looked at: a browse that failed has no            *)
(* references, one with more than fit an answer has the first ones.        *)
Browse(p) ==
  /\ AtObject(p)
  /\ \E k \in 0 .. Len(Refs[Current(p).node]) :
       /\ todo' = [todo EXCEPT ![p] = Answered(p, k) \o Tail(@)]
       /\ refused' = (refused \/ k < Len(Refs[Current(p).node]))
  /\ UNCHANGED <<Config, Files, pc, seen, cat>>

PassOverAll(p) ==
  /\ AtNumeric(p)
  /\ todo' = [todo EXCEPT ![p] = <<>>]
  /\ UNCHANGED <<Config, Files, pc, seen, cat, refused>>

(* browseRecursive takes no variable with a numeric identifier.            *)
PassOver(p) ==
  /\ AtNumeric(p)
  /\ todo' = [todo EXCEPT ![p] = Tail(@)]
  /\ UNCHANGED <<Config, Files, pc, seen, cat, refused>>

-----------------------------------------------------------------------------
(* addCatalogueEntry: four reads from the server, each of which may fail.  *)
(* Except for the description a failed read leaves out the variable.       *)
Known(t) == t \in 1 .. 12

(* Only variables have a data type.                                        *)
HasType(n) == n \in Variables /\ Known(Attr[n].type)

Skip(p) == /\ todo' = [todo EXCEPT ![p] = Tail(@)]
           /\ seen' = [seen EXCEPT ![p] = Unseen]
           /\ Goto(p, "next")

(* The server does not answer a read, and the variable is left out.        *)
LeaveOut(p) == Skip(p) /\ refused' = TRUE

ReadDataTypeOnce(p) ==
  /\ AtEntry(p)
  /\ \/ /\ HasType(Current(p).node)
        /\ Goto(p, "description")
        /\ UNCHANGED <<todo, seen, refused>>
     \/ /\ ~HasType(Current(p).node)
        /\ todo' = [todo EXCEPT ![p] = <<>>]
        /\ UNCHANGED <<pc, seen, refused>>
     \/ LeaveOut(p)
  /\ UNCHANGED <<Config, Files, cat>>

ReadDataType(p) ==
  /\ AtEntry(p)
  /\ \/ /\ HasType(Current(p).node)
        /\ Goto(p, "description")
        /\ UNCHANGED <<todo, seen, refused>>
     \/ /\ ~HasType(Current(p).node)
        /\ Skip(p)
        /\ UNCHANGED refused
     \/ LeaveOut(p)
  /\ UNCHANGED <<Config, Files, cat>>

ReadDescription(p) ==
  /\ pc[p] = "description"
  /\ \E good \in BOOLEAN :
       /\ seen' = [seen EXCEPT ![p].described = good]
       /\ refused' = (refused \/ ~good)
  /\ Goto(p, "value")
  /\ UNCHANGED <<Config, Files, todo, cat>>

(* Mutation of HasLength: an empty array is taken as well.                 *)
AnyLength(r) == Attr[r.node].scalar \/ r.range # TwoDimensional

(* The value gives the length; no length can be determined for an empty    *)
(* array and for a range of more than one dimension.                       *)
HasLength(r) == \/ Attr[r.node].scalar
                \/ Attr[r.node].length > 0 /\ r.range # TwoDimensional

ArrayLength(r) == IF Attr[r.node].scalar THEN 1
                  ELSE IF r.range = NoRange THEN Attr[r.node].length
                  ELSE r.range

ReadValue(p) ==
  /\ pc[p] = "value"
  /\ \/ /\ HasLength(Current(p))
        /\ seen' = [seen EXCEPT ![p].length = ArrayLength(Current(p))]
        /\ Goto(p, "access")
        /\ UNCHANGED <<todo, refused>>
     \/ /\ ~HasLength(Current(p))
        /\ Skip(p)
        /\ UNCHANGED refused
     \/ LeaveOut(p)
  /\ UNCHANGED <<Config, Files, cat>>

(* addRegister of the framework's catalogue throws, or skips the register, *)
(* when the name is taken: src/ holds only the call.                       *)
Taken(p, e) == \E f \in cat[p] : f.name = e.name

(* The exception leaves the constructor, except out of an XML map file:    *)
(* there it is caught and the file is read again in the old format, which  *)
(* finds nothing in it.                                                    *)
Throw(p) ==
  \/ /\ mapFile.use /\ mapFile.xml
     /\ todo' = [todo EXCEPT ![p] = <<>>]
     /\ seen' = [seen EXCEPT ![p] = Unseen]
     /\ Goto(p, "next")
  \/ /\ ~(mapFile.use /\ mapFile.xml)
     /\ Goto(p, "failed")
     /\ UNCHANGED <<todo, seen>>

AddProperty(p, e) ==
  \/ /\ ~Taken(p, e)
     /\ cat' = [cat EXCEPT ![p] = @ \cup {e}]
     /\ Skip(p)
  \/ /\ Taken(p, e)
     /\ \/ Skip(p)
        \/ Throw(p)
     /\ UNCHANGED cat

(* The register of the current node, with write access or without.         *)
AddCurrent(p, writable) ==
  AddProperty(p, Register(Current(p), seen[p].length, seen[p].described,
                          writable))

(* Mutation of ReadAccessLevel: its status is not looked at, accessLevel   *)
(* may be anything then.                                                   *)
ReadAccessUnchecked(p) ==
  /\ pc[p] = "access"
  /\ \/ /\ AddCurrent(p, Attr[Current(p).node].writable)
        /\ UNCHANGED refused
     \/ /\ \E w \in BOOLEAN : AddCurrent(p, w)
        /\ refused' = TRUE
  /\ UNCHANGED <<Config, Files>>

ReadAccessLevel(p) ==
  /\ pc[p] = "access"
  /\ \/ /\ AddCurrent(p, Attr[Current(p).node].writable)
        /\ UNCHANGED refused
     \/ /\ LeaveOut(p)
        /\ UNCHANGED cat
  /\ UNCHANGED <<Config, Files>>

(* All nodes are read.  From a map file at least one register is needed.   *)
Filled(p) ==
  /\ pc[p] = "next" /\ todo[p] = <<>>
  /\ Goto(p, IF mapFile.use /\ cat[p] = {} THEN "failed"
             ELSE IF useCache THEN "open" ELSE "ready")
  /\ UNCHANGED <<Config, Files, Filling, refused>>

-----------------------------------------------------------------------------
(* Mutation of SaveOpen and SaveWrite: the cache file itself is written.   *)
SaveInPlace(p) ==
  /\ pc[p] = "open"
  /\ cache' = EmptyFile
  /\ tmp' = [tmp EXCEPT ![p] = EmptyFile]
  /\ Goto(p, "write")
  /\ UNCHANGED <<Config, Filling, refused, faulty>>

(* saveCatalogue opens a temporary file of a name of its own ...           *)
SaveOpen(p) ==
  /\ pc[p] = "open"
  /\ tmp' = [tmp EXCEPT ![p] = EmptyFile]
  /\ Goto(p, "write")
  /\ UNCHANGED <<Config, Filling, cache, refused, faulty>>

(* ... writes and closes it; nobody looks at the state of the stream ...   *)
SaveWrite(p) ==
  /\ pc[p] = "write"
  /\ \/ /\ tmp' = [tmp EXCEPT ![p] =
                     WholeFile({AddRegInfoXmlNode(e) : e \in cat[p]})]
        /\ UNCHANGED faulty
     \/ /\ \E f \in {EmptyFile, CutFile} : tmp' = [tmp EXCEPT ![p] = f]
        /\ faulty' = TRUE
  /\ Goto(p, "rename")
  /\ UNCHANGED <<Config, Filling, cache, refused>>

(* ... and renames it to the cache file unless it is empty.                *)
SaveRename(p) ==
  /\ pc[p] = "rename"
  /\ \/ /\ tmp[p].kind # "empty"
        /\ cache' = tmp[p]
        /\ tmp' = [tmp EXCEPT ![p] = NoFile]
        /\ Goto(p, "ready")
        /\ UNCHANGED faulty
     \/ /\ tmp[p].kind = "empty"
        /\ Goto(p, "failed")
        /\ UNCHANGED Files
     \/ /\ tmp[p].kind # "empty"
        /\ Goto(p, "failed")
        /\ faulty' = TRUE
        /\ UNCHANGED <<cache, tmp>>
  /\ UNCHANGED <<Config, Filling, refused>>

-----------------------------------------------------------------------------
Step(p) ==
  \/ ReadCatalogue(p) \/ Connect(p) \/ FillCatalogue(p) \/ Browse(p)
  \/ PassOver(p) \/ ReadDataType(p) \/ ReadDescription(p) \/ ReadValue(p)
  \/ ReadAccessLevel(p) \/ Filled(p)
  \/ SaveOpen(p) \/ SaveWrite(p) \/ SaveRename(p)

(* The process ends or crashes: what it has in memory is gone, and its     *)
(* temporary file is never looked at again.                                *)
Leave(p) ==
  /\ pc[p] # "off"
  /\ Goto(p, "off")
  /\ tmp' = [tmp EXCEPT ![p] = NoFile]
  /\ todo' = [todo EXCEPT ![p] = <<>>]
  /\ seen' = [seen EXCEPT ![p] = Unseen]
  /\ cat' = [cat EXCEPT ![p] = {}]
  /\ UNCHANGED <<Config, cache, refused, faulty>>

Next == \E p \in Processes : Start(p) \/ Step(p) \/ Leave(p)

(* The constructor runs on: it has no waits without a timeout.             *)
Spec == Init /\ [][Next]_vars /\ \A p \in Processes : WF_vars(Step(p))

-----------------------------------------------------------------------------
(* What the server and the map file say: the registers a backend that is   *)
(* not disturbed can get.                                                  *)
Wanted ==
  IF mapFile.use THEN {mapFile.lines[i] : i \in DOMAIN mapFile.lines}
  ELSE {Request(v, NoName, NoRange) :
          v \in {n \in Variables \cap FromRoot : ~n.numeric}}

Usable == {r \in Wanted : HasType(r.node) /\ HasLength(r)}

RegistersOf(r) ==
  {Register(r, ArrayLength(r), d, Attr[r.node].writable) : d \in BOOLEAN}

(* Two lines of an XML map file, or one line twice, give the same name.    *)
RepeatedName ==
  /\ mapFile.use /\ mapFile.xml
  /\ \E i, j \in DOMAIN mapFile.lines :
       /\ i # j /\ {mapFile.lines[i], mapFile.lines[j]} \subseteq Usable
       /\ LocalName(mapFile.lines[i]) = LocalName(mapFile.lines[j])

AllRegisters == UNION {RegistersOf(r) : r \in Usable}

(* Every process is at a step of the constructor with the data that step   *)
(* uses, every register has a length, and the files are of known kinds.    *)
StartTypeOK ==
  /\ mapFile \in MapFiles \cup {NoMap} /\ useCache \in BOOLEAN
  /\ pc \in [Processes -> {"off"} \cup Steps \cup Ended]
  /\ refused \in BOOLEAN /\ faulty \in BOOLEAN
  /\ \A p \in Processes :
       /\ pc[p] \in {"description", "value", "access"} =>
            todo[p] # <<>> /\ Current(p).node \in Variables
       /\ \A e \in cat[p] : e.length \in Nat \ {0} /\ Known(e.type)
       /\ tmp[p].kind \in {"none", "empty", "cut", "whole"}
       /\ pc[p] = "rename" => tmp[p].kind # "none"
  /\ cache.kind \in {"none", "cut", "whole"}

(* The cache file is absent or whole at every moment, whatever process     *)
(* crashes in whatever step and although two processes may save it at the  *)
(* same time, unless a write has failed: the temporary file and the rename *)
(* of saveCatalogue are for this (CatalogueCache.cc:92-117).               *)
CacheWhole == ~faulty => cache.kind \in {"none", "whole"}

(* What CacheWhole rests on: as long as no write has failed, a process     *)
(* that is about to rename has a whole temporary file, its own             *)
(* (saveCatalogue).                                                        *)
TmpWhole ==
  /\ pc = [p \in Processes |-> pc[p]]
  /\ tmp = [p \in Processes |-> tmp[p]]
  /\ ~faulty => \A p \in Processes : pc[p] = "rename" => tmp[p].kind = "whole"

(* A failed request may leave registers out but never changes one: what a  *)
(* backend that is ready has in its catalogue, read from the server by     *)
(* itself or through the cache by another process, is what the server and  *)
(* the map file say of that node (addCatalogueEntry, addRegInfoXmlNode and *)
(* parseRegister).                                                         *)
CatalogueFaithful ==
  \A p \in Processes : pc[p] = "ready" => cat[p] \subseteq AllRegisters

(* A backend that is ready has every register that can be had, also        *)
(* through the cache, if every request was answered in full and an XML map *)
(* file repeats no name: what the code leaves out on its own is unusable   *)
(* (fillCatalogue).                                                        *)
CompleteIfAnswered ==
  ~refused /\ ~RepeatedName =>
    \A p \in Processes : pc[p] = "ready" =>
      \A r \in Usable : \E e \in cat[p] : e.name = LocalName(r)

(* Apart from a map file with an empty <pv> a process dies only of a cache *)
(* file without registers, and such a file is written only after a request *)
(* that was not answered in full or when the server has no variable to     *)
(* offer: a server that cannot be reached, a map file that leads nowhere   *)
(* or a crash never makes one (the constructor, getNodesFromMapfile).      *)
DeathNeedsRefusal ==
  (\E p \in Processes : pc[p] = "died") =>
    refused \/ Usable = {} \/ mapFile.blank

(* Every start of a backend comes to an end, with a catalogue or an        *)
(* exception, whatever happens to the requests, to the files and to the    *)
(* other processes, unless the process itself ends (browseRecursive,       *)
(* getNodesFromMapfile, saveCatalogue).                                    *)
StartEnds ==
  \A p \in Processes : pc[p] \in Steps ~> pc[p] \in Ended \cup {"off"}
=============================================================================
