---------------------------- MODULE VersionMapper ----------------------------
(***************************************************************************)
(* The singleton that gives data with the same source time stamp the same  *)
(* ChimeraTK::VersionNumber, and the accessors that ask it in doPostRead.  *)
(* Every accessor reads the stamps a server sends in their order, but may  *)
(* skip some (push_overwrite) and lag behind the others.  Version numbers  *)
(* come from one counter; 0 is that of an accessor never read.             *)
(***************************************************************************)
EXTENDS Naturals, FiniteSets

CONSTANTS
  Readers,    \* accessors of all backends
  MaxSize,    \* maxSizeEventIdMap (2000 in the code)
  MaxStamp    \* bound on the stamps the server sends

ASSUME VersionsAssumption ==
  MaxSize \in Nat \ {0, 1} /\ MaxStamp \in Nat

VARIABLES
  versionMap,  \* _versionMap: stamp -> version
  sent,        \* the stamps sent so far are 1..sent
  stamp,       \* the stamp of the data in each accessor
  version,     \* the version doPostRead gave each accessor last
  created,     \* the last version number created
  given        \* history: the versions each stamp was given

versionVars == <<versionMap, sent, stamp, version, created, given>>

Stamps == 1..MaxStamp

(* Mutation of Oldest: the last entry of the map.                          *)
Newest(S) == CHOOSE s \in S : \A u \in S : u <= s

Oldest(S) == CHOOSE s \in S : \A u \in S : s <= u

(* Mutation of Kept: the size is compared one too late.                    *)
KeptOneMore ==
  LET S == DOMAIN versionMap
  IN  IF Cardinality(S) > MaxSize THEN S \ {Oldest(S)} ELSE S

(* The map after getVersion made room: a full map loses its first entry,   *)
(* that is its oldest stamp, whatever the stamp to be entered.             *)
Kept ==
  LET S == DOMAIN versionMap
  IN  IF Cardinality(S) = MaxSize THEN S \ {Oldest(S)} ELSE S

VersionsInit ==
  /\ versionMap = [s \in {} |-> 0]
  /\ sent = 0
  /\ stamp = [a \in Readers |-> 0]
  /\ version = [a \in Readers |-> 0]
  /\ created = 0
  /\ given = [s \in Stamps |-> {}]

Send ==
  /\ sent < MaxStamp
  /\ sent' = sent + 1
  /\ UNCHANGED <<versionMap, stamp, version, created, given>>

(* Mutations of GetVersion: every call creates a version, and the version  *)
(* is the number of entries instead of a new one.                          *)
GetNewVersion(s) ==
  /\ created' = created + 1
  /\ versionMap' = [u \in Kept \cup {s} |->
                      IF u = s THEN created + 1 ELSE versionMap[u]]

GetEntryNumber(s) ==
  IF s \in DOMAIN versionMap
  THEN UNCHANGED <<versionMap, created>>
  ELSE /\ created' = created + 1
       /\ versionMap' = [u \in Kept \cup {s} |->
                           IF u = s THEN Cardinality(Kept) + 1
                           ELSE versionMap[u]]

(* getVersion for stamp s, under _mapMutex.                                *)
GetVersion(s) ==
  IF s \in DOMAIN versionMap
  THEN UNCHANGED <<versionMap, created>>
  ELSE /\ created' = created + 1
       /\ versionMap' = [u \in Kept \cup {s} |->
                           IF u = s THEN created + 1 ELSE versionMap[u]]

(* doPostRead of accessor a with data stamped s.                           *)
PostRead(a, s) ==
  /\ stamp[a] < s /\ s <= sent
  /\ GetVersion(s)
  /\ stamp' = [stamp EXCEPT ![a] = s]
  /\ version' = [version EXCEPT ![a] = versionMap'[s]]
  /\ given' = [given EXCEPT ![s] = @ \cup {versionMap'[s]}]
  /\ UNCHANGED sent

VersionsNext == Send \/ \E a \in Readers, s \in Stamps : PostRead(a, s)

VersionsSpec == VersionsInit /\ [][VersionsNext]_versionVars

-----------------------------------------------------------------------------
(* The map never outgrows maxSizeEventIdMap.                               *)
VersionsTypeOK ==
  /\ DOMAIN versionMap \subseteq Stamps
  /\ versionMap \in [DOMAIN versionMap -> 1..created]
  /\ Cardinality(DOMAIN versionMap) <= MaxSize
  /\ sent \in 0..MaxStamp
  /\ stamp \in [Readers -> 0..sent]
  /\ version \in [Readers -> 0..created]
  /\ created \in Nat
  /\ given \in [Stamps -> SUBSET (1..created)]

(* A version number tells one stamp from another: getVersion never gives   *)
(* the same version to data of different stamps, whatever was evicted.     *)
VersionsDistinct ==
  \A s, u \in Stamps : s # u => given[s] \cap given[u] = {}

(* Accessors that read the newest data agree on its version ("their        *)
(* VersionNumber is required to be identical", comment on the class): the  *)
(* newest stamp read so far has one version, since eviction spares it.     *)
NewestAgreed ==
  \A s \in Stamps :
    given[s] # {} /\ (\A u \in Stamps : u > s => given[u] = {})
      => Cardinality(given[s]) = 1

(* Accessors with data of equal stamps have equal versions as long as the  *)
(* map has not been full: only eviction makes getVersion forget.           *)
AgreedBelowLimit ==
  Cardinality({s \in Stamps : given[s] # {}}) <= MaxSize
    => \A a, b \in Readers : stamp[a] = stamp[b] => version[a] = version[b]
=============================================================================
