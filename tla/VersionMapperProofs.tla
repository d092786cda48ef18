------------------------- MODULE VersionMapperProofs -------------------------
(***************************************************************************)
(* Proofs about VersionMapper, for every set of readers, every size of the *)
(* map and every number of stamps.  The invariant behind them: an entry of *)
(* the map is a version its stamp was given, the newest stamp read so far  *)
(* has its entry and no other version, and until the map has been full     *)
(* every stamp that was read has its entry and no other version.           *)
(***************************************************************************)
EXTENDS VersionMapper, FiniteSetTheorems, TLAPS

-----------------------------------------------------------------------------
(* The first entry of a std::map is its least key.                         *)
LEMMA LeastExists ==
  ASSUME NEW S \in SUBSET Nat, S # {}
  PROVE  Oldest(S) \in S /\ \A u \in S : Oldest(S) <= u
<1> DEFINE Less == {ss \in Nat \X Nat : ss[1] < ss[2]}
<1>0. IsWellFoundedOn(Less, Nat)
  BY NatLessThanWellFounded, Zenon DEF OpToRel
<1>1. PICK x \in S : \A y \in S : ~(<<y, x>> \in Less)
  <2> HIDE DEF Less
  <2> QED
    BY <1>0, WFMin
<1>2. \A y \in S : x <= y
  <2> SUFFICES ASSUME NEW y \in S, ~(x <= y) PROVE FALSE
    OBVIOUS
  <2>1. <<y, x>> \in Less
    OBVIOUS
  <2> QED
    BY <1>1, <2>1
<1> QED
  BY <1>2 DEF Oldest

(* The map has finitely many entries, so it has an oldest and a newest one. *)
LEMMA StampsFinite ==
  ASSUME NEW S \in SUBSET Stamps
  PROVE  S \in SUBSET Nat /\ IsFiniteSet(S) /\ Cardinality(S) \in Nat
<1>1. \A s \in S : s \in Nat /\ s <= MaxStamp
  BY VersionsAssumption DEF Stamps
<1>2. S \in SUBSET Nat
  BY <1>1
<1>3. IsFiniteSet(S)
  BY <1>1, <1>2, VersionsAssumption, FS_BoundedSetOfNaturals
<1> QED
  BY <1>2, <1>3, FS_CardinalityType

(* Making room leaves a place for one more entry, and the entry it costs   *)
(* is older than another one.                                              *)
LEMMA KeptProperties ==
  ASSUME DOMAIN versionMap \subseteq Stamps,
         Cardinality(DOMAIN versionMap) <= MaxSize
  PROVE  /\ Kept \subseteq DOMAIN versionMap
         /\ Cardinality(Kept) < MaxSize
         /\ Cardinality(DOMAIN versionMap) < MaxSize => Kept = DOMAIN versionMap
         /\ \A t \in DOMAIN versionMap \ Kept :
              \E x \in DOMAIN versionMap : t < x
<1> DEFINE S == DOMAIN versionMap
<1>1. S \in SUBSET Nat /\ IsFiniteSet(S) /\ Cardinality(S) \in Nat
  BY StampsFinite
<1>2. MaxSize \in Nat /\ MaxSize > 1
  BY VersionsAssumption
<1>3. CASE Cardinality(S) = MaxSize
  <2>1. S # {}
    BY <1>1, <1>2, <1>3, FS_EmptySet
  <2>2. Oldest(S) \in S /\ \A u \in S : Oldest(S) <= u
    BY <1>1, <2>1, LeastExists
  <2>3. Kept = S \ {Oldest(S)}
    BY <1>3 DEF Kept
  <2>4. Cardinality(Kept) = Cardinality(S) - 1
    BY <1>1, <2>2, <2>3, FS_RemoveElement
  <2>5. \E x \in S : Oldest(S) < x
    <3>1. S # {Oldest(S)}
      BY <1>2, <1>3, FS_Singleton
    <3>2. PICK x \in S : x # Oldest(S)
      BY <2>2, <3>1
    <3>3. Oldest(S) <= x /\ Oldest(S) \in Nat /\ x \in Nat
      BY <1>1, <2>2
    <3> QED
      BY <3>2, <3>3
  <2> QED
    BY <1>1, <1>2, <1>3, <2>3, <2>4, <2>5
<1>4. CASE Cardinality(S) # MaxSize
  <2>1. Kept = S
    BY <1>4 DEF Kept
  <2> QED
    BY <1>1, <1>2, <1>4, <2>1
<1> QED
  BY <1>3, <1>4

-----------------------------------------------------------------------------
GivenStamps == {s \in Stamps : given[s] # {}}

(* An entry is a version its stamp was given; an accessor has a version    *)
(* its stamp was given, or was never read.                                 *)
EntriesGiven ==
  /\ \A s \in DOMAIN versionMap : versionMap[s] \in given[s]
  /\ \A a \in Readers : \/ stamp[a] = 0 /\ version[a] = 0
                        \/ stamp[a] # 0 /\ version[a] \in given[stamp[a]]

NewestHasEntry ==
  \A s \in Stamps :
    given[s] # {} /\ (\A u \in Stamps : u > s => given[u] = {})
      => s \in DOMAIN versionMap /\ given[s] = {versionMap[s]}

AllHaveEntries ==
  Cardinality(GivenStamps) <= MaxSize
    => \A s \in GivenStamps :
         s \in DOMAIN versionMap /\ given[s] = {versionMap[s]}

VersionsInv ==
  /\ VersionsTypeOK
  /\ EntriesGiven
  /\ VersionsDistinct
  /\ NewestHasEntry
  /\ AllHaveEntries

(* The invariant holds initially, ...                                      *)
LEMMA VersionsInvInit == VersionsInit => VersionsInv
<1> SUFFICES ASSUME VersionsInit PROVE VersionsInv
  OBVIOUS
<1>1. DOMAIN versionMap = {} /\ versionMap \in [{} -> 1..created]
  BY DEF VersionsInit
<1>2. VersionsTypeOK
  BY <1>1, FS_EmptySet, VersionsAssumption DEF VersionsInit, VersionsTypeOK
<1>3. EntriesGiven /\ VersionsDistinct /\ NewestHasEntry /\ AllHaveEntries
  BY <1>1 DEF VersionsInit, EntriesGiven, VersionsDistinct, NewestHasEntry,
              AllHaveEntries, GivenStamps
<1> QED
  BY <1>2, <1>3 DEF VersionsInv

(* A time stamp the server sends changes no version.                       *)
LEMMA SendStep == VersionsInv /\ Send => VersionsInv'
<1> SUFFICES ASSUME VersionsInv, Send PROVE VersionsInv'
  OBVIOUS
<1>1. VersionsTypeOK'
  BY VersionsAssumption DEF VersionsInv, VersionsTypeOK, Send
<1>2. EntriesGiven' /\ VersionsDistinct' /\ NewestHasEntry' /\ AllHaveEntries'
  BY DEF VersionsInv, Send, EntriesGiven, VersionsDistinct, NewestHasEntry,
         AllHaveEntries, GivenStamps
<1> QED
  BY <1>1, <1>2 DEF VersionsInv

(* What getVersion does to the map, in the three ways that matter.         *)
LEMMA GetVersionProperties ==
  ASSUME VersionsTypeOK, NEW s \in Stamps, GetVersion(s)
  PROVE  /\ created' \in Nat /\ created <= created'
         /\ s \in DOMAIN versionMap'
         /\ DOMAIN versionMap' \subseteq DOMAIN versionMap \cup {s}
         /\ Cardinality(DOMAIN versionMap') <= MaxSize
         /\ versionMap' \in [DOMAIN versionMap' -> 1..created']
         /\ \A u \in DOMAIN versionMap' : u # s => versionMap'[u] = versionMap[u]
         /\ s \in DOMAIN versionMap => versionMap' = versionMap
         /\ s \notin DOMAIN versionMap =>
              /\ versionMap'[s] = created + 1 /\ created' = created + 1
              /\ Cardinality(DOMAIN versionMap) < MaxSize
                   => DOMAIN versionMap' = DOMAIN versionMap \cup {s}
              /\ \A t \in DOMAIN versionMap \ DOMAIN versionMap' :
                   \E x \in DOMAIN versionMap : t < x
<1>1. /\ DOMAIN versionMap \subseteq Stamps
      /\ versionMap \in [DOMAIN versionMap -> 1..created]
      /\ Cardinality(DOMAIN versionMap) <= MaxSize
      /\ created \in Nat /\ MaxSize \in Nat
  BY VersionsAssumption DEF VersionsTypeOK
<1>2. CASE s \in DOMAIN versionMap
  BY <1>1, <1>2 DEF GetVersion
<1>3. CASE s \notin DOMAIN versionMap
  <2> DEFINE D == Kept \cup {s}
  <2>1. /\ created' = created + 1
        /\ versionMap' = [u \in D |-> IF u = s THEN created + 1 ELSE versionMap[u]]
    BY <1>3 DEF GetVersion
  <2>2. /\ Kept \subseteq DOMAIN versionMap
        /\ Cardinality(Kept) < MaxSize
        /\ Cardinality(DOMAIN versionMap) < MaxSize => Kept = DOMAIN versionMap
        /\ \A t \in DOMAIN versionMap \ Kept : \E x \in DOMAIN versionMap : t < x
    BY <1>1, KeptProperties
  <2>3. Cardinality(D) <= MaxSize
    <3>1. IsFiniteSet(Kept) /\ Cardinality(Kept) \in Nat
      BY <1>1, <2>2, StampsFinite
    <3>2. Cardinality(D) = Cardinality(Kept) + 1
      BY <1>3, <2>2, <3>1, FS_AddElement
    <3> QED
      BY <1>1, <2>2, <3>1, <3>2
  <2> HIDE DEF D
  <2>4. DOMAIN versionMap' = D
    BY <2>1
  <2>5. D = Kept \cup {s}
    BY DEF D
  <2>6. \A u \in D : u # s => u \in DOMAIN versionMap
    BY <2>2, <2>5
  <2>7. versionMap'[s] = created + 1
        /\ \A u \in D : u # s => versionMap'[u] = versionMap[u]
    BY <2>1, <2>5
  <2>8. versionMap' \in [D -> 1..created']
    <3>1. \A u \in D : (IF u = s THEN created + 1 ELSE versionMap[u]) \in 1..created'
      BY <1>1, <2>1, <2>6
    <3> QED
      BY <2>1, <3>1
  <2>9. \A t \in DOMAIN versionMap \ DOMAIN versionMap' :
          \E x \in DOMAIN versionMap : t < x
    BY <2>2, <2>4, <2>5
  <2> QED
    BY <1>1, <1>3, <2>1, <2>2, <2>3, <2>4, <2>5, <2>7, <2>8, <2>9
<1> QED
  BY <1>2, <1>3

(* doPostRead: the stamp read gets one more version at most.               *)
LEMMA PostReadStep ==
  ASSUME VersionsInv, NEW a \in Readers, NEW s \in Stamps, PostRead(a, s)
  PROVE  VersionsInv'
<1> DEFINE v == versionMap'[s]
<1>1. /\ VersionsTypeOK /\ EntriesGiven /\ VersionsDistinct
      /\ NewestHasEntry /\ AllHaveEntries
  BY DEF VersionsInv
<1>2. /\ stamp[a] < s /\ s <= sent /\ GetVersion(s) /\ sent' = sent
      /\ stamp' = [stamp EXCEPT ![a] = s]
      /\ version' = [version EXCEPT ![a] = v]
      /\ given' = [given EXCEPT ![s] = @ \cup {v}]
  BY DEF PostRead
<1>3. /\ created' \in Nat /\ created <= created'
      /\ s \in DOMAIN versionMap'
      /\ DOMAIN versionMap' \subseteq DOMAIN versionMap \cup {s}
      /\ Cardinality(DOMAIN versionMap') <= MaxSize
      /\ versionMap' \in [DOMAIN versionMap' -> 1..created']
      /\ \A u \in DOMAIN versionMap' : u # s => versionMap'[u] = versionMap[u]
      /\ s \in DOMAIN versionMap => versionMap' = versionMap
      /\ s \notin DOMAIN versionMap =>
           /\ v = created + 1 /\ created' = created + 1
           /\ Cardinality(DOMAIN versionMap) < MaxSize
                => DOMAIN versionMap' = DOMAIN versionMap \cup {s}
           /\ \A t \in DOMAIN versionMap \ DOMAIN versionMap' :
                \E x \in DOMAIN versionMap : t < x
  BY <1>1, <1>2, GetVersionProperties
<1>4. /\ created \in Nat /\ sent \in 0..MaxStamp /\ MaxStamp \in Nat
      /\ DOMAIN versionMap \subseteq Stamps
      /\ given \in [Stamps -> SUBSET (1..created)]
      /\ stamp \in [Readers -> 0..sent] /\ version \in [Readers -> 0..created]
  BY <1>1, VersionsAssumption DEF VersionsTypeOK
<1>5. v \in 1..created' /\ s \in Nat \ {0}
  BY <1>3, VersionsAssumption DEF Stamps
<1> HIDE DEF v
<1>6. \A u \in Stamps : given'[u] = IF u = s THEN given[s] \cup {v} ELSE given[u]
  BY <1>2, <1>4
<1>7. VersionsTypeOK'
  <2>1. \A u \in Stamps : given[u] \subseteq 1..created'
    BY <1>3, <1>4
  <2>2. given' \in [Stamps -> SUBSET (1..created')]
    BY <1>2, <1>4, <1>5, <2>1
  <2>3. version' \in [Readers -> 0..created']
    BY <1>2, <1>3, <1>4, <1>5
  <2>4. stamp' \in [Readers -> 0..sent'] /\ sent' \in 0..MaxStamp
    BY <1>2, <1>4, <1>5
  <2>5. DOMAIN versionMap' \subseteq Stamps
    BY <1>3, <1>4
  <2> QED
    BY <1>3, <2>2, <2>3, <2>4, <2>5 DEF VersionsTypeOK
<1>8. EntriesGiven'
  <2>1. versionMap'[s] \in given'[s]
    BY <1>6 DEF v
  <2>2. \A u \in DOMAIN versionMap' : versionMap'[u] \in given'[u]
    BY <1>1, <1>3, <1>4, <1>6, <2>1 DEF EntriesGiven
  <2>3. stamp'[a] # 0 /\ version'[a] \in given'[stamp'[a]]
    BY <1>2, <1>4, <1>5, <1>6
  <2>4. ASSUME NEW b \in Readers, b # a
        PROVE  \/ stamp'[b] = 0 /\ version'[b] = 0
               \/ stamp'[b] # 0 /\ version'[b] \in given'[stamp'[b]]
    <3>1. stamp'[b] = stamp[b] /\ version'[b] = version[b] /\ stamp[b] \in 0..MaxStamp
      BY <1>2, <1>4, <2>4
    <3>2. stamp[b] # 0 => stamp[b] \in Stamps
      BY <1>4, <3>1 DEF Stamps
    <3> QED
      BY <1>1, <1>6, <3>1, <3>2 DEF EntriesGiven
  <2> QED
    BY <2>2, <2>3, <2>4 DEF EntriesGiven
<1>9. s \in DOMAIN versionMap => v \in given[s] /\ versionMap' = versionMap /\ given' = given
  <2> SUFFICES ASSUME s \in DOMAIN versionMap
               PROVE  v \in given[s] /\ versionMap' = versionMap /\ given' = given
    OBVIOUS
  <2>1. versionMap' = versionMap /\ v \in given[s]
    BY <1>1, <1>3 DEF EntriesGiven, v
  <2> QED
    BY <1>2, <1>4, <2>1
<1>10. VersionsDistinct'
  <2>1. CASE s \in DOMAIN versionMap
    BY <1>1, <1>9, <2>1 DEF VersionsDistinct
  <2>2. CASE s \notin DOMAIN versionMap
    <3>1. v = created + 1 /\ \A u \in Stamps : created + 1 \notin given[u]
      BY <1>3, <1>4, <2>2
    <3> QED
      BY <1>1, <1>6, <3>1 DEF VersionsDistinct
  <2> QED
    BY <2>1, <2>2
<1>11. NewestHasEntry'
  <2>1. CASE s \in DOMAIN versionMap
    BY <1>1, <1>9, <2>1 DEF NewestHasEntry
  <2>2. CASE s \notin DOMAIN versionMap
    <3> SUFFICES ASSUME NEW t \in Stamps, given'[t] # {},
                        \A u \in Stamps : u > t => given'[u] = {}
                 PROVE  t \in DOMAIN versionMap' /\ given'[t] = {versionMap'[t]}
      BY DEF NewestHasEntry
    <3>1. \A u \in Stamps : u > t => given[u] = {}
      BY <1>6
    <3>2. CASE t = s
      <4>1. given[s] = {}
        BY <1>1, <2>2, <3>1, <3>2 DEF NewestHasEntry
      <4> QED
        BY <1>3, <1>6, <3>2, <4>1 DEF v
    <3>3. CASE t # s
      <4>1. t \in DOMAIN versionMap /\ given[t] = {versionMap[t]} /\ given'[t] = given[t]
        BY <1>1, <1>6, <3>1, <3>3 DEF NewestHasEntry
      <4>2. t \in DOMAIN versionMap'
        <5> SUFFICES ASSUME t \notin DOMAIN versionMap' PROVE FALSE
          OBVIOUS
        <5>1. PICK x \in DOMAIN versionMap : t < x
          BY <1>3, <2>2, <4>1
        <5>2. x \in Stamps /\ x > t /\ given[x] # {}
          BY <1>1, <1>4, <5>1 DEF EntriesGiven, Stamps
        <5> QED
          BY <3>1, <5>2
      <4> QED
        BY <1>3, <3>3, <4>1, <4>2
    <3> QED
      BY <3>2, <3>3
  <2> QED
    BY <2>1, <2>2
<1>12. AllHaveEntries'
  <2>1. CASE s \in DOMAIN versionMap
    BY <1>1, <1>9, <2>1 DEF AllHaveEntries, GivenStamps
  <2>2. CASE s \notin DOMAIN versionMap
    <3> DEFINE G == GivenStamps
    <3>1. GivenStamps' = G \cup {s}
      BY <1>6 DEF GivenStamps
    <3>2. DOMAIN versionMap \subseteq G
      BY <1>1, <1>4 DEF EntriesGiven, GivenStamps
    <3>3. G \in SUBSET Stamps
      BY DEF GivenStamps
    <3> HIDE DEF G
    <3> SUFFICES ASSUME Cardinality(G \cup {s}) <= MaxSize, NEW t \in G \cup {s}
                 PROVE  t \in DOMAIN versionMap' /\ given'[t] = {versionMap'[t]}
      BY <3>1 DEF AllHaveEntries
    <3>4. IsFiniteSet(G) /\ Cardinality(G) \in Nat /\ MaxSize \in Nat
      BY <3>3, StampsFinite, VersionsAssumption
    <3>5. Cardinality(G) <= MaxSize
      <4>1. \/ Cardinality(G \cup {s}) = Cardinality(G)
            \/ Cardinality(G \cup {s}) = Cardinality(G) + 1
        BY <3>4, FS_AddElement
      <4> QED
        BY <3>4, <4>1
    <3>6. \A u \in G : u \in DOMAIN versionMap /\ given[u] = {versionMap[u]}
      BY <1>1, <3>5 DEF AllHaveEntries, G
    <3>7. s \notin G /\ given[s] = {}
      BY <2>2, <3>6 DEF G, GivenStamps
    <3>8. Cardinality(G) < MaxSize
      <4>1. Cardinality(G \cup {s}) = Cardinality(G) + 1
        BY <3>4, <3>7, FS_AddElement
      <4> QED
        BY <3>4, <4>1
    <3>9. DOMAIN versionMap = G
      BY <3>2, <3>6
    <3>10. DOMAIN versionMap' = G \cup {s}
      BY <1>3, <2>2, <3>8, <3>9
    <3>11. CASE t = s
      BY <1>6, <3>7, <3>10, <3>11 DEF v
    <3>12. CASE t # s
      BY <1>3, <1>6, <3>3, <3>6, <3>10, <3>12
    <3> QED
      BY <3>11, <3>12
  <2> QED
    BY <2>1, <2>2
<1> QED
  BY <1>7, <1>8, <1>10, <1>11, <1>12 DEF VersionsInv

(* ... is kept by every step ...                                           *)
LEMMA VersionsInvStep ==
  VersionsInv /\ [VersionsNext]_versionVars => VersionsInv'
<1> SUFFICES ASSUME VersionsInv, [VersionsNext]_versionVars PROVE VersionsInv'
  OBVIOUS
<1>1. CASE Send
  BY <1>1, SendStep
<1>2. ASSUME NEW a \in Readers, NEW s \in Stamps, PostRead(a, s)
      PROVE  VersionsInv'
  BY <1>2, PostReadStep
<1>3. CASE UNCHANGED versionVars
  BY <1>3 DEF versionVars, VersionsInv, VersionsTypeOK, EntriesGiven,
              VersionsDistinct, NewestHasEntry, AllHaveEntries, GivenStamps
<1> QED
  BY <1>1, <1>2, <1>3 DEF VersionsNext

(* ... and so holds always.                                                *)
LEMMA VersionsInvariant == VersionsSpec => []VersionsInv
BY VersionsInvInit, VersionsInvStep, PTL DEF VersionsSpec

-----------------------------------------------------------------------------
(* The map of getVersion never outgrows maxSizeEventIdMap, whatever the    *)
(* order in which accessors ask it for stamps.                             *)
THEOREM VersionsTyped == VersionsSpec => []VersionsTypeOK
<1>1. VersionsInv => VersionsTypeOK
  BY DEF VersionsInv
<1> QED
  BY <1>1, VersionsInvariant, PTL

(* getVersion gives no version to two stamps, although it forgets stamps   *)
(* and numbers them anew.                                                  *)
THEOREM StampsTold == VersionsSpec => []VersionsDistinct
<1>1. VersionsInv => VersionsDistinct
  BY DEF VersionsInv
<1> QED
  BY <1>1, VersionsInvariant, PTL

(* The eviction in getVersion spares the newest stamp that was read, so    *)
(* all accessors that read it get one version.                             *)
THEOREM NewestStampAgreed == VersionsSpec => []NewestAgreed
<1>1. VersionsInv => NewestAgreed
  <2> SUFFICES ASSUME VersionsInv, NEW s \in Stamps, given[s] # {},
                      \A u \in Stamps : u > s => given[u] = {}
               PROVE  Cardinality(given[s]) = 1
    BY DEF NewestAgreed
  <2>1. given[s] = {versionMap[s]}
    BY DEF VersionsInv, NewestHasEntry
  <2> QED
    BY <2>1, FS_Singleton
<1> QED
  BY <1>1, VersionsInvariant, PTL

(* Before the map of getVersion has been full, accessors with data of one  *)
(* stamp have one version.                                                 *)
THEOREM AgreedUntilFull == VersionsSpec => []AgreedBelowLimit
<1>1. VersionsInv => AgreedBelowLimit
  <2> SUFFICES ASSUME VersionsInv, Cardinality(GivenStamps) <= MaxSize,
                      NEW a \in Readers, NEW b \in Readers, stamp[a] = stamp[b]
               PROVE  version[a] = version[b]
    BY DEF AgreedBelowLimit, GivenStamps
  <2>1. CASE stamp[a] = 0
    BY <2>1 DEF VersionsInv, EntriesGiven
  <2>2. CASE stamp[a] # 0
    <3>1. version[a] \in given[stamp[a]] /\ version[b] \in given[stamp[a]]
      BY <2>2 DEF VersionsInv, EntriesGiven
    <3>2. stamp[a] \in Stamps
      BY <2>2, VersionsAssumption DEF VersionsInv, VersionsTypeOK, Stamps
    <3>3. stamp[a] \in GivenStamps
      BY <3>1, <3>2 DEF GivenStamps
    <3>4. given[stamp[a]] = {versionMap[stamp[a]]}
      BY <3>3 DEF VersionsInv, AllHaveEntries
    <3> QED
      BY <3>1, <3>4
  <2> QED
    BY <2>1, <2>2
<1> QED
  BY <1>1, VersionsInvariant, PTL
=============================================================================
