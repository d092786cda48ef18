------------------------ MODULE MonitoredItemsProofs ------------------------
(***************************************************************************)
(* Proofs about MonitoredItems, for every set of nodes and accessors and   *)
(* every queue length.  The inductive invariant is the conjunction of      *)
(* ItemsTypeOK, ItemsInUse and FlagCoversExceptions: an erase finds the    *)
(* element it erases because of ItemsInUse, and the exceptions counted for *)
(* an accessor follow the flag of its item because that item lists it.     *)
(* NewestKept needs the types only.                                        *)
(***************************************************************************)
EXTENDS MonitoredItems, SequenceTheorems, TLAPS

-----------------------------------------------------------------------------
(* What std::deque and std::vector operations do to the sequences.         *)

Distinct(s) == \A i, j \in DOMAIN s : s[i] = s[j] => i = j

(* SequencesExt!ToSet of a sequence is the set of its elements.            *)
LEMMA ToSetProperties ==
  ASSUME NEW S, NEW s \in Seq(S)
  PROVE  /\ ToSet(s) \subseteq S
         /\ \A e : e \in ToSet(s) <=> \E i \in 1..Len(s) : s[i] = e
         /\ s = <<>> <=> ToSet(s) = {}
<1>1. DOMAIN s = 1..Len(s) /\ Len(s) \in Nat
  BY LenProperties
<1>2. \A i \in 1..Len(s) : s[i] \in S
  BY ElementOfSeq
<1>3. s = <<>> <=> Len(s) = 0
  BY EmptySeq, <1>1
<1>4. \A e : e \in ToSet(s) <=> \E i \in 1..Len(s) : s[i] = e
  BY <1>1 DEF ToSet
<1>5. ToSet(s) \subseteq S
  BY <1>2, <1>4
<1>6. Len(s) = 0 <=> ToSet(s) = {}
  <2>1. CASE Len(s) = 0
    BY <2>1, <1>4
  <2>2. CASE Len(s) # 0
    <3>1. 1 \in 1..Len(s)
      BY <2>2, <1>1
    <3> QED
      BY <3>1, <2>2, <1>4
  <2> QED
    BY <2>1, <2>2
<1> QED
  BY <1>3, <1>4, <1>5, <1>6

(* IndexOf finds an element the sequence has.                              *)
LEMMA IndexOfProperties ==
  ASSUME NEW S, NEW s \in Seq(S), NEW e \in ToSet(s)
  PROVE  IndexOf(s, e) \in 1..Len(s) /\ s[IndexOf(s, e)] = e
<1>1. \E i \in DOMAIN s : s[i] = e
  BY DEF ToSet
<1>2. DOMAIN s = 1..Len(s)
  BY LenProperties
<1> QED
  BY <1>1, <1>2 DEF IndexOf

(* push_back of an element the container does not have yet.                *)
LEMMA AppendDistinct ==
  ASSUME NEW S, NEW s \in Seq(S), NEW e \in S, Distinct(s), e \notin ToSet(s)
  PROVE  /\ Append(s, e) \in Seq(S)
         /\ Append(s, e) # <<>>
         /\ Distinct(Append(s, e))
         /\ \A x : x \in ToSet(Append(s, e)) <=> x \in ToSet(s) \/ x = e
<1> DEFINE r == Append(s, e)
<1>1. /\ r \in Seq(S) /\ r # <<>>
      /\ Len(r) = Len(s) + 1
      /\ \A i \in 1..Len(s) : r[i] = s[i]
      /\ r[Len(s) + 1] = e
  BY AppendProperties
<1>2. Len(s) \in Nat /\ DOMAIN s = 1..Len(s) /\ DOMAIN r = 1..Len(r)
  BY <1>1, LenProperties
<1>3. \A x : x \in ToSet(r) <=> \E i \in 1..Len(r) : r[i] = x
  BY <1>1, ToSetProperties
<1>4. \A x : x \in ToSet(s) <=> \E i \in 1..Len(s) : s[i] = x
  BY ToSetProperties
<1>5. \A i \in 1..Len(r) : i \in 1..Len(s) \/ i = Len(s) + 1
  BY <1>1, <1>2
<1>6. \A i \in 1..Len(s) : i \in 1..Len(r)
  BY <1>1, <1>2
<1>7. Len(s) + 1 \in 1..Len(r)
  BY <1>1, <1>2
<1>8. Distinct(r)
  BY <1>1, <1>2, <1>4, <1>5 DEF Distinct
<1>9. \A x : x \in ToSet(r) <=> x \in ToSet(s) \/ x = e
  BY <1>1, <1>3, <1>4, <1>5, <1>6, <1>7
<1> HIDE DEF r
<1> QED
  BY <1>1, <1>8, <1>9 DEF r

(* erase at a position of the container.                                   *)
LEMMA RemoveAtProperties ==
  ASSUME NEW S, NEW s \in Seq(S), NEW k \in 1..Len(s)
  PROVE  /\ RemoveAt(s, k) \in Seq(S)
         /\ Len(RemoveAt(s, k)) = Len(s) - 1
         /\ \A i \in 1..(Len(s) - 1) :
              RemoveAt(s, k)[i] = IF i < k THEN s[i] ELSE s[i + 1]
<1> DEFINE l == SubSeq(s, 1, k - 1)
           r == SubSeq(s, k + 1, Len(s))
<1>1. Len(s) \in Nat /\ \A i \in 1..Len(s) : s[i] \in S
  BY LenProperties, ElementOfSeq
<1>2. /\ l \in Seq(S) /\ Len(l) = k - 1
      /\ \A i \in 1..(k - 1) : l[i] = s[i]
  <2>1. \A i \in 1..(k - 1) : s[i] \in S
    BY <1>1
  <2>2. /\ l \in Seq(S)
        /\ Len(l) = IF 1 <= k - 1 THEN k - 1 - 1 + 1 ELSE 0
        /\ \A i \in 1..(k - 1 - 1 + 1) : l[i] = s[1 + i - 1]
    BY <2>1, SubSeqProperties
  <2> QED
    BY <2>2, <1>1
<1>3. /\ r \in Seq(S) /\ Len(r) = Len(s) - k
      /\ \A i \in 1..(Len(s) - k) : r[i] = s[k + i]
  <2>1. \A i \in (k + 1)..Len(s) : s[i] \in S
    BY <1>1
  <2>2. /\ r \in Seq(S)
        /\ Len(r) = IF k + 1 <= Len(s) THEN Len(s) - (k + 1) + 1 ELSE 0
        /\ \A i \in 1..(Len(s) - (k + 1) + 1) : r[i] = s[(k + 1) + i - 1]
    BY <2>1, <1>1, SubSeqProperties
  <2> QED
    BY <2>2, <1>1
<1>4. RemoveAt(s, k) = l \o r
  BY DEF RemoveAt
<1> HIDE DEF l, r
<1>5. /\ l \o r \in Seq(S) /\ Len(l \o r) = Len(l) + Len(r)
      /\ \A i \in 1..(Len(l) + Len(r)) :
           (l \o r)[i] = IF i <= Len(l) THEN l[i] ELSE r[i - Len(l)]
  BY <1>2, <1>3, ConcatProperties
<1>6. Len(l) + Len(r) = Len(s) - 1
  BY <1>1, <1>2, <1>3
<1>7. ASSUME NEW i \in 1..(Len(s) - 1)
      PROVE  (l \o r)[i] = IF i < k THEN s[i] ELSE s[i + 1]
  <2>1. CASE i < k
    BY <2>1, <1>1, <1>2, <1>5, <1>6
  <2>2. CASE ~(i < k)
    <3>1. i - (k - 1) \in 1..(Len(s) - k) /\ k + (i - (k - 1)) = i + 1
      BY <2>2, <1>1
    <3>2. (l \o r)[i] = r[i - (k - 1)]
      BY <2>2, <1>1, <1>2, <1>5, <1>6
    <3> QED
      BY <2>2, <3>1, <3>2, <1>3
  <2> QED
    BY <2>1, <2>2
<1> QED
  BY <1>4, <1>5, <1>6, <1>7

(* erase of the one occurrence of an element.                              *)
LEMMA RemoveAtDistinct ==
  ASSUME NEW S, NEW s \in Seq(S), Distinct(s), NEW k \in 1..Len(s)
  PROVE  /\ Distinct(RemoveAt(s, k))
         /\ \A x : x \in ToSet(RemoveAt(s, k)) <=> x \in ToSet(s) /\ x # s[k]
<1> DEFINE r == RemoveAt(s, k)
<1>1. /\ r \in Seq(S) /\ Len(r) = Len(s) - 1
      /\ \A i \in 1..(Len(s) - 1) : r[i] = IF i < k THEN s[i] ELSE s[i + 1]
  BY RemoveAtProperties
<1> HIDE DEF r
<1>2. Len(s) \in Nat /\ DOMAIN s = 1..Len(s) /\ DOMAIN r = 1..(Len(s) - 1)
  BY <1>1, LenProperties
<1>3. Distinct(r)
  <2> SUFFICES ASSUME NEW i \in 1..(Len(s) - 1), NEW j \in 1..(Len(s) - 1),
                      r[i] = r[j]
               PROVE  i = j
    BY <1>2 DEF Distinct
  <2> DEFINE p(q) == IF q < k THEN q ELSE q + 1
  <2>1. p(i) \in 1..Len(s) /\ p(j) \in 1..Len(s)
    BY <1>2
  <2>2. r[i] = s[p(i)] /\ r[j] = s[p(j)]
    BY <1>1
  <2>3. p(i) = p(j)
    BY <2>1, <2>2, <1>2 DEF Distinct
  <2> QED
    BY <2>3, <1>2
<1>4. ASSUME NEW x, x \in ToSet(r)
      PROVE  x \in ToSet(s) /\ x # s[k]
  <2>1. PICK i \in 1..(Len(s) - 1) : r[i] = x
    BY <1>4, <1>1, ToSetProperties
  <2>2. CASE i < k
    <3>1. i \in 1..Len(s) /\ s[i] = x /\ i # k
      BY <2>1, <2>2, <1>1, <1>2
    <3> QED
      BY <3>1, <1>2, ToSetProperties DEF Distinct
  <2>3. CASE ~(i < k)
    <3>1. i + 1 \in 1..Len(s) /\ s[i + 1] = x /\ i + 1 # k
      BY <2>1, <2>3, <1>1, <1>2
    <3> QED
      BY <3>1, <1>2, ToSetProperties DEF Distinct
  <2> QED
    BY <2>2, <2>3
<1>5. ASSUME NEW x, x \in ToSet(s), x # s[k]
      PROVE  x \in ToSet(r)
  <2>1. PICK i \in 1..Len(s) : s[i] = x
    BY <1>5, ToSetProperties
  <2>2. CASE i < k
    <3>1. i \in 1..(Len(s) - 1) /\ r[i] = x
      BY <2>1, <2>2, <1>1, <1>2
    <3> QED
      BY <3>1, <1>1, ToSetProperties
  <2>3. CASE i > k
    <3>1. i - 1 \in 1..(Len(s) - 1) /\ ~(i - 1 < k) /\ (i - 1) + 1 = i
      BY <2>3, <1>2
    <3>2. r[i - 1] = x
      BY <2>1, <3>1, <1>1
    <3> QED
      BY <3>1, <3>2, <1>1, ToSetProperties
  <2>4. i # k
    BY <2>1, <1>5
  <2> QED
    BY <2>2, <2>3, <2>4, <1>2
<1> QED
  BY <1>3, <1>4, <1>5 DEF r

-----------------------------------------------------------------------------
(* Notification queues.                                                    *)

(* push_overwrite keeps the limit and leaves the new element at the end.   *)
LEMMA PushOverwriteProperties ==
  ASSUME NEW q \in Seq(Contents), NEW c \in Contents, Len(q) <= QueueLen
  PROVE  /\ PushOverwrite(q, c) \in Seq(Contents)
         /\ PushOverwrite(q, c) # <<>>
         /\ Len(PushOverwrite(q, c)) <= QueueLen
         /\ Last(PushOverwrite(q, c)) = c
<1>1. Len(q) \in Nat /\ QueueLen \in Nat \ {0}
  BY LenProperties, ItemsAssumption
<1>2. CASE Len(q) < QueueLen
  <2>1. PushOverwrite(q, c) = Append(q, c)
    BY <1>2 DEF PushOverwrite
  <2>2. /\ Append(q, c) \in Seq(Contents) /\ Append(q, c) # <<>>
        /\ Len(Append(q, c)) = Len(q) + 1
        /\ Append(q, c)[Len(q) + 1] = c
    BY AppendProperties
  <2> QED
    BY <1>1, <1>2, <2>1, <2>2 DEF Last
<1>3. CASE ~(Len(q) < QueueLen)
  <2>1. PushOverwrite(q, c) = Append(Front(q), c)
    BY <1>3 DEF PushOverwrite
  <2>2. \A i \in 1..(Len(q) - 1) : q[i] \in Contents
    BY <1>1, ElementOfSeq
  <2>3. /\ Front(q) \in Seq(Contents)
        /\ Len(Front(q)) = IF 1 <= Len(q) - 1 THEN (Len(q) - 1) - 1 + 1 ELSE 0
    BY <2>2, <1>1, SubSeqProperties DEF Front
  <2>4. Len(Front(q)) = Len(q) - 1
    <3>1. Len(q) \in Nat \ {0}
      BY <1>1, <1>3
    <3>2. \A n \in Nat \ {0} :
            (IF 1 <= n - 1 THEN (n - 1) - 1 + 1 ELSE 0) = n - 1
      OBVIOUS
    <3> QED
      BY <2>3, <3>1, <3>2
  <2>5. /\ Append(Front(q), c) \in Seq(Contents)
        /\ Append(Front(q), c) # <<>>
        /\ Len(Append(Front(q), c)) = Len(Front(q)) + 1
        /\ Append(Front(q), c)[Len(Front(q)) + 1] = c
    BY <2>3, AppendProperties
  <2>6. Len(Append(Front(q), c)) = Len(q)
    BY <1>1, <2>4, <2>5
  <2>7. Last(Append(Front(q), c)) = c
    BY <2>5 DEF Last
  <2> QED
    BY <2>1, <2>5, <2>6, <2>7
<1> QED
  BY <1>2, <1>3

(* Delivery to a set of accessors reaches the live ones among them.        *)
LEMMA PushToProperties ==
  ASSUME ItemsTypeOK, NEW A, NEW c \in Contents, PushTo(A, c)
  PROVE  /\ queue' \in [Accessors -> Seq(Contents)]
         /\ \A a \in Accessors : Len(queue'[a]) <= QueueLen
         /\ latest' \in [Accessors -> Contents \cup {NoData}]
         /\ excRun' \in [Accessors -> Nat]
         /\ \A a \in Accessors :
              IF a \in A /\ obj[a] = "live"
              THEN /\ queue'[a] # <<>>
                   /\ Last(queue'[a]) = c
                   /\ latest'[a] = c
                   /\ excRun'[a] = IF c = Exception THEN excRun[a] + 1 ELSE 0
              ELSE /\ queue'[a] = queue[a]
                   /\ latest'[a] = latest[a]
                   /\ excRun'[a] = excRun[a]
<1> DEFINE L == {a \in A : obj[a] = "live"}
<1>1. /\ queue' = [a \in Accessors |->
                     IF a \in L THEN PushOverwrite(queue[a], c) ELSE queue[a]]
      /\ latest' = [a \in Accessors |-> IF a \in L THEN c ELSE latest[a]]
      /\ excRun' = [a \in Accessors |->
                      IF a \notin L THEN excRun[a]
                      ELSE IF c = Exception THEN excRun[a] + 1 ELSE 0]
  BY DEF PushTo
<1>2. \A a \in Accessors : queue[a] \in Seq(Contents) /\ Len(queue[a]) <= QueueLen
  BY DEF ItemsTypeOK
<1>3. \A a \in Accessors :
        /\ PushOverwrite(queue[a], c) \in Seq(Contents)
        /\ PushOverwrite(queue[a], c) # <<>>
        /\ Len(PushOverwrite(queue[a], c)) <= QueueLen
        /\ Last(PushOverwrite(queue[a], c)) = c
  BY <1>2, PushOverwriteProperties
<1>4. /\ latest \in [Accessors -> Contents \cup {NoData}]
      /\ excRun \in [Accessors -> Nat]
  BY DEF ItemsTypeOK
<1>5. \A a : a \in L <=> a \in A /\ obj[a] = "live"
  OBVIOUS
<1> HIDE DEF L
<1>6. /\ queue' \in [Accessors -> Seq(Contents)]
      /\ \A a \in Accessors : Len(queue'[a]) <= QueueLen
  BY <1>1, <1>2, <1>3
<1>7. /\ latest' \in [Accessors -> Contents \cup {NoData}]
      /\ excRun' \in [Accessors -> Nat]
  BY <1>1, <1>4
<1>8. \A a \in Accessors :
        IF a \in L
        THEN /\ queue'[a] # <<>>
             /\ Last(queue'[a]) = c
             /\ latest'[a] = c
             /\ excRun'[a] = IF c = Exception THEN excRun[a] + 1 ELSE 0
        ELSE /\ queue'[a] = queue[a]
             /\ latest'[a] = latest[a]
             /\ excRun'[a] = excRun[a]
  BY <1>1, <1>3
<1> QED
  BY <1>5, <1>6, <1>7, <1>8

-----------------------------------------------------------------------------
(* The initial state.                                                      *)

(* The empty map.                                                          *)
LEMMA InitialMap == DOMAIN <<>> = {} /\ <<>> \in [DOMAIN <<>> -> Nat]
<1>1. <<>> \in Seq(Nat) /\ Len(<<>>) = 0
  BY EmptySeq
<1>2. DOMAIN <<>> = 1..0 /\ <<>> \in [1..0 -> Nat]
  BY <1>1, LenProperties
<1> QED
  BY <1>2

(* A new item has the type of items.                                       *)
LEMMA FreshItem == Fresh \in Item
BY EmptySeq DEF Fresh, Item

(* The types hold initially.                                               *)
LEMMA TypeInit == ItemsInit => ItemsTypeOK
<1> SUFFICES ASSUME ItemsInit PROVE ItemsTypeOK
  OBVIOUS
<1> USE DEF ItemsInit
<1>1. items \in Seq(Nodes) /\ item \in [Nodes -> Item]
  BY EmptySeq, FreshItem
<1>2. DOMAIN subscriptionMap \subseteq MonIds
      /\ subscriptionMap \in [DOMAIN subscriptionMap -> Nat]
  BY InitialMap
<1>3. /\ queue \in [Accessors -> Seq(Contents)]
      /\ \A a \in Accessors : Len(queue[a]) <= QueueLen
  BY EmptySeq, ItemsAssumption
<1>4. /\ data \in [Accessors -> Values \cup {NoData}]
      /\ obj \in [Accessors -> {"none", "live", "dangling"}]
      /\ handling \in [Handlers -> MonIds \cup {0}]
      /\ crashed \in BOOLEAN
      /\ latest \in [Accessors -> Contents \cup {NoData}]
      /\ excRun \in [Accessors -> Nat]
  OBVIOUS
<1> QED
  BY <1>1, <1>2, <1>3, <1>4 DEF ItemsTypeOK

(* No item is in use initially.                                            *)
LEMMA InUseInit == ItemsInit => ItemsInUse
<1> SUFFICES ASSUME ItemsInit PROVE ItemsInUse
  OBVIOUS
<1>1. ToSet(<<>>) = {} /\ DOMAIN <<>> = {}
  BY EmptySeq, ToSetProperties, InitialMap
<1> QED
  BY <1>1 DEF ItemsInit, ItemsInUse, Listed, Users, Fresh

(* No exception has been sent initially.                                   *)
LEMMA FlagInit == ItemsInit => FlagCoversExceptions
BY DEF ItemsInit, FlagCoversExceptions

-----------------------------------------------------------------------------
(* Types.                                                                  *)

(* What ItemsInUse says of the node of one accessor.                       *)
LEMMA NodeProperties ==
  ASSUME ItemsTypeOK, ItemsInUse, NEW a \in Accessors
  PROVE  /\ NodeOf[a] \in Nodes
         /\ item[NodeOf[a]] \in Item
         /\ item[NodeOf[a]].accessors \in Seq(Accessors)
         /\ Distinct(item[NodeOf[a]].accessors)
         /\ a \in ToSet(item[NodeOf[a]].accessors) <=> obj[a] # "none"
<1>1. NodeOf[a] \in Nodes
  BY ItemsAssumption
<1>2. item[NodeOf[a]] \in Item
  BY <1>1 DEF ItemsTypeOK
<1>3. item[NodeOf[a]].accessors \in Seq(Accessors)
  BY <1>2 DEF Item
<1>4. Distinct(item[NodeOf[a]].accessors)
  BY <1>1 DEF ItemsInUse, Distinct
<1>5. a \in ToSet(item[NodeOf[a]].accessors) <=> obj[a] # "none"
  BY <1>1 DEF ItemsInUse, Users
<1> QED
  BY <1>1, <1>2, <1>3, <1>4, <1>5

(* Destroying an accessor keeps the types.                                 *)
LEMMA DestroyTypes ==
  ASSUME ItemsTypeOK, NEW a \in Accessors, Destroy(a)
  PROVE  /\ queue' \in [Accessors -> Seq(Contents)]
         /\ \A b \in Accessors : Len(queue'[b]) <= QueueLen
         /\ data' \in [Accessors -> Values \cup {NoData}]
         /\ obj' \in [Accessors -> {"none", "live", "dangling"}]
         /\ latest' \in [Accessors -> Contents \cup {NoData}]
         /\ excRun' \in [Accessors -> Nat]
<1>1. <<>> \in Seq(Contents) /\ Len(<<>>) <= QueueLen
  BY EmptySeq, ItemsAssumption
<1>2. /\ queue' \in [Accessors -> Seq(Contents)]
      /\ \A b \in Accessors : Len(queue'[b]) <= QueueLen
  BY <1>1 DEF Destroy, ItemsTypeOK
<1> QED
  BY <1>2 DEF Destroy, ItemsTypeOK

(* Every action keeps the types.                                           *)
LEMMA TypeStep == ItemsTypeOK /\ ItemsInUse /\ [ItemsNext]_itemVars => ItemsTypeOK'
<1> SUFFICES ASSUME ItemsTypeOK, ItemsInUse, [ItemsNext]_itemVars
             PROVE  ItemsTypeOK'
  OBVIOUS
<1>1. CASE UNCHANGED itemVars
  BY <1>1 DEF itemVars, ItemsTypeOK
<1>2. ASSUME NEW a \in Accessors, SubscribeNew(a)
      PROVE  ItemsTypeOK'
  <2>1. NodeOf[a] \in Nodes
    BY ItemsAssumption
  <2>2. items' \in Seq(Nodes)
    BY <1>2, <2>1, AppendProperties DEF SubscribeNew, ItemsTypeOK
  <2>3. [Fresh EXCEPT !.accessors = <<a>>] \in Item
    <3>1. <<a>> \in Seq(Accessors)
      OBVIOUS
    <3> QED
      BY <3>1 DEF Fresh, Item
  <2>4. item' \in [Nodes -> Item]
    BY <1>2, <2>3 DEF SubscribeNew, ItemsTypeOK
  <2> QED
    BY <1>2, <2>2, <2>4 DEF SubscribeNew, ItemsTypeOK
<1>3. ASSUME NEW a \in Accessors, SubscribeShared(a)
      PROVE  ItemsTypeOK'
  <2> DEFINE n == NodeOf[a]
             v == InitialValue(Last(item[n].accessors))
  <2>1. n \in Nodes /\ item[n] \in Item /\ item[n].accessors \in Seq(Accessors)
    BY NodeProperties
  <2>2. Append(item[n].accessors, a) \in Seq(Accessors)
    BY <2>1, AppendProperties
  <2>3. item' = [item EXCEPT ![n].accessors = Append(@, a)]
    BY <1>3 DEF SubscribeShared
  <2>4. item' \in [Nodes -> Item]
    BY <2>1, <2>2, <2>3 DEF ItemsTypeOK, Item
  <2>5. /\ queue' \in [Accessors -> Seq(Contents)]
        /\ \A b \in Accessors : Len(queue'[b]) <= QueueLen
        /\ latest' \in [Accessors -> Contents \cup {NoData}]
    <3>1. CASE item[n].active /\ v \in Values
      <4>1. <<v>> \in Seq(Contents) /\ Len(<<v>>) = 1 /\ v \in Contents
        BY <3>1 DEF Contents
      <4>2. queue' = [queue EXCEPT ![a] = <<v>>] /\ latest' = [latest EXCEPT ![a] = v]
        BY <1>3, <3>1 DEF SubscribeShared
      <4> HIDE DEF v
      <4> QED
        BY <4>1, <4>2, ItemsAssumption DEF ItemsTypeOK
    <3>2. CASE ~(item[n].active /\ v \in Values)
      BY <1>3, <3>2 DEF SubscribeShared, ItemsTypeOK
    <3> QED
      BY <3>1, <3>2
  <2> QED
    BY <1>3, <2>4, <2>5 DEF SubscribeShared, ItemsTypeOK
<1>4. ASSUME NEW a \in Accessors, UnsubscribeShared(a)
      PROVE  ItemsTypeOK'
  <2> DEFINE n == NodeOf[a]
             s == item[n].accessors
  <2>1. n \in Nodes /\ s \in Seq(Accessors) /\ a \in ToSet(s)
    BY <1>4, NodeProperties DEF UnsubscribeShared
  <2>2. RemoveAt(s, IndexOf(s, a)) \in Seq(Accessors)
    BY <2>1, IndexOfProperties, RemoveAtProperties
  <2>3. item' = [item EXCEPT ![n].accessors = RemoveAt(@, IndexOf(@, a))]
        /\ Destroy(a)
    BY <1>4 DEF UnsubscribeShared
  <2>4. item' \in [Nodes -> Item]
    BY <2>1, <2>2, <2>3, ZenonT(40) DEF ItemsTypeOK, Item
  <2> QED
    BY <1>4, <2>3, <2>4, DestroyTypes DEF UnsubscribeShared, ItemsTypeOK
<1>5. ASSUME NEW a \in Accessors, UnsubscribeLast(a)
      PROVE  ItemsTypeOK'
  <2> DEFINE n == NodeOf[a]
             i == IndexOf(items, n)
             D == DOMAIN subscriptionMap \ {item[n].id}
  <2>1. n \in Nodes /\ items \in Seq(Nodes) /\ n \in ToSet(items)
    BY <1>5, NodeProperties DEF UnsubscribeLast, Listed, ItemsTypeOK
  <2>2. i \in 1..Len(items) /\ Len(items) \in Nat
    BY <2>1, IndexOfProperties, LenProperties
  <2>3. items' \in Seq(Nodes)
    BY <1>5, <2>1, <2>2, RemoveAtProperties DEF UnsubscribeLast
  <2>4. \A k \in Nat : SlotAfterErase(k, i) \in Nat
    BY <2>2 DEF SlotAfterErase
  <2>5. subscriptionMap' = [id \in D |-> SlotAfterErase(subscriptionMap[id], i)]
    BY <1>5 DEF UnsubscribeLast
  <2>6. DOMAIN subscriptionMap' = D /\ subscriptionMap' \in [D -> Nat]
    <3>1. \A id \in D : subscriptionMap[id] \in Nat
      BY DEF ItemsTypeOK
    <3> HIDE DEF i, D
    <3> QED
      BY <2>4, <2>5, <3>1
  <2>7. item' \in [Nodes -> Item]
    BY <1>5, FreshItem DEF UnsubscribeLast, ItemsTypeOK
  <2>8. D \subseteq MonIds
    BY DEF ItemsTypeOK
  <2>9. Destroy(a)
    BY <1>5 DEF UnsubscribeLast
  <2> HIDE DEF D
  <2> QED
    BY <1>5, <2>3, <2>6, <2>7, <2>8, <2>9, DestroyTypes
    DEF UnsubscribeLast, ItemsTypeOK
<1>6. ASSUME NEW a \in Accessors, Abandon(a)
      PROVE  ItemsTypeOK'
  BY <1>6 DEF Abandon, ItemsTypeOK
<1>7. ASSUME NEW a \in Accessors, Pop(a)
      PROVE  ItemsTypeOK'
  <2>1. /\ queue[a] \in Seq(Contents) /\ queue[a] # <<>>
        /\ Len(queue[a]) \in Nat /\ Len(queue[a]) <= QueueLen
    BY <1>7, LenProperties DEF Pop, ItemsTypeOK
  <2>2. /\ Head(queue[a]) \in Contents /\ Tail(queue[a]) \in Seq(Contents)
        /\ Len(Tail(queue[a])) = Len(queue[a]) - 1
    BY <2>1, HeadTailProperties
  <2>3. Len(Tail(queue[a])) <= QueueLen
    BY <2>1, <2>2, ItemsAssumption
  <2>4. queue' = [queue EXCEPT ![a] = Tail(@)]
    BY <1>7 DEF Pop
  <2>5. /\ queue' \in [Accessors -> Seq(Contents)]
        /\ \A b \in Accessors : Len(queue'[b]) <= QueueLen
    BY <2>2, <2>3, <2>4 DEF ItemsTypeOK
  <2>6. data' \in [Accessors -> Values \cup {NoData}]
    BY <1>7, <2>2 DEF Pop, ItemsTypeOK, Contents
  <2> QED
    BY <1>7, <2>5, <2>6 DEF Pop, ItemsTypeOK
<1>8. ASSUME NEW n \in Nodes, NEW id \in MonIds, MonitorItem(n, id)
      PROVE  ItemsTypeOK'
  <2> DEFINE D == DOMAIN subscriptionMap \cup {id}
             f == [j \in D |-> IF j = id THEN IndexOf(items, n)
                               ELSE subscriptionMap[j]]
  <2>1. IndexOf(items, n) \in Nat
    <3>1. IndexOf(items, n) \in 1..Len(items) /\ Len(items) \in Nat
      BY <1>8, IndexOfProperties, LenProperties
      DEF MonitorItem, Listed, ItemsTypeOK
    <3> QED
      BY <3>1
  <2>2. subscriptionMap' = f
    BY <1>8 DEF MonitorItem
  <2>3. \A j \in DOMAIN subscriptionMap : subscriptionMap[j] \in Nat
    BY DEF ItemsTypeOK
  <2>4. DOMAIN f = D /\ f \in [D -> Nat]
    BY <2>1, <2>3
  <2>5. D \subseteq MonIds
    BY DEF ItemsTypeOK
  <2>6. item' \in [Nodes -> Item]
    BY <1>8, ZenonT(40) DEF MonitorItem, ItemsTypeOK, Item
  <2> HIDE DEF D, f
  <2> QED
    BY <1>8, <2>2, <2>4, <2>5, <2>6 DEF MonitorItem, ItemsTypeOK
<1>9. ASSUME NEW S \in SUBSET Nodes, ActivateItems(S)
      PROVE  ItemsTypeOK'
  <2>1. item' \in [Nodes -> Item]
    BY <1>9, ZenonT(40) DEF ActivateItems, ItemsTypeOK, Item
  <2> QED
    BY <1>9, <2>1 DEF ActivateItems, ItemsTypeOK
<1>10. CASE DeactivateItems
  <2>1. item' \in [Nodes -> Item]
    BY <1>10, ZenonT(40) DEF DeactivateItems, ItemsTypeOK, Item
  <2> QED
    BY <1>10, <2>1 DEF DeactivateItems, ItemsTypeOK
<1>11. CASE ResetMonitoredItems
  <2>1. item' \in [Nodes -> Item]
    BY <1>11 DEF ResetMonitoredItems, ItemsTypeOK, Item
  <2> QED
    BY <1>11, <2>1, InitialMap DEF ResetMonitoredItems, ItemsTypeOK
<1>12. CASE HandleException
  <2>1. item' \in [Nodes -> Item]
    BY <1>12, ZenonT(40) DEF HandleException, Failing, ItemsTypeOK, Item
  <2>2. Exception \in Contents
    BY DEF Contents
  <2>3. PICK A : PushTo(A, Exception)
    BY <1>12 DEF HandleException, Failing
  <2> QED
    BY <1>12, <2>1, <2>2, <2>3, PushToProperties DEF HandleException, Failing, ItemsTypeOK
<1>13. CASE Terminate
  BY <1>13 DEF Terminate, ItemsTypeOK
<1>14. ASSUME NEW n \in Nodes, SetExternalError(n)
       PROVE  ItemsTypeOK'
  <2>1. item' \in [Nodes -> Item]
    BY <1>14, ZenonT(40) DEF SetExternalError, ItemsTypeOK, Item
  <2> QED
    BY <1>14, <2>1 DEF SetExternalError, ItemsTypeOK
<1>15. ASSUME NEW h \in Handlers, NEW id \in MonIds, CheckActive(h, id)
       PROVE  ItemsTypeOK'
  BY <1>15 DEF CheckActive, ItemsTypeOK
<1>16. ASSUME NEW h \in Handlers, NEW v \in Values, PushValue(h, v)
       PROVE  ItemsTypeOK'
  <2> DEFINE id == handling[h]
  <2>1. handling' \in [Handlers -> MonIds \cup {0}]
    BY <1>16 DEF PushValue, ItemsTypeOK
  <2>2. CASE LiveSlot(id)
    <3>1. item' = [item EXCEPT ![ItemAt(id)].hasException = FALSE]
          /\ PushTo(Users(ItemAt(id)), v)
      BY <1>16, <2>2 DEF PushValue
    <3>2. item' \in [Nodes -> Item]
      BY <3>1 DEF ItemsTypeOK, Item
    <3>3. v \in Contents
      BY DEF Contents
    <3>4. PICK A : PushTo(A, v)
      BY <3>1
    <3> QED
      BY <1>16, <2>1, <3>2, <3>3, <3>4, PushToProperties DEF PushValue, ItemsTypeOK
  <2>3. CASE ~LiveSlot(id)
    BY <1>16, <2>1, <2>3 DEF PushValue, ItemsTypeOK
  <2> QED
    BY <2>2, <2>3
<1>17. ASSUME NEW h \in Handlers, NullItem(h)
       PROVE  ItemsTypeOK'
  BY <1>17 DEF NullItem, ItemsTypeOK
<1>18. ASSUME NEW a \in Accessors, SubscribeThrow(a)
       PROVE  ItemsTypeOK'
  <2> DEFINE n == NodeOf[a]
  <2>1. n \in Nodes /\ item[n] \in Item /\ item[n].accessors \in Seq(Accessors)
    BY NodeProperties
  <2>2. Append(item[n].accessors, a) \in Seq(Accessors)
    BY <2>1, AppendProperties
  <2>3. item' = [item EXCEPT ![n].accessors = Append(@, a)]
    BY <1>18 DEF SubscribeThrow
  <2>4. item' \in [Nodes -> Item]
    BY <2>1, <2>2, <2>3 DEF ItemsTypeOK, Item
  <2> QED
    BY <1>18, <2>4 DEF SubscribeThrow, ItemsTypeOK
<1> QED
  BY <1>1, <1>2, <1>3, <1>4, <1>5, <1>6, <1>7, <1>8, <1>9, <1>10, <1>11, <1>12,
     <1>13, <1>14, <1>15, <1>16, <1>17, <1>18 DEF ItemsNext

-----------------------------------------------------------------------------
(* Items in use.                                                           *)

(* The three parts of ItemsInUse, the second one per node.                 *)
LEMMA InUseParts ==
  ItemsInUse <=>
    /\ Distinct(items)
    /\ \A n \in Nodes :
         /\ n \in ToSet(items) <=> item[n].accessors # <<>>
         /\ Distinct(item[n].accessors)
    /\ \A b \in Accessors, n \in Nodes :
         b \in ToSet(item[n].accessors) <=> obj[b] # "none" /\ NodeOf[b] = n
BY DEF ItemsInUse, Distinct, Listed, Users

(* The same parts in the next state.                                       *)
LEMMA InUsePartsPrime ==
  ItemsInUse' <=>
    /\ Distinct(items')
    /\ \A n \in Nodes :
         /\ n \in ToSet(items') <=> item'[n].accessors # <<>>
         /\ Distinct(item'[n].accessors)
    /\ \A b \in Accessors, n \in Nodes :
         b \in ToSet(item'[n].accessors) <=> obj'[b] # "none" /\ NodeOf[b] = n
BY DEF ItemsInUse, Distinct, Listed, Users

(* Actions that neither list nor unlist anything.                          *)
LEMMA InUseFrame ==
  ASSUME ItemsInUse, items' = items,
         \A b \in Accessors : obj'[b] # "none" <=> obj[b] # "none",
         \A n \in Nodes : item'[n].accessors = item[n].accessors
  PROVE  ItemsInUse'
BY InUseParts, InUsePartsPrime

(* A list of accessors with one element.                                   *)
LEMMA Singleton ==
  ASSUME NEW e
  PROVE  <<e>> # <<>> /\ Distinct(<<e>>) /\ \A x : x \in ToSet(<<e>>) <=> x = e
<1>1. <<e>> \in Seq({e}) /\ Len(<<e>>) = 1 /\ <<e>>[1] = e
  OBVIOUS
<1>2. DOMAIN <<e>> = 1..1
  BY <1>1, LenProperties
<1>3. \A x : x \in ToSet(<<e>>) <=> \E i \in 1..1 : <<e>>[i] = x
  BY <1>2 DEF ToSet
<1> QED
  BY <1>1, <1>2, <1>3 DEF Distinct

(* Every action keeps the lists and the objects' lifetimes together.       *)
LEMMA InUseStep == ItemsTypeOK /\ ItemsInUse /\ [ItemsNext]_itemVars => ItemsInUse'
<1> SUFFICES ASSUME ItemsTypeOK, ItemsInUse, [ItemsNext]_itemVars
             PROVE  ItemsInUse'
  OBVIOUS
<1>0. /\ items \in Seq(Nodes) /\ item \in [Nodes -> Item]
      /\ obj \in [Accessors -> {"none", "live", "dangling"}]
      /\ NodeOf \in [Accessors -> Nodes]
  BY ItemsAssumption DEF ItemsTypeOK
<1>1. CASE UNCHANGED itemVars
  BY <1>1, InUseFrame DEF itemVars
<1>2. ASSUME NEW a \in Accessors, SubscribeNew(a)
      PROVE  ItemsInUse'
  <2> DEFINE n == NodeOf[a]
             r == [Fresh EXCEPT !.accessors = <<a>>]
  <2>1. /\ n \in Nodes /\ n \notin ToSet(items) /\ obj[a] = "none"
        /\ items' = Append(items, n)
        /\ item' = [item EXCEPT ![n] = r]
        /\ obj' = [obj EXCEPT ![a] = "live"]
    BY <1>0, <1>2 DEF SubscribeNew, Listed
  <2>2. Distinct(items') /\ \A m : m \in ToSet(items') <=> m \in ToSet(items) \/ m = n
    BY <1>0, <2>1, InUseParts, AppendDistinct
  <2>3. r.accessors = <<a>>
    BY DEF Fresh
  <2> HIDE DEF r
  <2>4. /\ item'[n].accessors = <<a>>
        /\ \A m \in Nodes : m # n => item'[m] = item[m]
    BY <1>0, <2>1, <2>3
  <2>5. \A b \in Accessors : NodeOf[b] = n => obj[b] = "none"
    <3>1. item[n].accessors = <<>>
      BY <2>1, InUseParts
    <3>2. ToSet(<<>>) = {}
      BY EmptySeq, ToSetProperties
    <3> QED
      BY <2>1, <3>1, <3>2, InUseParts
  <2>6. \A b \in Accessors : obj'[b] = IF b = a THEN "live" ELSE obj[b]
    BY <1>0, <2>1
  <2>7. ASSUME NEW m \in Nodes
        PROVE  /\ m \in ToSet(items') <=> item'[m].accessors # <<>>
               /\ Distinct(item'[m].accessors)
               /\ \A b \in Accessors : b \in ToSet(item'[m].accessors)
                                         <=> obj'[b] # "none" /\ NodeOf[b] = m
    <3>1. CASE m = n
      BY <3>1, <2>2, <2>4, <2>5, <2>6, Singleton
    <3>2. CASE m # n
      BY <3>2, <2>2, <2>4, <2>6, InUseParts
    <3> QED
      BY <3>1, <3>2
  <2> QED
    BY <2>2, <2>7, InUsePartsPrime
<1>3. ASSUME NEW a \in Accessors, SubscribeShared(a) \/ SubscribeThrow(a)
      PROVE  ItemsInUse'
  <2> DEFINE n == NodeOf[a]
             s == item[n].accessors
             r == Append(s, a)
  <2>1. /\ n \in Nodes /\ n \in ToSet(items) /\ obj[a] = "none"
        /\ items' = items
        /\ item' = [item EXCEPT ![n].accessors = Append(@, a)]
        /\ \/ obj' = [obj EXCEPT ![a] = "live"]
           \/ obj' = [obj EXCEPT ![a] = "dangling"]
    BY <1>0, <1>3 DEF SubscribeShared, SubscribeThrow, Listed
  <2>2. s \in Seq(Accessors) /\ Distinct(s) /\ a \notin ToSet(s) /\ item[n] \in Item
    BY <2>1, NodeProperties
  <2>3. /\ r # <<>> /\ Distinct(r)
        /\ \A x : x \in ToSet(r) <=> x \in ToSet(s) \/ x = a
    BY <2>2, AppendDistinct
  <2>4. /\ item'[n].accessors = r
        /\ \A m \in Nodes : m # n => item'[m] = item[m]
    BY <1>0, <2>1, <2>2 DEF Item
  <2>5. \A b \in Accessors : obj'[b] # "none" <=> obj[b] # "none" \/ b = a
    BY <1>0, <2>1
  <2>6. \A b \in Accessors : b \in ToSet(s) <=> obj[b] # "none" /\ NodeOf[b] = n
    BY <2>1, InUseParts
  <2> HIDE DEF r, s
  <2>7. ASSUME NEW m \in Nodes
        PROVE  /\ m \in ToSet(items') <=> item'[m].accessors # <<>>
               /\ Distinct(item'[m].accessors)
               /\ \A b \in Accessors : b \in ToSet(item'[m].accessors)
                                         <=> obj'[b] # "none" /\ NodeOf[b] = m
    <3>1. CASE m = n
      <4>1. m \in ToSet(items') /\ item'[m].accessors = r
        BY <3>1, <2>1, <2>4
      <4>2. \A b \in Accessors :
              b \in ToSet(r) <=> obj'[b] # "none" /\ NodeOf[b] = m
        BY <3>1, <2>3, <2>5, <2>6
      <4> QED
        BY <4>1, <4>2, <2>3
    <3>2. CASE m # n
      BY <3>2, <2>1, <2>4, <2>5, InUseParts
    <3> QED
      BY <3>1, <3>2
  <2> QED
    BY <2>1, <2>7, InUseParts, InUsePartsPrime
<1>4. ASSUME NEW a \in Accessors, UnsubscribeShared(a)
      PROVE  ItemsInUse'
  <2> DEFINE n == NodeOf[a]
             s == item[n].accessors
             k == IndexOf(s, a)
             r == RemoveAt(s, k)
  <2>1. /\ n \in Nodes /\ n \in ToSet(items) /\ obj[a] = "live" /\ Len(s) > 1
        /\ items' = items
        /\ item' = [item EXCEPT ![n].accessors = RemoveAt(@, IndexOf(@, a))]
        /\ obj' = [obj EXCEPT ![a] = "none"]
    BY <1>0, <1>4 DEF UnsubscribeShared, Listed, Destroy
  <2>2. s \in Seq(Accessors) /\ Distinct(s) /\ a \in ToSet(s) /\ item[n] \in Item
    BY <2>1, NodeProperties
  <2>3. k \in 1..Len(s) /\ s[k] = a
    BY <2>2, IndexOfProperties
  <2> HIDE DEF s, k
  <2>4. /\ Distinct(r) /\ r \in Seq(Accessors) /\ Len(r) = Len(s) - 1
        /\ \A x : x \in ToSet(r) <=> x \in ToSet(s) /\ x # a
    <3>1. r \in Seq(Accessors) /\ Len(r) = Len(s) - 1
      BY <2>2, <2>3, RemoveAtProperties
    <3>2. Distinct(r) /\ \A x : x \in ToSet(r) <=> x \in ToSet(s) /\ x # s[k]
      BY <2>2, <2>3, RemoveAtDistinct
    <3> QED
      BY <3>1, <3>2, <2>3
  <2> USE DEF s, k
  <2>5. /\ item'[n].accessors = r
        /\ \A m \in Nodes : m # n => item'[m] = item[m]
    BY <1>0, <2>1, <2>2 DEF Item
  <2>6. \A b \in Accessors : obj'[b] = IF b = a THEN "none" ELSE obj[b]
    BY <1>0, <2>1
  <2>7. r # <<>>
    <3>1. Len(s) \in Nat
      BY <2>2, LenProperties
    <3>2. \A l \in Nat : l > 1 => l - 1 # 0
      OBVIOUS
    <3>3. Len(r) # 0
      BY <3>1, <3>2, <2>1, <2>4
    <3> QED
      BY <3>3, EmptySeq
  <2> HIDE DEF r
  <2>8. ASSUME NEW m \in Nodes
        PROVE  /\ m \in ToSet(items') <=> item'[m].accessors # <<>>
               /\ Distinct(item'[m].accessors)
               /\ \A b \in Accessors : b \in ToSet(item'[m].accessors)
                                         <=> obj'[b] # "none" /\ NodeOf[b] = m
    <3>1. CASE m = n
      BY <3>1, <2>1, <2>4, <2>5, <2>6, <2>7, InUseParts
    <3>2. CASE m # n
      BY <3>2, <2>1, <2>5, <2>6, InUseParts
    <3> QED
      BY <3>1, <3>2
  <2> QED
    BY <2>1, <2>8, InUseParts, InUsePartsPrime
<1>5. ASSUME NEW a \in Accessors, UnsubscribeLast(a)
      PROVE  ItemsInUse'
  <2> DEFINE n == NodeOf[a]
             s == item[n].accessors
             i == IndexOf(items, n)
  <2>1. /\ n \in Nodes /\ n \in ToSet(items) /\ obj[a] = "live" /\ Len(s) <= 1
        /\ items' = RemoveAt(items, i)
        /\ item' = [item EXCEPT ![n] = Fresh]
        /\ obj' = [obj EXCEPT ![a] = "none"]
    BY <1>0, <1>5 DEF UnsubscribeLast, Listed, Destroy
  <2>2. i \in 1..Len(items) /\ items[i] = n
    BY <1>0, <2>1, IndexOfProperties
  <2>3. Distinct(items') /\ \A m : m \in ToSet(items') <=> m \in ToSet(items) /\ m # n
    BY <1>0, <2>1, <2>2, InUseParts, RemoveAtDistinct
  <2>4. s \in Seq(Accessors) /\ a \in ToSet(s)
    BY <2>1, NodeProperties
  <2>5. \A b \in Accessors : NodeOf[b] = n /\ obj[b] # "none" => b = a
    <3>1. Len(s) \in Nat /\ \A x : x \in ToSet(s) <=> \E j \in 1..Len(s) : s[j] = x
      BY <2>4, LenProperties, ToSetProperties
    <3>2. \A x \in ToSet(s) : x = a
      BY <3>1, <2>1, <2>4
    <3> QED
      BY <2>1, <3>2, InUseParts
  <2>6. /\ item'[n].accessors = <<>>
        /\ \A m \in Nodes : m # n => item'[m] = item[m]
    BY <1>0, <2>1 DEF Fresh
  <2>7. \A b \in Accessors : obj'[b] = IF b = a THEN "none" ELSE obj[b]
    BY <1>0, <2>1
  <2>8. Distinct(<<>>) /\ ToSet(<<>>) = {}
    BY InitialMap, EmptySeq, ToSetProperties DEF Distinct
  <2>9. ASSUME NEW m \in Nodes
        PROVE  /\ m \in ToSet(items') <=> item'[m].accessors # <<>>
               /\ Distinct(item'[m].accessors)
               /\ \A b \in Accessors : b \in ToSet(item'[m].accessors)
                                         <=> obj'[b] # "none" /\ NodeOf[b] = m
    <3>1. CASE m = n
      BY <3>1, <2>3, <2>5, <2>6, <2>7, <2>8
    <3>2. CASE m # n
      BY <3>2, <2>3, <2>6, <2>7, InUseParts
    <3> QED
      BY <3>1, <3>2
  <2> QED
    BY <2>3, <2>9, InUsePartsPrime
<1>6. ASSUME NEW a \in Accessors, Abandon(a)
      PROVE  ItemsInUse'
  BY <1>0, <1>6, InUseFrame DEF Abandon
<1>7. ASSUME NEW a \in Accessors, Pop(a)
      PROVE  ItemsInUse'
  BY <1>7, InUseFrame DEF Pop
<1>8. ASSUME NEW n \in Nodes, NEW id \in MonIds, MonitorItem(n, id)
      PROVE  ItemsInUse'
  BY <1>0, <1>8, InUseFrame DEF MonitorItem, Item
<1>9. ASSUME NEW S \in SUBSET Nodes, ActivateItems(S)
      PROVE  ItemsInUse'
  BY <1>0, <1>9, InUseFrame DEF ActivateItems, Item
<1>10. CASE DeactivateItems
  BY <1>0, <1>10, InUseFrame DEF DeactivateItems, Item
<1>11. CASE ResetMonitoredItems
  BY <1>0, <1>11, InUseFrame DEF ResetMonitoredItems, Item
<1>12. CASE HandleException
  BY <1>0, <1>12, InUseFrame DEF HandleException, Failing, Item
<1>13. CASE Terminate
  BY <1>13, InUseFrame DEF Terminate
<1>14. ASSUME NEW n \in Nodes, SetExternalError(n)
       PROVE  ItemsInUse'
  BY <1>0, <1>14, InUseFrame DEF SetExternalError, Item
<1>15. ASSUME NEW h \in Handlers, NEW id \in MonIds, CheckActive(h, id)
       PROVE  ItemsInUse'
  BY <1>15, InUseFrame DEF CheckActive
<1>16. ASSUME NEW h \in Handlers, NEW v \in Values, PushValue(h, v)
       PROVE  ItemsInUse'
  <2>1. \/ item' = item
        \/ item' = [item EXCEPT ![ItemAt(handling[h])].hasException = FALSE]
    BY <1>16 DEF PushValue
  <2>2. ASSUME NEW n \in Nodes
        PROVE  item'[n].accessors = item[n].accessors
    <3>1. item[n] \in Item
      BY <1>0
    <3>2. item'[n] = item[n] \/ item'[n] = [item[n] EXCEPT !.hasException = FALSE]
      BY <1>0, <2>1
    <3> QED
      BY <3>1, <3>2 DEF Item
  <2> QED
    BY <1>16, <2>2, InUseFrame DEF PushValue
<1>17. ASSUME NEW h \in Handlers, NullItem(h)
       PROVE  ItemsInUse'
  BY <1>17, InUseFrame DEF NullItem
<1> QED
  BY <1>1, <1>2, <1>3, <1>4, <1>5, <1>6, <1>7, <1>8, <1>9, <1>10, <1>11, <1>12,
     <1>13, <1>14, <1>15, <1>16, <1>17 DEF ItemsNext

-----------------------------------------------------------------------------
(* Exceptions.                                                             *)

(* Actions that push nothing, create no object and clear no flag.          *)
LEMMA FlagFrame ==
  ASSUME ItemsTypeOK, FlagCoversExceptions, excRun' = excRun,
         \A b \in Accessors : /\ obj'[b] = "live" => obj[b] = "live"
                              /\ obj'[b] = "none" => obj[b] = "none",
         \A n \in Nodes : item[n].hasException => item'[n].hasException
  PROVE  FlagCoversExceptions'
<1>1. \A b \in Accessors : NodeOf[b] \in Nodes
  BY ItemsAssumption
<1> QED
  BY <1>1 DEF FlagCoversExceptions

(* Destruction of an accessor; others keep the flag of their item, or have *)
(* no item left.                                                           *)
LEMMA FlagDestroy ==
  ASSUME ItemsTypeOK, FlagCoversExceptions, NEW a \in Accessors, Destroy(a),
         \A b \in Accessors \ {a} :
           obj[b] = "live" /\ item[NodeOf[b]].hasException
             => item'[NodeOf[b]].hasException
  PROVE  FlagCoversExceptions'
<1>1. /\ obj \in [Accessors -> {"none", "live", "dangling"}]
      /\ excRun \in [Accessors -> Nat]
  BY DEF ItemsTypeOK
<1>2. /\ obj' = [obj EXCEPT ![a] = "none"]
      /\ excRun' = [excRun EXCEPT ![a] = 0]
  BY DEF Destroy
<1> SUFFICES ASSUME NEW b \in Accessors
             PROVE  /\ excRun'[b] <= 1
                    /\ obj'[b] = "none" => excRun'[b] = 0
                    /\ obj'[b] = "live" /\ excRun'[b] = 1
                         => item'[NodeOf[b]].hasException
  BY DEF FlagCoversExceptions
<1>3. CASE b = a
  BY <1>1, <1>2, <1>3
<1>4. CASE b # a
  <2>1. obj'[b] = obj[b] /\ excRun'[b] = excRun[b]
    BY <1>1, <1>2, <1>4
  <2> QED
    BY <2>1, <1>4 DEF FlagCoversExceptions
<1> QED
  BY <1>3, <1>4

(* The flag of an item covers the exceptions of its accessors after every  *)
(* action.                                                                 *)
LEMMA FlagStep ==
  ItemsTypeOK /\ ItemsInUse /\ FlagCoversExceptions /\ [ItemsNext]_itemVars
    => FlagCoversExceptions'
<1> SUFFICES ASSUME ItemsTypeOK, ItemsInUse, FlagCoversExceptions,
                    [ItemsNext]_itemVars
             PROVE  FlagCoversExceptions'
  OBVIOUS
<1>0. /\ item \in [Nodes -> Item]
      /\ obj \in [Accessors -> {"none", "live", "dangling"}]
      /\ excRun \in [Accessors -> Nat]
      /\ NodeOf \in [Accessors -> Nodes]
  BY ItemsAssumption DEF ItemsTypeOK
<1>00. \A n \in Nodes : item[n].hasException \in BOOLEAN
  BY <1>0 DEF Item
<1>1. CASE UNCHANGED itemVars
  BY <1>1, FlagFrame DEF itemVars
<1>2. ASSUME NEW a \in Accessors, SubscribeNew(a)
      PROVE  FlagCoversExceptions'
  <2> DEFINE n == NodeOf[a]
  <2>1. /\ obj[a] = "none" /\ excRun[a] = 0 /\ excRun' = excRun
        /\ \A b \in Accessors : obj'[b] = IF b = a THEN "live" ELSE obj[b]
        /\ \A m \in Nodes : m # n => item'[m] = item[m]
    BY <1>0, <1>2 DEF SubscribeNew, FlagCoversExceptions
  <2>2. \A b \in Accessors : NodeOf[b] = n => obj[b] = "none"
    <3>1. n \notin ToSet(items)
      BY <1>2 DEF SubscribeNew, Listed
    <3>2. item[n].accessors = <<>> /\ ToSet(<<>>) = {}
      BY ZenonT(40), <1>0, <3>1, InUseParts, EmptySeq, ToSetProperties
    <3> QED
      BY <1>0, <3>2, InUseParts
  <2> QED
    BY <1>0, <2>1, <2>2 DEF FlagCoversExceptions
<1>3. ASSUME NEW a \in Accessors, SubscribeShared(a)
      PROVE  FlagCoversExceptions'
  <2>1. /\ excRun[a] = 0 /\ excRun' = excRun
        /\ \A b \in Accessors : obj'[b] = IF b = a THEN "live" ELSE obj[b]
    BY <1>0, <1>3 DEF SubscribeShared, FlagCoversExceptions
  <2>2. \A m \in Nodes : item'[m].hasException = item[m].hasException
    BY <1>0, <1>3 DEF SubscribeShared, Item
  <2> QED
    BY <1>0, <2>1, <2>2 DEF FlagCoversExceptions
<1>4. ASSUME NEW a \in Accessors, UnsubscribeShared(a)
      PROVE  FlagCoversExceptions'
  <2>1. \A m \in Nodes : item'[m].hasException = item[m].hasException
    BY <1>0, <1>4 DEF UnsubscribeShared, Item
  <2>2. Destroy(a)
    BY <1>4 DEF UnsubscribeShared
  <2> QED
    BY <1>0, <2>1, <2>2, FlagDestroy
<1>5. ASSUME NEW a \in Accessors, UnsubscribeLast(a)
      PROVE  FlagCoversExceptions'
  <2> DEFINE n == NodeOf[a]
             s == item[n].accessors
  <2>1. Destroy(a) /\ item' = [item EXCEPT ![n] = Fresh] /\ Len(s) <= 1
    BY <1>5 DEF UnsubscribeLast
  <2>2. s \in Seq(Accessors) /\ a \in ToSet(s)
    BY <1>5, NodeProperties DEF UnsubscribeLast
  <2>3. \A b \in Accessors \ {a} : obj[b] = "live" => NodeOf[b] # n
    <3>1. Len(s) \in Nat /\ \A x : x \in ToSet(s) <=> \E j \in 1..Len(s) : s[j] = x
      BY <2>2, LenProperties, ToSetProperties
    <3>2. \A x \in ToSet(s) : x = a
      BY <3>1, <2>1, <2>2
    <3> QED
      BY <1>0, <3>2, InUseParts
  <2>4. \A b \in Accessors \ {a} :
          obj[b] = "live" /\ item[NodeOf[b]].hasException
            => item'[NodeOf[b]].hasException
    BY <1>0, <2>1, <2>3
  <2> QED
    BY <2>1, <2>4, FlagDestroy
<1>6. ASSUME NEW a \in Accessors, Abandon(a)
      PROVE  FlagCoversExceptions'
  BY <1>0, <1>6, FlagFrame DEF Abandon
<1>7. ASSUME NEW a \in Accessors, Pop(a)
      PROVE  FlagCoversExceptions'
  BY <1>7, FlagFrame DEF Pop
<1>8. ASSUME NEW n \in Nodes, NEW id \in MonIds, MonitorItem(n, id)
      PROVE  FlagCoversExceptions'
  BY <1>0, <1>8, FlagFrame DEF MonitorItem, Item
<1>9. ASSUME NEW S \in SUBSET Nodes, ActivateItems(S)
      PROVE  FlagCoversExceptions'
  BY <1>0, <1>9, FlagFrame DEF ActivateItems, Item
<1>10. CASE DeactivateItems
  BY <1>0, <1>10, FlagFrame DEF DeactivateItems, Item
<1>11. CASE ResetMonitoredItems
  BY <1>0, <1>11, FlagFrame DEF ResetMonitoredItems, Item
<1>12. CASE HandleException
  <2> DEFINE S == {n \in ToSet(items) : item[n].active /\ ~item[n].hasException}
             A == UNION {Users(n) : n \in S}
  <2>1. PushTo(A, Exception)
    BY <1>12 DEF HandleException, Failing
  <2>2. \A n \in Nodes : item'[n].hasException
                           <=> item[n].hasException \/ n \in S
    BY <1>0, <1>12 DEF HandleException, Failing, Item
  <2>3. \A b \in Accessors : b \in A => NodeOf[b] \in S
    <3>1. ToSet(items) \subseteq Nodes
      BY ToSetProperties DEF ItemsTypeOK
    <3> QED
      BY <3>1 DEF ItemsInUse
  <2>4. \A n \in S : ~item[n].hasException
    OBVIOUS
  <2> HIDE DEF S, A
  <2>5. \A b \in Accessors :
          excRun'[b] = IF b \in A /\ obj[b] = "live" THEN excRun[b] + 1
                       ELSE excRun[b]
    BY <2>1, PushToProperties DEF Contents
  <2>6. obj' = obj
    BY <1>12 DEF HandleException, Failing
  <2> SUFFICES ASSUME NEW b \in Accessors
               PROVE  /\ excRun'[b] <= 1
                      /\ obj'[b] = "none" => excRun'[b] = 0
                      /\ obj'[b] = "live" /\ excRun'[b] = 1
                           => item'[NodeOf[b]].hasException
    BY DEF FlagCoversExceptions
  <2>7. /\ excRun[b] \in Nat /\ excRun[b] <= 1
        /\ obj[b] = "none" => excRun[b] = 0
        /\ obj[b] = "live" /\ excRun[b] = 1 => item[NodeOf[b]].hasException
    BY <1>0 DEF FlagCoversExceptions
  <2>8. CASE b \in A /\ obj[b] = "live"
    <3>1. NodeOf[b] \in Nodes /\ NodeOf[b] \in S
      BY <1>0, <2>3, <2>8
    <3>2. excRun[b] = 0
      BY <3>1, <2>4, <2>7, <2>8
    <3>3. item'[NodeOf[b]].hasException
      BY <3>1, <2>2
    <3> QED
      BY <3>2, <3>3, <2>5, <2>6, <2>8
  <2>9. CASE ~(b \in A /\ obj[b] = "live")
    BY <1>0, <2>2, <2>5, <2>6, <2>7, <2>9
  <2> QED
    BY <2>8, <2>9
<1>13. CASE Terminate
  BY <1>13, FlagFrame DEF Terminate
<1>14. ASSUME NEW n \in Nodes, SetExternalError(n)
       PROVE  FlagCoversExceptions'
  BY <1>0, <1>14, FlagFrame DEF SetExternalError, Item
<1>15. ASSUME NEW h \in Handlers, NEW id \in MonIds, CheckActive(h, id)
       PROVE  FlagCoversExceptions'
  BY <1>15, FlagFrame DEF CheckActive
<1>16. ASSUME NEW h \in Handlers, NEW v \in Values, PushValue(h, v)
       PROVE  FlagCoversExceptions'
  <2> DEFINE id == handling[h]
             m == ItemAt(id)
  <2>1. CASE LiveSlot(id)
    <3>1. item' = [item EXCEPT ![m].hasException = FALSE] /\ PushTo(Users(m), v)
          /\ obj' = obj
      BY <1>16, <2>1 DEF PushValue
    <3>2. m \in Nodes
      <4>1. items \in Seq(Nodes) /\ subscriptionMap[id] \in 1..Len(items)
        BY <2>1, LenProperties DEF LiveSlot, ItemsTypeOK
      <4> QED
        BY <4>1, ElementOfSeq DEF ItemAt
    <3>3. v \in Contents /\ v # Exception
      BY ItemsAssumption DEF Contents
    <3>4. \A b \in Accessors :
            excRun'[b] = IF b \in Users(m) /\ obj[b] = "live" THEN 0 ELSE excRun[b]
      BY <3>1, <3>3, PushToProperties
    <3>5. \A b \in Accessors : obj[b] = "live" /\ NodeOf[b] = m => b \in Users(m)
      BY <3>2 DEF ItemsInUse
    <3> HIDE DEF m
    <3>6. \A n \in Nodes : n # m => item'[n] = item[n]
      BY <1>0, <3>1
    <3> QED
      BY <1>0, <3>1, <3>4, <3>5, <3>6 DEF FlagCoversExceptions
  <2>2. CASE ~LiveSlot(id)
    BY <1>16, <2>2, FlagFrame DEF PushValue
  <2> QED
    BY <2>1, <2>2
<1>17. ASSUME NEW h \in Handlers, NullItem(h)
       PROVE  FlagCoversExceptions'
  BY <1>17, FlagFrame DEF NullItem
<1>18. ASSUME NEW a \in Accessors, SubscribeThrow(a)
       PROVE  FlagCoversExceptions'
  <2>1. /\ excRun' = excRun
        /\ \A b \in Accessors : obj'[b] = IF b = a THEN "dangling" ELSE obj[b]
    BY <1>0, <1>18 DEF SubscribeThrow
  <2>2. \A m \in Nodes : item'[m].hasException = item[m].hasException
    BY <1>0, <1>18 DEF SubscribeThrow, Item
  <2> QED
    BY <1>0, <2>1, <2>2 DEF FlagCoversExceptions
<1> QED
  BY <1>1, <1>2, <1>3, <1>4, <1>5, <1>6, <1>7, <1>8, <1>9, <1>10, <1>11, <1>12,
     <1>13, <1>14, <1>15, <1>16, <1>17, <1>18 DEF ItemsNext

-----------------------------------------------------------------------------
(* Overflow.                                                               *)

(* Actions that touch no queue.                                            *)
LEMMA NewestFrame ==
  ASSUME NewestKept, queue' = queue, data' = data, latest' = latest
  PROVE  NewestKept'
BY DEF NewestKept

(* A destroyed accessor has an empty queue and nothing sent.               *)
LEMMA NewestDestroy ==
  ASSUME ItemsTypeOK, NewestKept, NEW a \in Accessors, Destroy(a)
  PROVE  NewestKept'
<1>1. \A b \in Accessors :
        IF b = a THEN queue'[b] = <<>> /\ latest'[b] = NoData
        ELSE queue'[b] = queue[b] /\ data'[b] = data[b] /\ latest'[b] = latest[b]
  BY DEF Destroy, ItemsTypeOK
<1> QED
  BY <1>1, ItemsAssumption DEF NewestKept

(* A push leaves what was pushed at the end.                               *)
LEMMA NewestPush ==
  ASSUME ItemsTypeOK, NewestKept, NEW A, NEW c \in Contents, PushTo(A, c),
         data' = data
  PROVE  NewestKept'
<1>1. \A b \in Accessors :
        \/ queue'[b] # <<>> /\ Last(queue'[b]) = latest'[b]
        \/ queue'[b] = queue[b] /\ latest'[b] = latest[b]
  BY PushToProperties
<1> QED
  BY <1>1 DEF NewestKept

(* Every step keeps the newest element.                                    *)
LEMMA NewestStep ==
  ItemsTypeOK /\ NewestKept /\ [ItemsNext]_itemVars => NewestKept'
<1> SUFFICES ASSUME ItemsTypeOK, NewestKept, [ItemsNext]_itemVars
             PROVE  NewestKept'
  OBVIOUS
<1>1. CASE UNCHANGED itemVars
  BY <1>1, NewestFrame DEF itemVars
<1>2. ASSUME NEW a \in Accessors, SubscribeNew(a)
      PROVE  NewestKept'
  BY <1>2, NewestFrame DEF SubscribeNew
<1>3. ASSUME NEW a \in Accessors, SubscribeShared(a)
      PROVE  NewestKept'
  <2>1. data' = data
    BY <1>3 DEF SubscribeShared
  <2>2. \/ queue' = queue /\ latest' = latest
        \/ \E v \in Values : /\ queue' = [queue EXCEPT ![a] = <<v>>]
                             /\ latest' = [latest EXCEPT ![a] = v]
    BY <1>3 DEF SubscribeShared
  <2>3. ASSUME NEW v \in Values, queue' = [queue EXCEPT ![a] = <<v>>],
               latest' = [latest EXCEPT ![a] = v]
        PROVE  NewestKept'
    <3>1. <<v>> # <<>> /\ Last(<<v>>) = v
      BY DEF Last
    <3>2. \A b \in Accessors :
            IF b = a THEN queue'[b] = <<v>> /\ latest'[b] = v
            ELSE queue'[b] = queue[b] /\ latest'[b] = latest[b]
      BY <2>3 DEF ItemsTypeOK
    <3> QED
      BY <2>1, <3>1, <3>2 DEF NewestKept
  <2> QED
    BY <2>1, <2>2, <2>3, NewestFrame
<1>4. ASSUME NEW a \in Accessors, UnsubscribeShared(a)
      PROVE  NewestKept'
  BY <1>4, NewestDestroy DEF UnsubscribeShared
<1>5. ASSUME NEW a \in Accessors, UnsubscribeLast(a)
      PROVE  NewestKept'
  BY <1>5, NewestDestroy DEF UnsubscribeLast
<1>6. ASSUME NEW a \in Accessors, Abandon(a)
      PROVE  NewestKept'
  BY <1>6, NewestFrame DEF Abandon
<1>7. ASSUME NEW a \in Accessors, Pop(a)
      PROVE  NewestKept'
  <2> DEFINE q == queue[a]
  <2>1. /\ q \in Seq(Contents) /\ q # <<>>
        /\ Last(q) = latest[a]
    BY <1>7 DEF Pop, ItemsTypeOK, NewestKept
  <2>2. \A b \in Accessors :
          IF b = a THEN /\ queue'[b] = Tail(q)
                        /\ data'[b] = IF Head(q) = Exception THEN data[b] ELSE Head(q)
          ELSE queue'[b] = queue[b] /\ data'[b] = data[b]
    BY <1>7 DEF Pop, ItemsTypeOK
  <2>3. latest' = latest
    BY <1>7 DEF Pop
  <2> HIDE DEF q
  <2>4. /\ Len(q) \in Nat \ {0}
        /\ Tail(q) \in Seq(Contents) /\ Len(Tail(q)) = Len(q) - 1
        /\ \A i \in 1..Len(Tail(q)) : Tail(q)[i] = q[i + 1]
    BY <2>1, EmptySeq, HeadTailProperties
  <2>5. CASE Tail(q) = <<>>
    <3>1. Len(q) = 1
      <4>1. Len(Tail(q)) = 0
        BY <2>5, EmptySeq
      <4> QED
        BY <4>1, <2>4
    <3>2. Head(q) = latest[a]
      BY <2>1, <3>1 DEF Last
    <3> QED
      BY <2>2, <2>3, <2>5, <3>2, ItemsAssumption DEF NewestKept
  <2>6. CASE Tail(q) # <<>>
    <3>1. Len(Tail(q)) \in 1..Len(Tail(q)) /\ Len(Tail(q)) + 1 = Len(q)
      <4>1. Len(Tail(q)) \in Nat \ {0}
        BY <2>4, <2>6, EmptySeq
      <4> QED
        BY <4>1, <2>4
    <3>2. Last(Tail(q)) = latest[a]
      BY <2>1, <2>4, <3>1 DEF Last
    <3> QED
      BY <2>2, <2>3, <2>6, <3>2 DEF NewestKept
  <2> QED
    BY <2>5, <2>6
<1>8. ASSUME NEW n \in Nodes, NEW id \in MonIds, MonitorItem(n, id)
      PROVE  NewestKept'
  BY <1>8, NewestFrame DEF MonitorItem
<1>9. ASSUME NEW S \in SUBSET Nodes, ActivateItems(S)
      PROVE  NewestKept'
  BY <1>9, NewestFrame DEF ActivateItems
<1>10. CASE DeactivateItems
  BY <1>10, NewestFrame DEF DeactivateItems
<1>11. CASE ResetMonitoredItems
  BY <1>11, NewestFrame DEF ResetMonitoredItems
<1>12. CASE HandleException
  <2>1. PICK A : PushTo(A, Exception)
    BY <1>12 DEF HandleException, Failing
  <2>2. data' = data
    BY <1>12 DEF HandleException, Failing
  <2> QED
    BY <2>1, <2>2, NewestPush DEF Contents
<1>13. CASE Terminate
  BY <1>13, NewestFrame DEF Terminate
<1>14. ASSUME NEW n \in Nodes, SetExternalError(n)
       PROVE  NewestKept'
  BY <1>14, NewestFrame DEF SetExternalError
<1>15. ASSUME NEW h \in Handlers, NEW id \in MonIds, CheckActive(h, id)
       PROVE  NewestKept'
  BY <1>15, NewestFrame DEF CheckActive
<1>16. ASSUME NEW h \in Handlers, NEW v \in Values, PushValue(h, v)
       PROVE  NewestKept'
  <2>1. CASE LiveSlot(handling[h])
    <3>1. PICK A : PushTo(A, v)
      BY <1>16, <2>1 DEF PushValue
    <3>2. data' = data
      BY <1>16 DEF PushValue
    <3> QED
      BY <3>1, <3>2, NewestPush DEF Contents
  <2>2. CASE ~LiveSlot(handling[h])
    BY <1>16, <2>2, NewestFrame DEF PushValue
  <2> QED
    BY <2>1, <2>2
<1>17. ASSUME NEW h \in Handlers, NullItem(h)
       PROVE  NewestKept'
  BY <1>17, NewestFrame DEF NullItem
<1>18. ASSUME NEW a \in Accessors, SubscribeThrow(a)
       PROVE  NewestKept'
  BY <1>18, NewestFrame DEF SubscribeThrow
<1> QED
  BY <1>1, <1>2, <1>3, <1>4, <1>5, <1>6, <1>7, <1>8, <1>9, <1>10, <1>11, <1>12,
     <1>13, <1>14, <1>15, <1>16, <1>17, <1>18 DEF ItemsNext

-----------------------------------------------------------------------------
(* The theorems.                                                           *)

(* The manager's data keeps its types and its lists agree with the         *)
(* lifetimes of the accessors, over every order of subscribe, unsubscribe, *)
(* failed constructors and resets.                                         *)
THEOREM AccessorsListed == ItemsSpec => [](ItemsTypeOK /\ ItemsInUse)
<1>1. ItemsInit => ItemsTypeOK /\ ItemsInUse
  BY TypeInit, InUseInit
<1>2. ItemsTypeOK /\ ItemsInUse /\ [ItemsNext]_itemVars => (ItemsTypeOK /\ ItemsInUse)'
  BY TypeStep, InUseStep
<1> QED
  BY <1>1, <1>2, PTL DEF ItemsSpec

(* In particular no queue outgrows its length and no map entry its ids.    *)
THEOREM TypeCorrect == ItemsSpec => []ItemsTypeOK
BY AccessorsListed, PTL

(* handleException, setExternalError and responseHandler never send an     *)
(* accessor two exceptions without a value between them.                   *)
THEOREM ExceptionOnce == ItemsSpec => []NoRepeatedException
<1> DEFINE IInv == ItemsTypeOK /\ ItemsInUse /\ FlagCoversExceptions
<1>1. ItemsInit => IInv
  BY TypeInit, InUseInit, FlagInit
<1>2. IInv /\ [ItemsNext]_itemVars => IInv'
  BY TypeStep, InUseStep, FlagStep
<1>3. IInv => NoRepeatedException
  BY DEF FlagCoversExceptions, NoRepeatedException
<1> QED
  BY <1>1, <1>2, <1>3, PTL DEF ItemsSpec

(* push_overwrite and the continuation of the queue never hide the newest  *)
(* element that was pushed to an accessor.                                 *)
THEOREM NewestReaches == ItemsSpec => []NewestKept
<1>1. ItemsInit => NewestKept
  BY ItemsAssumption DEF ItemsInit, NewestKept
<1>2. ItemsTypeOK /\ NewestKept /\ [ItemsNext]_itemVars => NewestKept'
  BY NewestStep
<1> QED
  BY <1>1, <1>2, TypeCorrect, PTL DEF ItemsSpec
=============================================================================
