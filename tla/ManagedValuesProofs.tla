------------------------- MODULE ManagedValuesProofs -------------------------
(***************************************************************************)
(* Proofs about ManagedValues, for any accessors, blocks and queue length. *)
(* The inductive invariant says of each accessor, by itself, that its      *)
(* values own its blocks one to one (Sound); ItemsInUse is needed to know  *)
(* that an initial value is copied from an accessor that still exists.     *)
(***************************************************************************)
EXTENDS ManagedValues, MonitoredItemsProofs

(* The values of one accessor: queue q and member d, the ManagedDataValues *)
(* e and m behind them, and its live blocks L.                             *)
Sound(q, d, e, m, L) ==
  /\ q \in Seq(Contents) /\ Len(q) <= QueueLen
  /\ e \in Seq(Managed) /\ Len(e) = Len(q)
  /\ m \in Managed /\ L \in SUBSET Blocks
  /\ d \in Values <=> m.hasValue
  /\ \A i \in 1..Len(e) : q[i] \in Values <=> e[i].hasValue
  /\ m.hasValue => m.clear /\ m.block \in L
  /\ \A i \in 1..Len(e) : e[i].hasValue => e[i].clear /\ e[i].block \in L
  /\ \A i \in 1..Len(e) :
       m.hasValue /\ e[i].hasValue => e[i].block # m.block
  /\ \A i, j \in 1..Len(e) :
       e[i].hasValue /\ e[j].hasValue /\ e[i].block = e[j].block => i = j
  /\ \A b \in L : \/ m.hasValue /\ m.block = b
                  \/ \E i \in 1..Len(e) : e[i].hasValue /\ e[i].block = b

(* What of an accessor counts: one that is not alive has no queue.         *)
QueueOf(a) == IF obj[a] = "live" THEN queue[a] ELSE <<>>

DataOf(a) == IF obj[a] = "live" THEN data[a] ELSE NoData

SoundAt(a) ==
  Sound(QueueOf(a), DataOf(a), element[a], member[a], memory[a].live)

OwnInv ==
  /\ memory \in [Accessors -> [live : SUBSET Blocks, wrong : BOOLEAN]]
  /\ element \in [Accessors -> Seq(Managed)]
  /\ member \in [Accessors -> Managed]
  /\ \A a \in Accessors : SoundAt(a)
  /\ \A a \in Accessors : obj[a] = "none" => queue[a] = <<>> /\ data[a] = NoData
  /\ MemorySafe

-----------------------------------------------------------------------------
(* The length push_overwrite leaves to a queue of length n.                *)
Grown(n) == IF n < QueueLen THEN n + 1 ELSE n

(* The elements it leaves.                                                 *)
LEMMA PushPlaces ==
  ASSUME NEW S, NEW s \in Seq(S), NEW x \in S, Len(s) <= QueueLen
  PROVE  /\ PushOverwrite(s, x) \in Seq(S)
         /\ Grown(Len(s)) \in Nat \ {0}
         /\ Len(PushOverwrite(s, x)) = Grown(Len(s))
         /\ PushOverwrite(s, x)[Grown(Len(s))] = x
         /\ \A i \in 1..(Grown(Len(s)) - 1) : PushOverwrite(s, x)[i] = s[i]
<1>1. Len(s) \in Nat /\ QueueLen \in Nat \ {0}
  BY LenProperties, ItemsAssumption
<1>2. CASE Len(s) < QueueLen
  BY <1>1, <1>2, AppendProperties DEF PushOverwrite, Grown
<1>3. CASE Len(s) = QueueLen
  <2> DEFINE f == Front(s)
  <2>1. \A i \in 1..(Len(s) - 1) : s[i] \in S
    BY <1>1, ElementOfSeq
  <2>2. /\ f \in Seq(S) /\ Len(f) = Len(s) - 1
        /\ \A i \in 1..(Len(s) - 1) : f[i] = s[i]
    <3>1. /\ SubSeq(s, 1, Len(s) - 1) \in Seq(S)
          /\ Len(SubSeq(s, 1, Len(s) - 1)) =
               IF 1 <= Len(s) - 1 THEN Len(s) - 1 - 1 + 1 ELSE 0
          /\ \A i \in 1..(Len(s) - 1 - 1 + 1) :
               SubSeq(s, 1, Len(s) - 1)[i] = s[1 + i - 1]
      BY <2>1, <1>1, SubSeqProperties
    <3> QED
      BY <3>1, <1>1, <1>3 DEF Front
  <2>3. PushOverwrite(s, x) = Append(f, x)
    BY <1>1, <1>3 DEF PushOverwrite
  <2> HIDE DEF f
  <2> QED
    BY <1>1, <1>3, <2>2, <2>3, AppendProperties DEF Grown
<1> QED
  BY <1>1, <1>2, <1>3

(* A push keeps the one to one relation when the new value has a block of  *)
(* its own and the overwritten one's block is freed.                       *)
LEMMA PushSound ==
  ASSUME NEW q, NEW d, NEW e, NEW m, NEW L, Sound(q, d, e, m, L),
         NEW c \in Contents, NEW x \in Managed, NEW M,
         x.hasValue <=> c \in Values,
         x.hasValue => x.clear /\ x.block \in Blocks \ L,
         NEW over, over = IF Len(q) < QueueLen THEN Empty ELSE Last(e),
         \A b : b \in M <=> \/ b \in L /\ ~(over.hasValue /\ over.block = b)
                            \/ x.hasValue /\ x.block = b
  PROVE  Sound(PushOverwrite(q, c), d, PushOverwrite(e, x), m, M)
<1> DEFINE k == Grown(Len(e))
           r == PushOverwrite(q, c)
           f == PushOverwrite(e, x)
<1>1. /\ q \in Seq(Contents) /\ e \in Seq(Managed)
      /\ Len(e) = Len(q) /\ Len(q) <= QueueLen
      /\ Len(e) \in Nat /\ QueueLen \in Nat \ {0}
  BY LenProperties, ItemsAssumption DEF Sound
<1>2. /\ r \in Seq(Contents) /\ Len(r) = k /\ r[k] = c
      /\ \A i \in 1..(k - 1) : r[i] = q[i]
      /\ k \in Nat \ {0}
  BY <1>1, PushPlaces
<1>3. /\ f \in Seq(Managed) /\ Len(f) = k /\ f[k] = x
      /\ \A i \in 1..(k - 1) : f[i] = e[i]
  BY <1>1, PushPlaces
<1>4. Len(r) <= QueueLen
  BY <1>1, <1>2 DEF Grown
<1>5. \/ k = Len(e) + 1 /\ ~over.hasValue
      \/ k = Len(e) /\ over = e[k]
  BY <1>1 DEF Last, Empty, Grown
<1>6. k - 1 <= Len(e) /\ k - 1 \in Nat /\ \A i \in 1..k : i \in 1..(k - 1) \/ i = k
  BY <1>1, <1>2 DEF Grown
<1>7. M \in SUBSET Blocks
  BY DEF Sound
<1> HIDE DEF k, r, f
<1>8. \A i \in 1..(k - 1) : /\ i \in 1..Len(e) /\ i \in 1..k
                            /\ over.hasValue /\ e[i].hasValue =>
                                 e[i].block # over.block
  <2> SUFFICES ASSUME NEW i \in 1..(k - 1)
               PROVE  /\ i \in 1..Len(e) /\ i \in 1..k
                      /\ over.hasValue /\ e[i].hasValue =>
                           e[i].block # over.block
    OBVIOUS
  <2>1. i \in 1..Len(e) /\ i \in 1..k /\ i # k
    BY <1>1, <1>2, <1>6
  <2>2. k = Len(e) => k \in 1..Len(e)
    BY <1>1, <1>2
  <2> QED
    BY <2>1, <2>2, <1>5 DEF Sound
<1>9. over.hasValue /\ m.hasValue => over.block # m.block
  <2>1. k = Len(e) => k \in 1..Len(e)
    BY <1>1, <1>2
  <2> QED
    BY <2>1, <1>5 DEF Sound
<1>10. k \in 1..k
  BY <1>2
<1>11. \A i \in 1..k : r[i] \in Values <=> f[i].hasValue
  BY <1>2, <1>3, <1>6, <1>8 DEF Sound
<1>12. m.hasValue => m.clear /\ m.block \in M
  BY <1>9 DEF Sound
<1>13. \A i \in 1..k : f[i].hasValue => f[i].clear /\ f[i].block \in M
  BY <1>3, <1>6, <1>8 DEF Sound
<1>14. \A i \in 1..k : m.hasValue /\ f[i].hasValue => f[i].block # m.block
  BY <1>3, <1>6, <1>8 DEF Sound
<1>15. \A i, j \in 1..k :
         f[i].hasValue /\ f[j].hasValue /\ f[i].block = f[j].block => i = j
  BY <1>3, <1>6, <1>8 DEF Sound
<1>16. \A b \in M : \/ m.hasValue /\ m.block = b
                    \/ \E i \in 1..k : f[i].hasValue /\ f[i].block = b
  <2> SUFFICES ASSUME NEW b \in M, ~(m.hasValue /\ m.block = b)
               PROVE  \E i \in 1..k : f[i].hasValue /\ f[i].block = b
    OBVIOUS
  <2>1. CASE x.hasValue /\ x.block = b
    BY <2>1, <1>3, <1>10
  <2>2. CASE b \in L /\ ~(over.hasValue /\ over.block = b)
    <3>1. PICK i \in 1..Len(e) : e[i].hasValue /\ e[i].block = b
      BY <2>2 DEF Sound
    <3>2. i \in 1..(k - 1)
      BY <3>1, <2>2, <1>1, <1>2, <1>5
    <3> QED
      BY <3>1, <3>2, <1>3, <1>8
  <2> QED
    BY <2>1, <2>2
<1> QED
  BY <1>2, <1>3, <1>4, <1>7, <1>11, <1>12, <1>13, <1>14, <1>15, <1>16
     DEF Sound, r, f, k

(* What is left of the values behind the first element of a queue.         *)
LEMMA TailPlaces ==
  ASSUME NEW q, NEW d, NEW e, NEW m, NEW L, Sound(q, d, e, m, L), q # <<>>
  PROVE  /\ Tail(q) \in Seq(Contents) /\ Tail(e) \in Seq(Managed)
         /\ Len(Tail(q)) = Len(Tail(e)) /\ Len(Tail(q)) <= QueueLen
         /\ Len(Tail(e)) \in Nat
         /\ Head(q) \in Contents /\ Head(e) \in Managed
         /\ Head(q) \in Values <=> Head(e).hasValue
         /\ 1 \in 1..Len(e) /\ Head(e) = e[1]
         /\ \A i \in 1..Len(Tail(e)) :
              /\ Tail(e)[i] = e[i + 1] /\ Tail(q)[i] = q[i + 1]
              /\ i + 1 \in 1..Len(e) /\ i + 1 # 1
         /\ \A i \in 1..Len(e) :
              i = 1 \/ \E j \in 1..Len(Tail(e)) : i = j + 1
<1>1. /\ q \in Seq(Contents) /\ e \in Seq(Managed)
      /\ Len(e) = Len(q) /\ Len(q) <= QueueLen
  BY DEF Sound
<1>2. Len(q) \in Nat /\ Len(q) # 0 /\ QueueLen \in Nat
  BY <1>1, LenProperties, EmptySeq, ItemsAssumption
<1>3. e # <<>>
  BY <1>1, <1>2, EmptySeq
<1>4. /\ Tail(q) \in Seq(Contents) /\ Len(Tail(q)) = Len(q) - 1
      /\ Head(q) \in Contents
      /\ \A i \in 1..Len(Tail(q)) : Tail(q)[i] = q[i + 1]
  BY <1>1, HeadTailProperties
<1>5. /\ Tail(e) \in Seq(Managed) /\ Len(Tail(e)) = Len(e) - 1
      /\ Head(e) \in Managed
      /\ \A i \in 1..Len(Tail(e)) : Tail(e)[i] = e[i + 1]
  BY <1>1, <1>3, HeadTailProperties
<1>6. Head(q) = q[1] /\ Head(e) = e[1]
  BY <1>1, <1>3
<1>7. 1 \in 1..Len(e) /\ Len(Tail(e)) = Len(Tail(q))
  BY <1>1, <1>2, <1>4, <1>5
<1>8. Head(q) \in Values <=> Head(e).hasValue
  BY <1>6, <1>7 DEF Sound
<1>9. \A i \in 1..Len(e) : i = 1 \/ (i - 1 \in 1..Len(Tail(e)) /\ i = (i - 1) + 1)
  BY <1>1, <1>2, <1>5
<1> QED
  BY <1>1, <1>2, <1>4, <1>5, <1>6, <1>7, <1>8, <1>9

(* The continuation moved the first element's value into the member, whose *)
(* former block was freed.                                                 *)
LEMMA PopSound ==
  ASSUME NEW q, NEW d, NEW e, NEW m, NEW L, Sound(q, d, e, m, L), q # <<>>,
         Head(q) \in Values, NEW M,
         \A b : b \in M <=> b \in L /\ ~(m.hasValue /\ m.block = b)
  PROVE  Sound(Tail(q), Head(q), Tail(e), Assigned(m, Head(e)), M)
<1> DEFINE h == Head(e)
           m2 == Assigned(m, h)
           t == Tail(e)
<1>1. /\ Tail(q) \in Seq(Contents) /\ t \in Seq(Managed)
      /\ Len(Tail(q)) = Len(t) /\ Len(Tail(q)) <= QueueLen
      /\ h \in Managed /\ h.hasValue
      /\ 1 \in 1..Len(e) /\ h = e[1]
      /\ \A i \in 1..Len(t) : /\ t[i] = e[i + 1] /\ Tail(q)[i] = q[i + 1]
                              /\ i + 1 \in 1..Len(e) /\ i + 1 # 1
      /\ \A i \in 1..Len(e) : i = 1 \/ \E j \in 1..Len(t) : i = j + 1
      /\ \A i \in 1..Len(t) : i \in Nat
  BY TailPlaces
<1>2. m \in Managed
  BY DEF Sound
<1>3. m2 \in Managed /\ m2.hasValue /\ m2.clear /\ m2.block = h.block
  BY <1>1, <1>2 DEF Assigned, Managed
<1>4. M \in SUBSET Blocks
  BY DEF Sound
<1> HIDE DEF h, m2, t
<1>5. h.block \in M
  BY <1>1 DEF Sound
<1>6. \A i \in 1..Len(t) : Tail(q)[i] \in Values <=> t[i].hasValue
  BY <1>1 DEF Sound
<1>7. \A i \in 1..Len(t) : t[i].hasValue =>
        t[i].clear /\ t[i].block \in M /\ t[i].block # m2.block
  BY <1>1, <1>3 DEF Sound
<1>8. \A i, j \in 1..Len(t) :
        t[i].hasValue /\ t[j].hasValue /\ t[i].block = t[j].block => i = j
  <2> SUFFICES ASSUME NEW i \in 1..Len(t), NEW j \in 1..Len(t), t[i].hasValue,
                      t[j].hasValue, t[i].block = t[j].block
               PROVE  i = j
    OBVIOUS
  <2>1. /\ i + 1 \in 1..Len(e) /\ e[i + 1].hasValue
        /\ j + 1 \in 1..Len(e) /\ e[j + 1].hasValue
        /\ e[i + 1].block = e[j + 1].block
    BY <1>1
  <2>2. i + 1 = j + 1
    BY <2>1 DEF Sound
  <2> QED
    BY <2>2, <1>1
<1>9. \A b \in M : \/ m2.hasValue /\ m2.block = b
                   \/ \E i \in 1..Len(t) : t[i].hasValue /\ t[i].block = b
  <2> SUFFICES ASSUME NEW b \in M, b # h.block
               PROVE  \E i \in 1..Len(t) : t[i].hasValue /\ t[i].block = b
    BY <1>3
  <2>1. PICK i \in 1..Len(e) : e[i].hasValue /\ e[i].block = b
    BY DEF Sound
  <2>2. i # 1
    BY <2>1, <1>1
  <2>3. PICK j \in 1..Len(t) : i = j + 1
    BY <2>2, <1>1
  <2>4. t[j] = e[i]
    BY <2>3, <1>1
  <2> QED
    BY <2>1, <2>4
<1>10. Sound(Tail(q), Head(q), t, m2, M)
  BY <1>1, <1>3, <1>4, <1>5, <1>6, <1>7, <1>8, <1>9 DEF Sound
<1> QED
  BY <1>10 DEF t, m2, h

(* An exception is popped: its element owned nothing.                      *)
LEMMA PopExceptionSound ==
  ASSUME NEW q, NEW d, NEW e, NEW m, NEW L, Sound(q, d, e, m, L), q # <<>>,
         Head(q) \notin Values
  PROVE  Sound(Tail(q), d, Tail(e), m, L)
<1> DEFINE t == Tail(e)
<1>1. /\ Tail(q) \in Seq(Contents) /\ t \in Seq(Managed)
      /\ Len(Tail(q)) = Len(t) /\ Len(Tail(q)) <= QueueLen
      /\ 1 \in 1..Len(e) /\ ~e[1].hasValue
      /\ \A i \in 1..Len(t) : /\ t[i] = e[i + 1] /\ Tail(q)[i] = q[i + 1]
                              /\ i + 1 \in 1..Len(e) /\ i + 1 # 1
      /\ \A i \in 1..Len(e) : i = 1 \/ \E j \in 1..Len(t) : i = j + 1
      /\ \A i \in 1..Len(t) : i \in Nat
  BY TailPlaces
<1> HIDE DEF t
<1>2. /\ \A i \in 1..Len(t) : Tail(q)[i] \in Values <=> t[i].hasValue
      /\ \A i \in 1..Len(t) : t[i].hasValue => t[i].clear /\ t[i].block \in L
      /\ \A i \in 1..Len(t) :
           m.hasValue /\ t[i].hasValue => t[i].block # m.block
  <2> SUFFICES ASSUME NEW i \in 1..Len(t)
               PROVE  /\ Tail(q)[i] \in Values <=> t[i].hasValue
                      /\ t[i].hasValue => t[i].clear /\ t[i].block \in L
                      /\ m.hasValue /\ t[i].hasValue => t[i].block # m.block
    OBVIOUS
  <2>1. t[i] = e[i + 1] /\ Tail(q)[i] = q[i + 1] /\ i + 1 \in 1..Len(e)
    BY <1>1
  <2> QED
    BY <2>1 DEF Sound
<1>3. \A i, j \in 1..Len(t) :
        t[i].hasValue /\ t[j].hasValue /\ t[i].block = t[j].block => i = j
  <2> SUFFICES ASSUME NEW i \in 1..Len(t), NEW j \in 1..Len(t), t[i].hasValue,
                      t[j].hasValue, t[i].block = t[j].block
               PROVE  i = j
    OBVIOUS
  <2>1. /\ i + 1 \in 1..Len(e) /\ e[i + 1].hasValue
        /\ j + 1 \in 1..Len(e) /\ e[j + 1].hasValue
        /\ e[i + 1].block = e[j + 1].block
    BY <1>1
  <2>2. i + 1 = j + 1
    BY <2>1 DEF Sound
  <2> QED
    BY <2>2, <1>1
<1>4. \A b \in L : \/ m.hasValue /\ m.block = b
                   \/ \E i \in 1..Len(t) : t[i].hasValue /\ t[i].block = b
  <2> SUFFICES ASSUME NEW b \in L, ~(m.hasValue /\ m.block = b)
               PROVE  \E i \in 1..Len(t) : t[i].hasValue /\ t[i].block = b
    OBVIOUS
  <2>1. PICK i \in 1..Len(e) : e[i].hasValue /\ e[i].block = b
    BY DEF Sound
  <2>2. i # 1
    BY <2>1, <1>1
  <2> QED
    BY <2>1, <2>2, <1>1
<1>5. Sound(Tail(q), d, t, m, L)
  BY <1>1, <1>2, <1>3, <1>4 DEF Sound
<1> QED
  BY <1>5 DEF t

(* The destructors of all values free every block, and each once.          *)
LEMMA EndSound ==
  ASSUME NEW q, NEW d, NEW e, NEW m, NEW r,
         r \in [live : SUBSET Blocks, wrong : BOOLEAN],
         Sound(q, d, e, m, r.live)
  PROVE  /\ AllDestroyed(r, <<m>> \o e) = [live |-> {}, wrong |-> r.wrong]
         /\ Sound(<<>>, NoData, <<>>, Empty, {})
<1> DEFINE s == <<m>> \o e
           D == {i \in DOMAIN s : s[i].hasValue /\ s[i].clear}
<1>1. e \in Seq(Managed) /\ m \in Managed /\ Len(e) \in Nat
  BY LenProperties DEF Sound
<1>2. /\ s \in Seq(Managed) /\ Len(s) = 1 + Len(e)
      /\ s[1] = m /\ \A i \in 1..Len(e) : s[i + 1] = e[i]
  <2>1. <<m>> \in Seq(Managed) /\ Len(<<m>>) = 1 /\ <<m>>[1] = m
    BY <1>1
  <2>2. /\ s \in Seq(Managed) /\ Len(s) = Len(<<m>>) + Len(e)
        /\ \A i \in 1..(Len(<<m>>) + Len(e)) :
             s[i] = IF i <= Len(<<m>>) THEN <<m>>[i] ELSE e[i - Len(<<m>>)]
    BY <1>1, <2>1, ConcatProperties
  <2> HIDE DEF s
  <2> QED
    BY <1>1, <2>1, <2>2
<1>3. DOMAIN s = 1..Len(s)
  BY <1>2, LenProperties
<1> HIDE DEF s
<1>4. \A i \in DOMAIN s : i = 1 \/ (i - 1 \in 1..Len(e) /\ s[i] = e[i - 1])
  <2> SUFFICES ASSUME NEW i \in DOMAIN s, i # 1
               PROVE  i - 1 \in 1..Len(e) /\ s[i] = e[i - 1]
    OBVIOUS
  <2>1. i - 1 \in 1..Len(e) /\ (i - 1) + 1 = i
    BY <1>1, <1>2, <1>3
  <2> QED
    BY <2>1, <1>2
<1>5. 1 \in DOMAIN s /\ \A i \in 1..Len(e) : i + 1 \in DOMAIN s
  BY <1>1, <1>2, <1>3
<1>6. {s[i].block : i \in D} = r.live
  <2>1. \A i \in D : s[i].block \in r.live
    BY <1>2, <1>4 DEF Sound
  <2>2. \A b \in r.live : \E i \in D : s[i].block = b
    <3> SUFFICES ASSUME NEW b \in r.live
                 PROVE  \E i \in D : s[i].block = b
      OBVIOUS
    <3>1. CASE m.hasValue /\ m.block = b
      BY <3>1, <1>2, <1>5 DEF Sound
    <3>2. CASE \E i \in 1..Len(e) : e[i].hasValue /\ e[i].block = b
      <4>1. PICK i \in 1..Len(e) : e[i].hasValue /\ e[i].block = b
        BY <3>2
      <4>2. i + 1 \in D /\ s[i + 1].block = b
        BY <4>1, <1>2, <1>5 DEF Sound
      <4> QED
        BY <4>2
    <3> QED
      BY <3>1, <3>2 DEF Sound
  <2> QED
    BY <2>1, <2>2
<1>7. \A i \in D : /\ s[i].block \in r.live
                   /\ \A j \in D \ {i} : s[j].block # s[i].block
  <2> SUFFICES ASSUME NEW i \in D, NEW j \in D, s[j].block = s[i].block
               PROVE  i = j
    BY <1>6
  <2>1. CASE i = 1 \/ j = 1
    BY <2>1, <1>2, <1>4 DEF Sound
  <2>2. CASE i # 1 /\ j # 1
    <3>1. i - 1 = j - 1
      BY <2>2, <1>4 DEF Sound
    <3> QED
      BY <3>1, <1>2, <1>3
  <2> QED
    BY <2>1, <2>2
<1>8. AllDestroyed(r, s) = [live |-> {}, wrong |-> r.wrong]
  BY <1>6, <1>7 DEF AllDestroyed
<1>9. Sound(<<>>, NoData, <<>>, Empty, {})
  BY EmptySeq, ItemsAssumption DEF Sound, Empty, Managed
<1> QED
  BY <1>8, <1>9 DEF s

-----------------------------------------------------------------------------
(* The state.                                                              *)

MemoryType == [live : SUBSET Blocks, wrong : BOOLEAN]

(* Nothing is owned initially.                                             *)
LEMMA OwnInit == ValuesInit => OwnInv
<1> SUFFICES ASSUME ValuesInit
             PROVE  OwnInv
  OBVIOUS
<1>1. Sound(<<>>, NoData, <<>>, Empty, {})
  BY EmptySeq, ItemsAssumption DEF Sound, Empty, Managed
<1>2. /\ \A a \in Accessors : queue[a] = <<>> /\ data[a] = NoData
      /\ \A a \in Accessors : obj[a] = "none"
  BY DEF ValuesInit, ItemsInit
<1>3. /\ memory = [a \in Accessors |-> [live |-> {}, wrong |-> FALSE]]
      /\ element = [a \in Accessors |-> <<>>]
      /\ member = [a \in Accessors |-> Empty]
  BY DEF ValuesInit
<1>4. \A a \in Accessors : SoundAt(a)
  BY <1>1, <1>2, <1>3 DEF SoundAt, QueueOf, DataOf
<1>5. MemorySafe
  BY <1>3 DEF MemorySafe
<1> QED
  BY <1>2, <1>3, <1>4, <1>5, EmptySeq DEF OwnInv, Empty, Managed

(* A step that keeps the parts of the invariant keeps the invariant.       *)
LEMMA OwnParts ==
  ASSUME OwnInv,
         memory' \in [Accessors -> MemoryType],
         element' \in [Accessors -> Seq(Managed)],
         member' \in [Accessors -> Managed],
         \A a \in Accessors : SoundAt(a)',
         \A a \in Accessors :
           obj'[a] = "none" => queue'[a] = <<>> /\ data'[a] = NoData,
         \A a \in Accessors : obj[a] = "dangling" => obj'[a] = "dangling",
         \A a \in Accessors : memory'[a].wrong = memory[a].wrong
  PROVE  OwnInv'
<1>1. MemorySafe'
  BY DEF OwnInv, MemorySafe
<1> QED
  BY <1>1 DEF OwnInv, MemoryType

(* Steps that leave queues, members and memory alone.                      *)
LEMMA OwnFrame ==
  ASSUME OwnInv, UNCHANGED ownVars, data' = data, queue' = queue,
         \A a \in Accessors :
           \/ obj'[a] = obj[a]
           \/ obj[a] = "none" /\ obj'[a] \in {"live", "dangling"}
  PROVE  OwnInv'
<1>1. element' = element /\ member' = member /\ memory' = memory
  BY DEF ownVars
<1>2. ASSUME NEW a \in Accessors
      PROVE  QueueOf(a)' = QueueOf(a) /\ DataOf(a)' = DataOf(a)
  BY <1>2 DEF OwnInv, QueueOf, DataOf
<1>3. ASSUME NEW a \in Accessors
      PROVE  SoundAt(a)'
  <2>1. SoundAt(a)
    BY DEF OwnInv
  <2> QED
    BY <1>1, <1>2, <2>1 DEF SoundAt
<1>4. /\ memory' \in [Accessors -> MemoryType]
      /\ element' \in [Accessors -> Seq(Managed)]
      /\ member' \in [Accessors -> Managed]
  BY <1>1 DEF OwnInv, MemoryType
<1>5. \A a \in Accessors :
        /\ obj'[a] = "none" => queue'[a] = <<>> /\ data'[a] = NoData
        /\ obj[a] = "dangling" => obj'[a] = "dangling"
  BY DEF OwnInv
<1> QED
  BY <1>1, <1>3, <1>4, <1>5, OwnParts

(* Actions without a value.                                                *)
LEMMA OwnBookkeeping ==
  ASSUME OwnInv, ItemsTypeOK, Bookkeeping, UNCHANGED ownVars
  PROVE  OwnInv'
<1>1. data' = data /\ queue' = queue
  BY DEF Bookkeeping, SubscribeNew, SubscribeThrow, MonitorItem, ActivateItems,
         DeactivateItems, ResetMonitoredItems, Terminate, SetExternalError,
         CheckActive, NullItem
<1>2. CASE obj' = obj
  BY <1>1, <1>2, OwnFrame
<1>3. CASE \E a \in Accessors : SubscribeNew(a) \/ SubscribeThrow(a)
  <2>1. PICK a \in Accessors : SubscribeNew(a) \/ SubscribeThrow(a)
    BY <1>3
  <2>2. /\ obj[a] = "none"
        /\ \/ obj' = [obj EXCEPT ![a] = "live"]
           \/ obj' = [obj EXCEPT ![a] = "dangling"]
    BY <2>1 DEF SubscribeNew, SubscribeThrow
  <2>3. \A c \in Accessors :
          \/ obj'[c] = obj[c]
          \/ obj[c] = "none" /\ obj'[c] \in {"live", "dangling"}
    BY <2>2 DEF ItemsTypeOK
  <2> QED
    BY <1>1, <2>3, OwnFrame
<1>4. \/ obj' = obj
      \/ \E a \in Accessors : SubscribeNew(a) \/ SubscribeThrow(a)
  BY DEF Bookkeeping, MonitorItem, ActivateItems, DeactivateItems,
         ResetMonitoredItems, Terminate, SetExternalError, CheckActive, NullItem
<1> QED
  BY <1>2, <1>3, <1>4

(* The memory of an accessor after one value was pushed to it.             *)
LEMMA ValuePushed ==
  ASSUME OwnInv, NEW a \in Accessors, NEW v \in Values, Room(a),
         queue[a] = QueueOf(a)
  PROVE  /\ PushedMemory(a) \in MemoryType
         /\ PushedMemory(a).wrong = memory[a].wrong
         /\ PushedElement(a) \in Seq(Managed)
         /\ Sound(PushOverwrite(queue[a], v), DataOf(a), PushedElement(a),
                  member[a], PushedMemory(a).live)
<1> DEFINE b == NewBlock(a)
           x == MoveConstructed(CopiedTo(b))
           L == memory[a].live
           over == Overwritten(a)
           M == IF over.hasValue THEN (L \cup {b}) \ {over.block} ELSE L \cup {b}
<1>1. b \in Blocks \ L
  BY DEF Room, NewBlock
<1>2. /\ Sound(queue[a], DataOf(a), element[a], member[a], L)
      /\ memory[a] \in MemoryType
      /\ element[a] \in Seq(Managed)
  BY DEF OwnInv, SoundAt, MemoryType
<1>3. x \in Managed /\ x.hasValue /\ x.clear /\ x.block = b
  BY <1>1 DEF MoveConstructed, CopiedTo, Managed
<1>4. over = IF Len(queue[a]) < QueueLen THEN Empty ELSE Last(element[a])
  BY DEF Overwritten
<1>5. over.hasValue => over.clear /\ over.block \in L
  <2>1. CASE Len(queue[a]) < QueueLen
    BY <2>1, <1>4 DEF Empty
  <2>2. CASE ~(Len(queue[a]) < QueueLen)
    <3>1. Len(element[a]) \in 1..Len(element[a])
      BY <1>2, <2>2, LenProperties, ItemsAssumption DEF Sound
    <3> QED
      BY <1>2, <1>4, <2>2, <3>1 DEF Sound, Last
  <2> QED
    BY <2>1, <2>2
<1>6. Allocated(a) = [live |-> L \cup {b}, wrong |-> memory[a].wrong]
  <2>1. memory[a] = [live |-> L, wrong |-> memory[a].wrong]
    BY <1>2 DEF MemoryType
  <2>2. Allocated(a) = [memory[a] EXCEPT !.live = memory[a].live \cup {b}]
    BY DEF Allocated
  <2> HIDE DEF b
  <2> QED
    BY <2>1, <2>2
<1>7. PushedMemory(a) = [live |-> M, wrong |-> memory[a].wrong]
  <2>1. Destroyed(Allocated(a), over) = [live |-> M, wrong |-> memory[a].wrong]
    <3>1. CASE over.hasValue
      <4>1. over.block \in L \cup {b}
        BY <3>1, <1>5
      <4>2. memory[a].wrong \in BOOLEAN
        BY <1>2 DEF MemoryType
      <4> HIDE DEF over, b
      <4> QED
        BY <3>1, <4>1, <4>2, <1>5, <1>6 DEF Destroyed, Cleared
    <3>2. CASE ~over.hasValue
      BY <3>2, <1>6 DEF Destroyed
    <3> QED
      BY <3>1, <3>2
  <2> QED
    BY <2>1 DEF PushedMemory, Destroyed, CopiedTo
<1>8. \A c : c \in M <=> \/ c \in L /\ ~(over.hasValue /\ over.block = c)
                         \/ x.hasValue /\ x.block = c
  BY <1>1, <1>3, <1>5
<1>9. M \in SUBSET Blocks
  BY <1>1, <1>2 DEF MemoryType
<1>10. v \in Contents /\ PushedElement(a) = PushOverwrite(element[a], x)
  BY DEF Contents, PushedElement
<1> HIDE DEF b, x, L, over, M
<1>11. Sound(PushOverwrite(queue[a], v), DataOf(a), PushOverwrite(element[a], x),
             member[a], M)
  BY <1>1, <1>2, <1>3, <1>4, <1>8, <1>10, PushSound
<1>12. PushedElement(a) \in Seq(Managed)
  BY <1>10, <1>11 DEF Sound
<1> QED
  BY <1>2, <1>7, <1>9, <1>10, <1>11, <1>12 DEF MemoryType

(* The memory of an accessor after an exception was pushed to it.          *)
LEMMA ExceptionPushed ==
  ASSUME OwnInv, NEW a \in Accessors, queue[a] = QueueOf(a)
  PROVE  /\ Destroyed(memory[a], Overwritten(a)) \in MemoryType
         /\ Destroyed(memory[a], Overwritten(a)).wrong = memory[a].wrong
         /\ PushOverwrite(element[a], Empty) \in Seq(Managed)
         /\ Sound(PushOverwrite(queue[a], Exception), DataOf(a),
                  PushOverwrite(element[a], Empty), member[a],
                  Destroyed(memory[a], Overwritten(a)).live)
<1> DEFINE L == memory[a].live
           over == Overwritten(a)
           M == IF over.hasValue THEN L \ {over.block} ELSE L
<1>2. /\ Sound(queue[a], DataOf(a), element[a], member[a], L)
      /\ memory[a] \in MemoryType
      /\ element[a] \in Seq(Managed)
  BY DEF OwnInv, SoundAt, MemoryType
<1>3. Empty \in Managed /\ ~Empty.hasValue
  BY DEF Empty, Managed
<1>4. over = IF Len(queue[a]) < QueueLen THEN Empty ELSE Last(element[a])
  BY DEF Overwritten
<1>5. over.hasValue => over.clear /\ over.block \in L
  <2>1. CASE Len(queue[a]) < QueueLen
    BY <2>1, <1>4 DEF Empty
  <2>2. CASE ~(Len(queue[a]) < QueueLen)
    <3>1. Len(element[a]) \in 1..Len(element[a])
      BY <1>2, <2>2, LenProperties, ItemsAssumption DEF Sound
    <3> QED
      BY <1>2, <1>4, <2>2, <3>1 DEF Sound, Last
  <2> QED
    BY <2>1, <2>2
<1>7. Destroyed(memory[a], over) = [live |-> M, wrong |-> memory[a].wrong]
  <2>1. memory[a].wrong \in BOOLEAN
    BY <1>2 DEF MemoryType
  <2>2. CASE over.hasValue
    <3> HIDE DEF over
    <3> QED
      BY <2>1, <2>2, <1>5 DEF Destroyed, Cleared
  <2>3. CASE ~over.hasValue
    <3> HIDE DEF over
    <3> QED
      BY <2>3, <1>2 DEF Destroyed, MemoryType
  <2> QED
    BY <2>2, <2>3
<1>8. \A c : c \in M <=> \/ c \in L /\ ~(over.hasValue /\ over.block = c)
                         \/ Empty.hasValue /\ Empty.block = c
  BY <1>3
<1>9. M \in SUBSET Blocks
  BY <1>2 DEF MemoryType
<1>10. Exception \in Contents /\ Exception \notin Values
  BY ItemsAssumption DEF Contents
<1> HIDE DEF L, over, M
<1>11. Sound(PushOverwrite(queue[a], Exception), DataOf(a),
             PushOverwrite(element[a], Empty), member[a], M)
  BY <1>2, <1>3, <1>4, <1>8, <1>10, PushSound
<1>12. PushOverwrite(element[a], Empty) \in Seq(Managed)
  BY <1>11 DEF Sound
<1> QED
  BY <1>2, <1>7, <1>9, <1>11, <1>12 DEF MemoryType, over

(* What PushTo does to the queues.                                         *)
LEMMA PushedQueues ==
  ASSUME NEW A, NEW c \in Contents, PushTo(A, c)
  PROVE  \A a \in Accessors :
           queue'[a] = IF a \in LiveIn(A) THEN PushOverwrite(queue[a], c)
                       ELSE queue[a]
BY DEF PushTo, LiveIn

(* A value that is delivered to one accessor.                              *)
LEMMA OwnDeliver ==
  ASSUME OwnInv, NEW h \in Handlers, NEW v \in Values, PushValue(h, v),
         PushValues(Receivers(h))
  PROVE  OwnInv'
<1> DEFINE S == Receivers(h)
<1>1. obj' = obj /\ data' = data /\ v \in Contents
  BY DEF PushValue, Contents
<1>2. \A a \in Accessors : queue'[a] = IF a \in S THEN PushOverwrite(queue[a], v)
                                       ELSE queue[a]
  <2>1. CASE LiveSlot(handling[h])
    <3>1. PushTo(Users(ItemAt(handling[h])), v)
      BY <2>1 DEF PushValue
    <3>2. S = LiveIn(Users(ItemAt(handling[h])))
      BY <2>1 DEF Receivers
    <3> QED
      BY <3>1, <3>2, <1>1, PushedQueues
  <2>2. CASE ~LiveSlot(handling[h])
    <3>1. S = {} /\ queue' = queue
      BY <2>2 DEF PushValue, Receivers
    <3> QED
      BY <3>1
  <2> QED
    BY <2>1, <2>2
<1>3. \A a \in S : obj[a] = "live"
  BY DEF Receivers, LiveIn
<1>4. /\ member' = member
      /\ \A a \in S : Room(a)
      /\ element' = [a \in Accessors |->
                       IF a \in S THEN PushedElement(a) ELSE element[a]]
      /\ memory' = [a \in Accessors |->
                      IF a \in S THEN PushedMemory(a) ELSE memory[a]]
  BY DEF PushValues
<1> HIDE DEF S
<1>5. ASSUME NEW a \in Accessors
      PROVE  /\ memory'[a] \in MemoryType /\ memory'[a].wrong = memory[a].wrong
             /\ element'[a] \in Seq(Managed)
             /\ SoundAt(a)'
  <2>1. CASE a \in S
    <3>1. queue[a] = QueueOf(a) /\ DataOf(a)' = DataOf(a)
      BY <2>1, <1>1, <1>3 DEF QueueOf, DataOf
    <3>2. /\ PushedMemory(a) \in MemoryType
          /\ PushedMemory(a).wrong = memory[a].wrong
          /\ PushedElement(a) \in Seq(Managed)
          /\ Sound(PushOverwrite(queue[a], v), DataOf(a), PushedElement(a),
                   member[a], PushedMemory(a).live)
      BY <2>1, <3>1, <1>4, ValuePushed
    <3>3. QueueOf(a)' = PushOverwrite(queue[a], v)
      BY <2>1, <1>1, <1>2, <1>3 DEF QueueOf
    <3>4. memory'[a] = PushedMemory(a) /\ element'[a] = PushedElement(a)
      BY <2>1, <1>4
    <3> QED
      BY <3>1, <3>2, <3>3, <3>4, <1>4 DEF SoundAt
  <2>2. CASE a \notin S
    <3>1. QueueOf(a)' = QueueOf(a) /\ DataOf(a)' = DataOf(a)
      BY <2>2, <1>1, <1>2 DEF QueueOf, DataOf
    <3>2. memory'[a] = memory[a] /\ element'[a] = element[a]
      BY <2>2, <1>4
    <3> QED
      BY <3>1, <3>2, <1>4 DEF SoundAt, OwnInv, MemoryType
  <2> QED
    BY <2>1, <2>2
<1>6. /\ memory' \in [Accessors -> MemoryType]
      /\ element' \in [Accessors -> Seq(Managed)]
      /\ member' \in [Accessors -> Managed]
  BY <1>4, <1>5 DEF OwnInv
<1>7. \A a \in Accessors :
        /\ obj'[a] = "none" => queue'[a] = <<>> /\ data'[a] = NoData
        /\ obj[a] = "dangling" => obj'[a] = "dangling"
  BY <1>1, <1>2, <1>3 DEF OwnInv
<1> QED
  BY <1>5, <1>6, <1>7, OwnParts

(* An exception that is pushed to one accessor.                            *)
LEMMA OwnException ==
  ASSUME OwnInv, HandleException,
         PushExceptions(LiveIn(UNION {Users(n) : n \in Failing}))
  PROVE  OwnInv'
<1> DEFINE S == LiveIn(UNION {Users(n) : n \in Failing})
<1>1. obj' = obj /\ data' = data /\ Exception \in Contents
  BY DEF HandleException, Contents
<1>2. \A a \in Accessors :
        queue'[a] = IF a \in S THEN PushOverwrite(queue[a], Exception)
                    ELSE queue[a]
  <2>1. PushTo(UNION {Users(n) : n \in Failing}, Exception)
    BY DEF HandleException
  <2> QED
    BY <2>1, <1>1, PushedQueues
<1>3. \A a \in S : obj[a] = "live"
  BY DEF LiveIn
<1>4. /\ member' = member
      /\ element' = [a \in Accessors |->
                       IF a \in S THEN PushOverwrite(element[a], Empty)
                       ELSE element[a]]
      /\ memory' = [a \in Accessors |->
                      IF a \in S THEN Destroyed(memory[a], Overwritten(a))
                      ELSE memory[a]]
  BY DEF PushExceptions
<1> HIDE DEF S
<1>5. ASSUME NEW a \in Accessors
      PROVE  /\ memory'[a] \in MemoryType /\ memory'[a].wrong = memory[a].wrong
             /\ element'[a] \in Seq(Managed)
             /\ SoundAt(a)'
  <2>1. CASE a \in S
    <3>1. queue[a] = QueueOf(a) /\ DataOf(a)' = DataOf(a)
      BY <2>1, <1>1, <1>3 DEF QueueOf, DataOf
    <3>2. /\ Destroyed(memory[a], Overwritten(a)) \in MemoryType
          /\ Destroyed(memory[a], Overwritten(a)).wrong = memory[a].wrong
          /\ PushOverwrite(element[a], Empty) \in Seq(Managed)
          /\ Sound(PushOverwrite(queue[a], Exception), DataOf(a),
                   PushOverwrite(element[a], Empty), member[a],
                   Destroyed(memory[a], Overwritten(a)).live)
      BY <3>1, ExceptionPushed
    <3>3. QueueOf(a)' = PushOverwrite(queue[a], Exception)
      BY <2>1, <1>1, <1>2, <1>3 DEF QueueOf
    <3>4. /\ memory'[a] = Destroyed(memory[a], Overwritten(a))
          /\ element'[a] = PushOverwrite(element[a], Empty)
      BY <2>1, <1>4
    <3> QED
      BY <3>1, <3>2, <3>3, <3>4, <1>4 DEF SoundAt
  <2>2. CASE a \notin S
    <3>1. QueueOf(a)' = QueueOf(a) /\ DataOf(a)' = DataOf(a)
      BY <2>2, <1>1, <1>2 DEF QueueOf, DataOf
    <3>2. memory'[a] = memory[a] /\ element'[a] = element[a]
      BY <2>2, <1>4
    <3> QED
      BY <3>1, <3>2, <1>4 DEF SoundAt, OwnInv, MemoryType
  <2> QED
    BY <2>1, <2>2
<1>6. /\ memory' \in [Accessors -> MemoryType]
      /\ element' \in [Accessors -> Seq(Managed)]
      /\ member' \in [Accessors -> Managed]
  BY <1>4, <1>5 DEF OwnInv
<1>7. \A a \in Accessors :
        /\ obj'[a] = "none" => queue'[a] = <<>> /\ data'[a] = NoData
        /\ obj[a] = "dangling" => obj'[a] = "dangling"
  BY <1>1, <1>2, <1>3 DEF OwnInv
<1> QED
  BY <1>5, <1>6, <1>7, OwnParts

(* A step of one accessor alone.                                           *)
LEMMA OwnOne ==
  ASSUME OwnInv, NEW a \in Accessors,
         \A c \in Accessors \ {a} :
           /\ obj'[c] = obj[c] /\ queue'[c] = queue[c] /\ data'[c] = data[c]
           /\ memory'[c] = memory[c] /\ element'[c] = element[c]
           /\ member'[c] = member[c],
         memory' = [c \in Accessors |-> memory'[c]],
         element' = [c \in Accessors |-> element'[c]],
         member' = [c \in Accessors |-> member'[c]],
         memory'[a] \in MemoryType, SoundAt(a)',
         obj'[a] = "none" => queue'[a] = <<>> /\ data'[a] = NoData,
         obj[a] # "dangling"
  PROVE  /\ memory' \in [Accessors -> MemoryType]
         /\ element' \in [Accessors -> Seq(Managed)]
         /\ member' \in [Accessors -> Managed]
         /\ \A c \in Accessors : SoundAt(c)'
         /\ \A c \in Accessors :
              obj'[c] = "none" => queue'[c] = <<>> /\ data'[c] = NoData
         /\ \A c \in Accessors : obj[c] = "dangling" => obj'[c] = "dangling"
<1>1. ASSUME NEW c \in Accessors \ {a}
      PROVE  SoundAt(c)'
  <2>1. QueueOf(c)' = QueueOf(c) /\ DataOf(c)' = DataOf(c)
    BY DEF QueueOf, DataOf
  <2>2. SoundAt(c)
    BY DEF OwnInv
  <2> QED
    BY <2>1, <2>2 DEF SoundAt
<1>2. \A c \in Accessors : SoundAt(c)'
  BY <1>1
<1>3. \A c \in Accessors : element'[c] \in Seq(Managed) /\ member'[c] \in Managed
  BY <1>2 DEF SoundAt, Sound
<1>4. \A c \in Accessors : memory'[c] \in MemoryType
  BY DEF OwnInv, MemoryType
<1> QED
  BY <1>2, <1>3, <1>4 DEF OwnInv

(* The end of an accessor.                                                 *)
LEMMA OwnEnd ==
  ASSUME OwnInv, ItemsTypeOK, NEW a \in Accessors, EndValues(a),
         obj[a] = "live",
         \/ Destroy(a)
         \/ Abandon(a)
  PROVE  OwnInv'
<1>1. memory[a] \in MemoryType /\ SoundAt(a)
  BY DEF OwnInv, MemoryType
<1>2. /\ AllDestroyed(memory[a], <<member[a]>> \o element[a])
           = [live |-> {}, wrong |-> memory[a].wrong]
      /\ Sound(<<>>, NoData, <<>>, Empty, {})
  BY <1>1, EndSound DEF SoundAt, MemoryType
<1>3. /\ memory' = [memory EXCEPT
                      ![a] = [live |-> {}, wrong |-> memory[a].wrong]]
      /\ element' = [element EXCEPT ![a] = <<>>]
      /\ member' = [member EXCEPT ![a] = Empty]
  BY <1>2 DEF EndValues
<1>4. /\ obj'[a] # "live"
      /\ obj'[a] = "none" => queue'[a] = <<>> /\ data'[a] = NoData
      /\ \A c \in Accessors \ {a} : /\ obj'[c] = obj[c] /\ queue'[c] = queue[c]
                                    /\ data'[c] = data[c]
  BY DEF Destroy, Abandon, ItemsTypeOK
<1>5. QueueOf(a)' = <<>> /\ DataOf(a)' = NoData
  BY <1>4 DEF QueueOf, DataOf
<1>6. /\ memory'[a] = [live |-> {}, wrong |-> memory[a].wrong]
      /\ element'[a] = <<>> /\ member'[a] = Empty
      /\ \A c \in Accessors \ {a} : /\ memory'[c] = memory[c]
                                    /\ element'[c] = element[c]
                                    /\ member'[c] = member[c]
      /\ memory' = [c \in Accessors |-> memory'[c]]
      /\ element' = [c \in Accessors |-> element'[c]]
      /\ member' = [c \in Accessors |-> member'[c]]
  BY <1>3 DEF OwnInv
<1>7. SoundAt(a)'
  BY <1>2, <1>5, <1>6 DEF SoundAt
<1>8. memory'[a] \in MemoryType
  BY <1>1, <1>6 DEF MemoryType
<1>9. \A c \in Accessors : memory'[c].wrong = memory[c].wrong
  BY <1>6
<1> QED
  BY <1>4, <1>6, <1>7, <1>8, <1>9, OwnOne, OwnParts

(* An element that is popped and moved into the member.                    *)
LEMMA OwnPop ==
  ASSUME OwnInv, ItemsTypeOK, NEW a \in Accessors, PopAndMove(a)
  PROVE  OwnInv'
<1> DEFINE q == queue[a]
           e == element[a]
           m == member[a]
           L == memory[a].live
<1>1. /\ obj[a] = "live" /\ q # <<>> /\ obj' = obj
      /\ queue' = [queue EXCEPT ![a] = Tail(q)]
      /\ data' = [data EXCEPT ![a] = IF Head(q) = Exception THEN data[a]
                                     ELSE Head(q)]
      /\ element' = [element EXCEPT ![a] = Tail(e)]
  BY DEF PopAndMove, Pop
<1>2. memory[a] \in MemoryType /\ Sound(q, data[a], e, m, L)
  BY <1>1 DEF OwnInv, SoundAt, QueueOf, DataOf, MemoryType
<1>3. /\ Head(q) \in Contents /\ Head(e) \in Managed
      /\ Head(q) \in Values <=> Head(e).hasValue
  BY <1>1, <1>2, TailPlaces
<1>4. /\ queue'[a] = Tail(q)
      /\ data'[a] = IF Head(q) = Exception THEN data[a] ELSE Head(q)
      /\ element'[a] = Tail(e) /\ obj'[a] = "live"
      /\ \A c \in Accessors \ {a} :
           /\ obj'[c] = obj[c] /\ queue'[c] = queue[c] /\ data'[c] = data[c]
           /\ element'[c] = element[c]
  BY <1>1 DEF ItemsTypeOK, OwnInv
<1>5. PopMemory(a)
  BY DEF PopAndMove
<1>6. /\ memory'[a] \in MemoryType /\ memory'[a].wrong = memory[a].wrong
      /\ Sound(Tail(q), data'[a], Tail(e), member'[a], memory'[a].live)
      /\ \A c \in Accessors \ {a} : member'[c] = member[c] /\ memory'[c] = memory[c]
      /\ memory' = [c \in Accessors |-> memory'[c]]
      /\ member' = [c \in Accessors |-> member'[c]]
  <2>1. CASE Head(q) = Exception
    <3>1. ~Head(e).hasValue /\ Head(q) \notin Values
      BY <2>1, <1>3, ItemsAssumption
    <3>2. Destroyed(memory[a], Head(e)) = memory[a]
      BY <3>1 DEF Destroyed
    <3>3. memory' = [memory EXCEPT ![a] = memory[a]] /\ member' = member
      BY <2>1, <3>2, <1>5 DEF PopMemory
    <3>4. Sound(Tail(q), data[a], Tail(e), m, L)
      BY <3>1, <1>1, <1>2, PopExceptionSound
    <3> QED
      BY <2>1, <3>3, <3>4, <1>2, <1>4 DEF OwnInv
  <2>2. CASE Head(q) # Exception
    <3> DEFINE M == IF m.hasValue THEN L \ {m.block} ELSE L
    <3>1. Head(q) \in Values /\ data'[a] = Head(q)
      BY <2>2, <1>3, <1>4 DEF Contents
    <3>2. Prepared(memory[a], m) = [live |-> M, wrong |-> memory[a].wrong]
      <4>1. memory[a] = [live |-> L, wrong |-> memory[a].wrong]
            /\ memory[a].wrong \in BOOLEAN
        BY <1>2 DEF MemoryType
      <4>2. m.hasValue => m.block \in L
        BY <1>2 DEF Sound
      <4> HIDE DEF m
      <4> QED
        BY <4>1, <4>2 DEF Prepared, Cleared
    <3>3. Destroyed(Prepared(memory[a], m), MovedFrom(Head(e)))
            = Prepared(memory[a], m)
      <4>1. MovedFrom(Head(e)).clear = FALSE
        BY <1>3 DEF MovedFrom, Managed
      <4> QED
        BY <4>1 DEF Destroyed
    <3>4. /\ memory' = [memory EXCEPT
                          ![a] = [live |-> M, wrong |-> memory[a].wrong]]
          /\ member' = [member EXCEPT ![a] = Assigned(m, Head(e))]
      BY <2>2, <3>2, <3>3, <1>5 DEF PopMemory
    <3>5. Sound(Tail(q), Head(q), Tail(e), Assigned(m, Head(e)), M)
      <4>1. \A b : b \in M <=> b \in L /\ ~(m.hasValue /\ m.block = b)
        OBVIOUS
      <4> HIDE DEF M, q, e, m, L
      <4> QED
        BY <3>1, <4>1, <1>1, <1>2, PopSound
    <3>6. M \in SUBSET Blocks /\ memory[a].wrong \in BOOLEAN
      BY <1>2 DEF MemoryType
    <3>7. /\ memory'[a] = [live |-> M, wrong |-> memory[a].wrong]
          /\ member'[a] = Assigned(m, Head(e))
          /\ \A c \in Accessors \ {a} :
               member'[c] = member[c] /\ memory'[c] = memory[c]
          /\ memory' = [c \in Accessors |-> memory'[c]]
          /\ member' = [c \in Accessors |-> member'[c]]
      BY <3>4 DEF OwnInv
    <3> HIDE DEF M, q, e, m, L
    <3> QED
      BY <3>1, <3>5, <3>6, <3>7 DEF MemoryType
  <2> QED
    BY <2>1, <2>2
<1>7. SoundAt(a)'
  BY <1>4, <1>6 DEF SoundAt, QueueOf, DataOf
<1>8. element' = [c \in Accessors |-> element'[c]]
  BY <1>1 DEF OwnInv
<1>9. \A c \in Accessors : memory'[c].wrong = memory[c].wrong
  BY <1>6
<1> HIDE DEF q, e, m, L
<1> QED
  BY <1>1, <1>4, <1>6, <1>7, <1>8, <1>9, OwnOne, OwnParts

(* The accessor an initial value is copied from is listed, so it exists    *)
(* unless its constructor threw, and what it holds as a value is allocated.*)
LEMMA SourceReadable ==
  ASSUME OwnInv, ItemsTypeOK, ItemsInUse, NEW a \in Accessors,
         Listed(NodeOf[a]), NEW tmp, tmp = Last(item[NodeOf[a]].accessors),
         InitialValue(tmp) \in Values
  PROVE  /\ tmp \in Accessors /\ obj[tmp] # "none"
         /\ obj[tmp] = "live" => Readable(tmp)
<1> DEFINE s == item[NodeOf[a]].accessors
<1>1. s \in Seq(Accessors) /\ NodeOf[a] \in Nodes
  BY NodeProperties
<1>2. s # <<>>
  BY <1>1 DEF ItemsInUse
<1>3. Len(s) \in 1..Len(s) /\ tmp = s[Len(s)]
  BY <1>1, <1>2, EmptySeq, LenProperties DEF Last
<1>4. tmp \in Accessors /\ tmp \in ToSet(s)
  BY <1>1, <1>3, ElementOfSeq, ToSetProperties
<1>5. obj[tmp] # "none"
  BY <1>1, <1>4 DEF ItemsInUse, Users
<1>6. ASSUME obj[tmp] = "live"
      PROVE  Source(tmp).block \in memory[tmp].live
  <2>1. Sound(queue[tmp], data[tmp], element[tmp], member[tmp],
              memory[tmp].live)
    BY <1>4, <1>6 DEF OwnInv, SoundAt, QueueOf, DataOf
  <2>2. queue[tmp] = <<>> <=> element[tmp] = <<>>
    <3>1. /\ queue[tmp] \in Seq(Contents) /\ element[tmp] \in Seq(Managed)
          /\ Len(element[tmp]) = Len(queue[tmp])
      BY <2>1 DEF Sound
    <3> QED
      BY <3>1, EmptySeq
  <2>3. CASE queue[tmp] = <<>>
    BY <2>1, <2>2, <2>3 DEF InitialValue, Source, Sound
  <2>4. CASE queue[tmp] # <<>>
    <3>1. /\ Head(queue[tmp]) \in Values <=> Head(element[tmp]).hasValue
          /\ 1 \in 1..Len(element[tmp]) /\ Head(element[tmp]) = element[tmp][1]
      BY <2>1, <2>4, TailPlaces
    <3>2. \A i \in 1..Len(element[tmp]) :
            element[tmp][i].hasValue =>
              element[tmp][i].block \in memory[tmp].live
      BY <2>1 DEF Sound
    <3>3. InitialValue(tmp) = Head(queue[tmp])
      BY <2>4 DEF InitialValue
    <3>4. Source(tmp) = Head(element[tmp])
      BY <2>2, <2>4 DEF Source
    <3>5. Head(element[tmp]).hasValue
      BY <3>1, <3>3
    <3>6. element[tmp][1].block \in memory[tmp].live
      BY <3>1, <3>2, <3>5
    <3> QED
      BY <3>1, <3>4, <3>6
  <2> QED
    BY <2>3, <2>4
<1> QED
  BY <1>4, <1>5, <1>6 DEF Readable

(* A new accessor, with the copy it may start from.                        *)
LEMMA OwnSubscribe ==
  ASSUME OwnInv, ItemsTypeOK, ItemsInUse, NEW a \in Accessors,
         SubscribeAndCopy(a)
  PROVE  OwnInv'
<1> DEFINE n == NodeOf[a]
           tmp == Last(item[n].accessors)
           v == InitialValue(tmp)
           r == [PushedMemory(a) EXCEPT !.wrong = @ \/ ~Readable(tmp)]
<1>1. /\ obj[a] = "none" /\ Listed(n) /\ obj' = [obj EXCEPT ![a] = "live"]
      /\ data' = data
      /\ queue[a] = <<>> /\ data[a] = NoData
  BY DEF SubscribeAndCopy, SubscribeShared, OwnInv
<1>2. /\ obj'[a] = "live"
      /\ \A c \in Accessors \ {a} : obj'[c] = obj[c]
  BY <1>1 DEF ItemsTypeOK
<1>3. CASE ~(item[n].active /\ v \in Values)
  <2>1. queue' = queue /\ UNCHANGED ownVars
    <3>1. SubscribeAndCopy(a)
      OBVIOUS
    <3>2. SubscribeShared(a)
      BY <3>1 DEF SubscribeAndCopy
    <3>3. queue' = queue
      BY <3>2, <1>3 DEF SubscribeShared
    <3>4. UNCHANGED ownVars
      <4>1. IF item[n].active /\ v \in Values
            THEN Room(a) /\ UNCHANGED member
            ELSE UNCHANGED ownVars
        BY <3>1, Zenon DEF SubscribeAndCopy
      <4> QED
        BY <4>1, <1>3
    <3> QED
      BY <3>3, <3>4
  <2>2. \A c \in Accessors : \/ obj'[c] = obj[c]
                             \/ obj[c] = "none" /\ obj'[c] = "live"
    BY <1>1, <1>2
  <2> QED
    BY <1>1, <2>1, <2>2, OwnFrame
<1>4. CASE item[n].active /\ v \in Values
  <2>1. /\ Room(a) /\ queue' = [queue EXCEPT ![a] = <<v>>]
        /\ element' = [element EXCEPT ![a] = PushedElement(a)]
        /\ memory' = [memory EXCEPT ![a] = r]
        /\ member' = member
    BY <1>4 DEF SubscribeAndCopy, SubscribeShared
  <2>2. queue[a] = QueueOf(a) /\ DataOf(a) = NoData
    BY <1>1 DEF QueueOf, DataOf
  <2>3. /\ PushedMemory(a) \in MemoryType
        /\ PushedMemory(a).wrong = memory[a].wrong
        /\ Sound(PushOverwrite(queue[a], v), NoData, PushedElement(a),
                 member[a], PushedMemory(a).live)
    BY <1>4, <2>1, <2>2, ValuePushed
  <2>4. PushOverwrite(queue[a], v) = <<v>>
    BY <1>1, ItemsAssumption DEF PushOverwrite
  <2>5. /\ r \in MemoryType /\ r.live = PushedMemory(a).live
        /\ r.wrong = (memory[a].wrong \/ ~Readable(tmp))
    <3>1. Readable(tmp) \in BOOLEAN
      BY DEF Readable
    <3>2. memory[a].wrong \in BOOLEAN
      BY DEF OwnInv
    <3> QED
      BY <2>3, <3>1, <3>2 DEF MemoryType
  <2> HIDE DEF r
  <2>6. /\ queue'[a] = <<v>> /\ element'[a] = PushedElement(a)
        /\ memory'[a] = r
        /\ \A c \in Accessors \ {a} : /\ queue'[c] = queue[c]
                                      /\ element'[c] = element[c]
                                      /\ memory'[c] = memory[c]
        /\ memory' = [c \in Accessors |-> memory'[c]]
        /\ element' = [c \in Accessors |-> element'[c]]
        /\ member' = [c \in Accessors |-> member'[c]]
    BY <2>1 DEF OwnInv, ItemsTypeOK
  <2>7. SoundAt(a)'
    <3>1. QueueOf(a)' = <<v>> /\ DataOf(a)' = NoData
      BY <1>1, <1>2, <2>6 DEF QueueOf, DataOf
    <3> QED
      BY <3>1, <2>1, <2>3, <2>4, <2>5, <2>6 DEF SoundAt
  <2>8. /\ memory' \in [Accessors -> MemoryType]
        /\ element' \in [Accessors -> Seq(Managed)]
        /\ member' \in [Accessors -> Managed]
        /\ \A c \in Accessors : SoundAt(c)'
        /\ \A c \in Accessors :
             obj'[c] = "none" => queue'[c] = <<>> /\ data'[c] = NoData
        /\ \A c \in Accessors : obj[c] = "dangling" => obj'[c] = "dangling"
    BY <1>1, <1>2, <2>1, <2>5, <2>6, <2>7, OwnOne
  <2>9. MemorySafe'
    <3> SUFFICES ASSUME \A c \in Accessors : obj'[c] # "dangling",
                        NEW c \in Accessors
                 PROVE  ~memory'[c].wrong
      BY DEF MemorySafe
    <3>1. \A b \in Accessors : obj[b] # "dangling" /\ ~memory[b].wrong
      BY <2>8 DEF OwnInv, MemorySafe
    <3>2. /\ tmp \in Accessors /\ obj[tmp] # "none"
          /\ obj[tmp] = "live" => Readable(tmp)
      <4> HIDE DEF tmp
      <4> QED
        BY <1>1, <1>4, SourceReadable DEF tmp
    <3>3. Readable(tmp)
      BY <3>1, <3>2 DEF ItemsTypeOK
    <3> QED
      BY <3>1, <3>3, <2>5, <2>6
  <2> QED
    BY <2>8, <2>9 DEF OwnInv, MemoryType
<1> QED
  BY <1>3, <1>4

(* The actions of ManagedValues are those of MonitoredItems.               *)
LEMMA ItemsStep == [ValuesNext]_valueVars => [ItemsNext]_itemVars
<1>1. CASE UNCHANGED valueVars
  BY <1>1 DEF valueVars, itemVars
<1>2. CASE ValuesNext
  <2>1. ~crashed
    BY <1>2 DEF ValuesNext
  <2>2. CASE Bookkeeping
    BY <2>1, <2>2, Zenon DEF Bookkeeping, ItemsNext
  <2>3. CASE HandleException
    BY <2>1, <2>3, Zenon DEF ItemsNext
  <2>4. CASE \E a \in Accessors :
               \/ SubscribeShared(a) \/ UnsubscribeShared(a)
               \/ UnsubscribeLast(a) \/ Abandon(a) \/ Pop(a)
    BY <2>1, <2>4, Zenon DEF ItemsNext
  <2>5. CASE \E h \in Handlers, v \in Values : PushValue(h, v)
    BY <2>1, <2>5, Zenon DEF ItemsNext
  <2> QED
    BY <1>2, <2>2, <2>3, <2>4, <2>5
    DEF ValuesNext, SubscribeAndCopy, PopAndMove
<1> QED
  BY <1>1, <1>2

(* Every step keeps what each accessor owns.                               *)
LEMMA OwnStep ==
  OwnInv /\ ItemsTypeOK /\ ItemsInUse /\ [ValuesNext]_valueVars => OwnInv'
<1> SUFFICES ASSUME OwnInv, ItemsTypeOK, ItemsInUse, [ValuesNext]_valueVars
             PROVE  OwnInv'
  OBVIOUS
<1>1. CASE UNCHANGED valueVars
  <2>1. /\ UNCHANGED ownVars /\ data' = data /\ queue' = queue
        /\ \A a \in Accessors : obj'[a] = obj[a]
    BY <1>1 DEF valueVars, itemVars
  <2> QED
    BY <2>1, OwnFrame
<1>2. CASE Bookkeeping /\ UNCHANGED ownVars
  BY <1>2, OwnBookkeeping
<1>3. CASE \E a \in Accessors : SubscribeAndCopy(a)
  BY <1>3, OwnSubscribe
<1>4. CASE \E a \in Accessors : UnsubscribeShared(a) /\ EndValues(a)
  <2>1. PICK a \in Accessors : UnsubscribeShared(a) /\ EndValues(a)
    BY <1>4
  <2>2. obj[a] = "live" /\ Destroy(a)
    BY <2>1 DEF UnsubscribeShared
  <2> QED
    BY <2>1, <2>2, OwnEnd
<1>5. CASE \E a \in Accessors : UnsubscribeLast(a) /\ EndValues(a)
  <2>1. PICK a \in Accessors : UnsubscribeLast(a) /\ EndValues(a)
    BY <1>5
  <2>2. obj[a] = "live" /\ Destroy(a)
    BY <2>1 DEF UnsubscribeLast
  <2> QED
    BY <2>1, <2>2, OwnEnd
<1>6. CASE \E a \in Accessors : Abandon(a) /\ EndValues(a)
  <2>1. PICK a \in Accessors : Abandon(a) /\ EndValues(a)
    BY <1>6
  <2>2. obj[a] = "live"
    BY <2>1 DEF Abandon
  <2> QED
    BY <2>1, <2>2, OwnEnd
<1>7. CASE \E a \in Accessors : PopAndMove(a)
  BY <1>7, OwnPop
<1>8. CASE /\ HandleException
           /\ PushExceptions(LiveIn(UNION {Users(n) : n \in Failing}))
  BY <1>8, OwnException
<1>9. CASE \E h \in Handlers, v \in Values :
             PushValue(h, v) /\ PushValues(Receivers(h))
  BY <1>9, OwnDeliver
<1> QED
  BY <1>1, <1>2, <1>3, <1>4, <1>5, <1>6, <1>7, <1>8, <1>9 DEF ValuesNext

-----------------------------------------------------------------------------
(* The parts of the invariant the runs check.                              *)
LEMMA OwnLeavesNothing == OwnInv => NothingLeaked
<1> SUFFICES ASSUME OwnInv, NEW a \in Accessors, NEW b \in Blocks,
                    b \in memory[a].live
             PROVE  \E p \in Places(a) :
                      /\ ValueAt(a, p).block = b
                      /\ ValueAt(a, p).hasValue /\ ValueAt(a, p).clear
  BY DEF NothingLeaked
<1>1. Sound(QueueOf(a), DataOf(a), element[a], member[a], memory[a].live)
  BY DEF OwnInv, SoundAt
<1>2. CASE member[a].hasValue /\ member[a].block = b
  <2>1. member[a].clear
    BY <1>1, <1>2 DEF Sound
  <2> QED
    BY <1>2, <2>1 DEF Places, ValueAt
<1>3. CASE \E i \in 1..Len(element[a]) :
             element[a][i].hasValue /\ element[a][i].block = b
  <2>1. PICK i \in 1..Len(element[a]) :
               element[a][i].hasValue /\ element[a][i].block = b
    BY <1>3
  <2>2. element[a][i].clear
    BY <1>1, <2>1 DEF Sound
  <2>3. DOMAIN element[a] = 1..Len(element[a])
    BY <1>1, LenProperties DEF Sound
  <2>4. i \in Places(a) /\ ValueAt(a, i) = element[a][i]
    BY <2>3, LenProperties, <1>1 DEF Places, ValueAt, Sound
  <2> QED
    BY <2>1, <2>2, <2>4
<1> QED
  BY <1>1, <1>2, <1>3 DEF Sound

(* Owned values have memory.                                               *)
LEMMA OwnBacks == OwnInv => ValuesBacked
<1> SUFFICES ASSUME OwnInv, NEW a \in Accessors, obj[a] = "live"
             PROVE  /\ \A i \in DOMAIN queue[a] :
                         queue[a][i] \in Values <=> element[a][i].hasValue
                    /\ data[a] \in Values <=> member[a].hasValue
                    /\ \A p \in Places(a) : ValueAt(a, p).hasValue =>
                         /\ ValueAt(a, p).block \in memory[a].live
                         /\ \A q \in Places(a) \ {p} :
                              ValueAt(a, q).hasValue =>
                                ValueAt(a, q).block # ValueAt(a, p).block
  BY DEF ValuesBacked
<1>1. Sound(queue[a], data[a], element[a], member[a], memory[a].live)
  BY DEF OwnInv, SoundAt, QueueOf, DataOf
<1>2. /\ DOMAIN element[a] = 1..Len(element[a])
      /\ DOMAIN queue[a] = 1..Len(element[a])
      /\ Len(element[a]) \in Nat
  BY <1>1, LenProperties DEF Sound
<1>3. \A i \in DOMAIN queue[a] :
        queue[a][i] \in Values <=> element[a][i].hasValue
  BY <1>1, <1>2 DEF Sound
<1>4. data[a] \in Values <=> member[a].hasValue
  BY <1>1 DEF Sound
<1>5. \A p \in Places(a) :
        \/ p = 0 /\ ValueAt(a, p) = member[a]
        \/ /\ p # 0 /\ p \in 1..Len(element[a])
           /\ ValueAt(a, p) = element[a][p]
  BY <1>2 DEF Places, ValueAt
<1>6. ASSUME NEW p \in Places(a), ValueAt(a, p).hasValue
      PROVE  /\ ValueAt(a, p).block \in memory[a].live
             /\ \A q \in Places(a) \ {p} : ValueAt(a, q).hasValue =>
                  ValueAt(a, q).block # ValueAt(a, p).block
  <2>1. ValueAt(a, p).block \in memory[a].live
    BY <1>1, <1>5, <1>6 DEF Sound
  <2>2. ASSUME NEW q \in Places(a) \ {p}, ValueAt(a, q).hasValue
        PROVE  ValueAt(a, q).block # ValueAt(a, p).block
    <3>1. CASE p = 0
      <4>1. /\ ValueAt(a, p) = member[a]
            /\ q \in 1..Len(element[a]) /\ ValueAt(a, q) = element[a][q]
        BY <3>1, <1>5
      <4> QED
        BY <4>1, <1>1, <1>6, <2>2 DEF Sound
    <3>2. CASE q = 0
      <4>1. /\ ValueAt(a, q) = member[a]
            /\ p \in 1..Len(element[a]) /\ ValueAt(a, p) = element[a][p]
        BY <3>2, <1>5
      <4> QED
        BY <4>1, <1>1, <1>6, <2>2 DEF Sound
    <3>3. CASE p # 0 /\ q # 0
      <4>1. /\ p \in 1..Len(element[a]) /\ ValueAt(a, p) = element[a][p]
            /\ q \in 1..Len(element[a]) /\ ValueAt(a, q) = element[a][q]
        BY <3>3, <1>5
      <4> QED
        BY <4>1, <1>1, <1>6, <2>2 DEF Sound
    <3> QED
      BY <3>1, <3>2, <3>3
  <2> QED
    BY <2>1, <2>2
<1> QED
  BY <1>3, <1>4, <1>6

-----------------------------------------------------------------------------
(* The invariant of ManagedValues and, with it, those of MonitoredItems.   *)
LEMMA OwnAlways == ValuesSpec => [](OwnInv /\ ItemsTypeOK /\ ItemsInUse)
<1>1. ValuesInit => OwnInv /\ ItemsTypeOK /\ ItemsInUse
  BY OwnInit, TypeInit, InUseInit DEF ValuesInit
<1>2. OwnInv /\ ItemsTypeOK /\ ItemsInUse /\ [ValuesNext]_valueVars
        => (OwnInv /\ ItemsTypeOK /\ ItemsInUse)'
  BY OwnStep, ItemsStep, TypeStep, InUseStep
<1> QED
  BY <1>1, <1>2, PTL DEF ValuesSpec

(* However notifications, exceptions, pops, new accessors and their ends   *)
(* interleave, no block of open62541 is freed twice or read after it was   *)
(* freed, as long as no constructor threw after subscribe.                 *)
THEOREM MemoryAlwaysSafe == ValuesSpec => []MemorySafe
<1>1. OwnInv => MemorySafe
  BY DEF OwnInv
<1> QED
  BY <1>1, OwnAlways, PTL

(* Every block belongs to a ManagedDataValue that will clear it, and an    *)
(* accessor that is gone leaves none.                                      *)
THEOREM NoLeak == ValuesSpec => []NothingLeaked
BY OwnLeavesNothing, OwnAlways, PTL

(* Every value an accessor holds has a block of its own that is allocated, *)
(* so doPostRead never converts freed or shared memory.                    *)
THEOREM BackedByMemory == ValuesSpec => []ValuesBacked
BY OwnBacks, OwnAlways, PTL
=============================================================================
