--------------------------- MODULE TransfersProofs ---------------------------
(***************************************************************************)
(* Proofs about Transfers, for any accessors, array length and width of a  *)
(* size.  The data of a write whose array is untouched since it began      *)
(* agree with the array outside the accessor's own words, if these are     *)
(* inside the array (CopyCurrent): this is inductive with the types, and   *)
(* every write relies on it.                                               *)
(***************************************************************************)
EXTENDS Transfers, VersionMapperProofs

CopyCurrent ==
  \A a \in Readers :
    Inside(a) /\ pc[a] = "write" /\ untouched[a]
      => \A i \in Indices \ Own(a) : data[a][i] = array[i]

TransfersInv == TransfersTypeOK /\ VersionsInv /\ CopyCurrent

-----------------------------------------------------------------------------
(* Each step is one of VersionMapper or leaves its variables alone.        *)
LEMMA VersionsStep ==
  [TransfersNext]_<<versionVars, transferVars>> => [VersionsNext]_versionVars
<1>1. CASE Send
  BY <1>1 DEF VersionsNext
<1>2. CASE \E a \in Readers : ReadDone(a)
  <2>1. PICK a \in Readers, s \in Stamps : PostRead(a, s)
    BY <1>2 DEF ReadDone
  <2> QED
    BY <2>1 DEF VersionsNext
<1>3. CASE \E a \in Readers, d \in Arrays, s \in Stamps : Notified(a, d, s)
  <2>1. PICK a \in Readers, s \in Stamps : PostRead(a, s)
    BY <1>3 DEF Notified
  <2> QED
    BY <2>1 DEF VersionsNext
<1>4. CASE \E a \in Readers : \/ Read(a) \/ ReadFails(a) \/ BeginWrite(a)
                            \/ LeaveArray(a)
  <2>1. UNCHANGED versionVars
    BY <1>4 DEF Read, ReadFails, BeginWrite, LeaveArray
  <2> QED
    BY <2>1
<1>5. CASE \E a \in Readers : \E w \in [Own(a) -> Elements] :
             Write(a, w) \/ WriteFails(a, w)
  <2>1. UNCHANGED versionVars
    BY <1>5 DEF Write, WriteFails, Modify
  <2> QED
    BY <2>1
<1>6. CASE (\E d \in Arrays : OtherClient(d)) \/ Reopen
  <2>1. UNCHANGED versionVars
    BY <1>6 DEF OtherClient, Reopen
  <2> QED
    BY <2>1
<1>7. CASE UNCHANGED <<versionVars, transferVars>>
  BY <1>7
<1> QED
  BY <1>1, <1>2, <1>3, <1>4, <1>5, <1>6, <1>7 DEF TransfersNext

(* A sum that does not wrap is a sum.                                      *)
LEMMA NoWrap ==
  ASSUME NEW m \in Nat, NEW n \in Nat, n < m
  PROVE  n % m = n
OBVIOUS

(* What getRegisterAccessor_impl accepts lies inside the array, unless the *)
(* sum of words and offset wraps.                                          *)
LEMMA PartsInside ==
  ASSUME NEW p \in Parts
  PROVE  /\ p \in [offset : 0..(SizeLimit - 1), words : 1..MaxWords]
         /\ p.offset + p.words < SizeLimit
              => p.offset + p.words <= ArrayLength
<1>1. PICK n \in 0..MaxWords, o \in 0..(SizeLimit - 1) :
        /\ Accepted(n, o)
        /\ p = [offset |-> o, words |-> IF n = 0 THEN ArrayLength ELSE n]
  BY DEF Parts
<1>2. /\ ArrayLength \in Nat \ {0} /\ MaxWords \in Nat /\ SizeLimit \in Nat
      /\ ArrayLength <= MaxWords /\ MaxWords < SizeLimit
  BY TransfersAssumption
<1>3. n + o < SizeLimit => n + o <= ArrayLength
  BY <1>1, <1>2, NoWrap DEF Accepted
<1> QED
  BY <1>1, <1>2, <1>3 DEF Accepted

(* The elements of an accessor that does not wrap.                         *)
LEMMA OwnElements ==
  ASSUME NEW a \in Readers,
         part[a] \in [offset : 0..(SizeLimit - 1), words : 1..MaxWords],
         part[a].offset + part[a].words < SizeLimit
  PROVE  Own(a) = part[a].offset .. (part[a].offset + part[a].words - 1)
<1> DEFINE o == part[a].offset
           w == part[a].words
<1>1. /\ MaxWords \in Nat /\ SizeLimit \in Nat
      /\ o \in Nat /\ w \in Nat \ {0} /\ o + w < SizeLimit
  BY TransfersAssumption
<1> HIDE DEF o, w
<1>2. \A i \in 0..(w - 1) : (o + i) % SizeLimit = o + i
  BY <1>1, NoWrap
<1>3. ASSUME NEW k \in o..(o + w - 1)
      PROVE  \E i \in 0..(w - 1) : k = (o + i) % SizeLimit
  <2>1. k - o \in 0..(w - 1) /\ o + (k - o) = k
    BY <1>1
  <2> QED
    BY <1>2, <2>1
<1>4. \A i \in 0..(w - 1) : (o + i) % SizeLimit \in o..(o + w - 1)
  BY <1>1, <1>2
<1>5. {(o + i) % SizeLimit : i \in 0..(w - 1)} = o..(o + w - 1)
  BY <1>3, <1>4, Zenon
<1> QED
  BY <1>5 DEF Own, ElementsOf, o, w

(* An accessor inside the array that is not partial has every element.     *)
LEMMA WholePart ==
  ASSUME TransfersTypeOK, NEW a \in Readers, ~IsPartial(a), Inside(a)
  PROVE  Indices \ Own(a) = {}
<1> DEFINE o == part[a].offset
<1>1. /\ ArrayLength \in Nat \ {0} /\ MaxWords \in Nat /\ SizeLimit \in Nat
      /\ ArrayLength <= MaxWords /\ MaxWords < SizeLimit
  BY TransfersAssumption
<1>2. /\ part[a] \in [offset : 0..(SizeLimit - 1), words : 1..MaxWords]
      /\ part[a].words = ArrayLength /\ o \in 0..(SizeLimit - 1)
  BY DEF TransfersTypeOK, IsPartial
<1>3. o % SizeLimit = o
  BY <1>1, <1>2, NoWrap
<1>4. o \in Own(a)
  BY <1>1, <1>2, <1>3 DEF Own, ElementsOf
<1>5. o < ArrayLength
  BY <1>1, <1>4 DEF Inside, Indices
<1>6. o = 0
  <2> SUFFICES ASSUME o # 0 PROVE FALSE
    OBVIOUS
  <2>1. /\ ArrayLength - o \in 0..(part[a].words - 1)
        /\ o + (ArrayLength - o) = ArrayLength
    BY <1>1, <1>2, <1>5
  <2>2. ArrayLength % SizeLimit = ArrayLength
    BY <1>1, NoWrap
  <2>3. ArrayLength \in Own(a)
    BY <2>1, <2>2 DEF Own, ElementsOf
  <2> QED
    BY <1>1, <2>3 DEF Inside, Indices
<1>7. Own(a) = 0..(ArrayLength - 1)
  <2>1. part[a].offset + part[a].words < SizeLimit
    BY <1>1, <1>2, <1>6
  <2> QED
    BY <1>1, <1>2, <1>6, <2>1, OwnElements
<1> QED
  BY <1>7 DEF Indices

(* What a write sends is an array.                                         *)
LEMMA ModifiedArray ==
  ASSUME TransfersTypeOK, NEW a \in Readers, NEW w \in [Own(a) -> Elements],
         pc[a] = "write"
  PROVE  /\ Modified(a, w) \in Arrays
         /\ \A i \in Indices \ Own(a) : Modified(a, w)[i] = data[a][i]
<1>1. data[a] \in Arrays
  BY DEF TransfersTypeOK
<1> QED
  BY <1>1 DEF Modified, Arrays

-----------------------------------------------------------------------------
(* The invariant holds initially, ...                                      *)
LEMMA TransfersInvInit == TransfersInit => TransfersInv
<1> SUFFICES ASSUME TransfersInit PROVE TransfersInv
  OBVIOUS
<1>1. VersionsInv
  BY VersionsInvInit DEF TransfersInit
<1>2. \A a \in Readers : /\ part[a] \in Parts /\ pc[a] = "idle"
                         /\ data[a] = NoData /\ time[a] = 0
  BY DEF TransfersInit
<1>3. sent = 0
  BY DEF TransfersInit, VersionsInit
<1>4. TransfersTypeOK
  <2>1. part \in [Readers -> [offset : 0..(SizeLimit - 1), words : 1..MaxWords]]
    BY <1>2, PartsInside DEF TransfersInit
  <2>2. ASSUME NEW a \in Readers, ~Wraps(a)
        PROVE  Inside(a)
    <3>1. /\ part[a].offset \in Nat /\ part[a].words \in Nat \ {0}
          /\ SizeLimit \in Nat /\ ArrayLength \in Nat
      BY <2>1, TransfersAssumption
    <3>2. part[a].offset + part[a].words < SizeLimit
      BY <2>2, <3>1 DEF Wraps
    <3>3. part[a].offset + part[a].words <= ArrayLength
      BY <1>2, <3>2, PartsInside
    <3>4. Own(a) = part[a].offset .. (part[a].offset + part[a].words - 1)
      BY <2>1, <3>2, OwnElements
    <3> QED
      BY <3>1, <3>3, <3>4 DEF Inside, Indices
  <2>3. outside \in BOOLEAN /\ ~outside
    BY DEF TransfersInit
  <2> QED
    BY <2>1, <2>2, <2>3, <1>2, <1>3 DEF TransfersInit, TransfersTypeOK
<1>5. CopyCurrent
  BY <1>2 DEF CopyCurrent
<1> QED
  BY <1>1, <1>4, <1>5 DEF TransfersInv

(* ... is kept by every step ...                                           *)
LEMMA TransfersInvStep ==
  TransfersInv /\ [TransfersNext]_<<versionVars, transferVars>> => TransfersInv'
<1> SUFFICES ASSUME TransfersInv, [TransfersNext]_<<versionVars, transferVars>>
             PROVE  TransfersInv'
  OBVIOUS
<1>1. VersionsInv'
  BY VersionsStep, VersionsInvStep DEF TransfersInv
<1>2. sent \in Nat /\ NoData \notin Arrays
  BY VersionsAssumption, TransfersAssumption
  DEF TransfersInv, VersionsInv, VersionsTypeOK, Arrays, Indices
<1>3. TransfersTypeOK /\ CopyCurrent
  BY DEF TransfersInv
<1>4. CASE Send /\ UNCHANGED transferVars
  <2>1. sent' = sent + 1 /\ UNCHANGED transferVars
    BY <1>4 DEF Send
  <2>2. time' \in [Readers -> 0..sent']
    BY <2>1, <1>2, <1>3 DEF transferVars, TransfersTypeOK
  <2>3. TransfersTypeOK' /\ CopyCurrent'
    BY <2>1, <2>2, <1>3 DEF transferVars, TransfersTypeOK, CopyCurrent, Own, Inside,
        Wraps
  <2> QED
    BY <1>1, <2>3 DEF TransfersInv
<1>5. ASSUME NEW a \in Readers, Read(a)
      PROVE  TransfersInv'
  <2>1. TransfersTypeOK'
    BY <1>5, <1>2, <1>3
    DEF Read, CopyVariant, versionVars, TransfersTypeOK, Own, Inside, Wraps
  <2>2. CopyCurrent'
    BY <1>5, <1>3
    DEF Read, CopyVariant, TransfersTypeOK, CopyCurrent, Own, Inside,
        Wraps
  <2> QED
    BY <1>1, <2>1, <2>2 DEF TransfersInv
<1>6. ASSUME NEW a \in Readers, ReadDone(a)
      PROVE  TransfersInv'
  <2>1. sent' = sent
    BY <1>6 DEF ReadDone, PostRead
  <2>2. TransfersTypeOK'
    BY <1>6, <2>1, <1>3 DEF ReadDone, TransfersTypeOK, Own, Inside, Wraps
  <2>3. CopyCurrent'
    BY <1>6, <1>3 DEF ReadDone, TransfersTypeOK, CopyCurrent, Own, Inside,
        Wraps
  <2> QED
    BY <1>1, <2>2, <2>3 DEF TransfersInv
<1>7. ASSUME NEW a \in Readers, NEW d \in Arrays, NEW s \in Stamps,
             Notified(a, d, s)
      PROVE  TransfersInv'
  <2>1. sent' = sent /\ s \in 0..sent
    BY <1>7, <1>2 DEF Notified, PostRead, Stamps
  <2>2. TransfersTypeOK'
    BY <1>7, <2>1, <1>2, <1>3 DEF Notified, TransfersTypeOK, Own, Inside, Wraps
  <2>3. CopyCurrent'
    BY <1>7, <1>3 DEF Notified, TransfersTypeOK, CopyCurrent, Own, Inside,
        Wraps
  <2> QED
    BY <1>1, <2>2, <2>3 DEF TransfersInv
<1>8. ASSUME NEW a \in Readers, ReadFails(a)
      PROVE  TransfersInv'
  <2>1. TransfersTypeOK' /\ CopyCurrent'
    BY <1>8, <1>3
    DEF ReadFails, versionVars, TransfersTypeOK, CopyCurrent, Own, Inside,
        Wraps
  <2> QED
    BY <1>1, <2>1 DEF TransfersInv
<1>9. ASSUME NEW a \in Readers, BeginWrite(a)
      PROVE  TransfersInv'
  <2>1. /\ UNCHANGED <<part, array, connected, outside>> /\ sent' = sent
        /\ pc' = [pc EXCEPT ![a] = "write"]
        /\ untouched' = [untouched EXCEPT ![a] = TRUE]
    BY <1>9 DEF BeginWrite, versionVars
  <2>2. /\ data' \in [Readers -> Arrays \cup {NoData}]
        /\ time' \in [Readers -> 0..sent]
        /\ data'[a] \in Arrays
        /\ \A b \in Readers \ {a} : data'[b] = data[b]
        /\ Inside(a) => \A i \in Indices \ Own(a) : data'[a][i] = array[i]
    <3>1. CASE ReadsFirst(a)
      <4>1. /\ data' = [data EXCEPT ![a] = array]
            /\ time' = [time EXCEPT ![a] = sent]
        BY <1>9, <3>1 DEF BeginWrite, CopyVariant
      <4> QED
        BY <4>1, <1>2, <1>3 DEF TransfersTypeOK
    <3>2. CASE ~ReadsFirst(a)
      <4>1. data' = data /\ time' = time /\ ~IsPartial(a) /\ data[a] # NoData
        BY <1>9, <3>2 DEF BeginWrite, ReadsFirst
      <4>2. Inside(a) => Indices \ Own(a) = {}
        BY <4>1, <1>3, WholePart
      <4> QED
        BY <4>1, <4>2, <1>3 DEF TransfersTypeOK
    <3> QED
      BY <3>1, <3>2
  <2>3. TransfersTypeOK'
    BY <2>1, <2>2, <1>2, <1>3 DEF TransfersTypeOK, Own, Inside, Wraps
  <2>4. CopyCurrent'
    BY <2>1, <2>2, <1>3 DEF TransfersTypeOK, CopyCurrent, Own, Inside,
        Wraps
  <2> QED
    BY <1>1, <2>3, <2>4 DEF TransfersInv
<1>10. ASSUME NEW a \in Readers, NEW w \in [Own(a) -> Elements], Modify(a, w),
              \/ array' = array /\ untouched' = untouched
              \/ /\ array' = Modified(a, w)
                 /\ untouched' =
                      [b \in Readers |-> untouched[b] /\ array' = array],
              connected' \in BOOLEAN
       PROVE  TransfersInv'
  <2>1. /\ part' = part /\ time' = time /\ sent' = sent /\ outside' = outside
        /\ pc' = [pc EXCEPT ![a] = "idle"]
        /\ data' = [data EXCEPT ![a] = Modified(a, w)]
        /\ pc[a] = "write"
    BY <1>10 DEF Modify, versionVars
  <2>2. Modified(a, w) \in Arrays
    BY <2>1, <1>3, ModifiedArray
  <2>3. /\ array' \in Arrays /\ untouched' \in [Readers -> BOOLEAN]
        /\ \A b \in Readers : untouched'[b] => untouched[b] /\ array' = array
    BY <1>10, <2>2, <1>3 DEF TransfersTypeOK
  <2>4. TransfersTypeOK'
    BY <2>1, <2>2, <2>3, <1>10, <1>3 DEF TransfersTypeOK, Own, Inside, Wraps
  <2>5. CopyCurrent'
    <3> SUFFICES ASSUME NEW b \in Readers, Inside(b), pc'[b] = "write", untouched'[b],
                        NEW i \in Indices \ Own(b)
                 PROVE  data'[b][i] = array'[i]
      BY <2>1 DEF CopyCurrent, Own, Inside
    <3>1. b # a
      BY <2>1, <1>3 DEF TransfersTypeOK
    <3>2. pc[b] = "write" /\ untouched[b] /\ array' = array /\ data'[b] = data[b]
      BY <2>1, <2>3, <3>1, <1>3 DEF TransfersTypeOK
    <3> QED
      BY <3>2, <1>3 DEF CopyCurrent
  <2> QED
    BY <1>1, <2>4, <2>5 DEF TransfersInv
<1>11. ASSUME NEW a \in Readers, NEW w \in [Own(a) -> Elements],
              Write(a, w) \/ WriteFails(a, w)
       PROVE  TransfersInv'
  <2>1. connected \in BOOLEAN
    BY <1>3 DEF TransfersTypeOK
  <2>2. CASE Write(a, w)
    BY <2>1, <2>2, <1>10 DEF Write
  <2>3. CASE WriteFails(a, w)
    BY <2>1, <2>3, <1>10 DEF WriteFails
  <2> QED
    BY <1>11, <2>2, <2>3
<1>12. ASSUME NEW d \in Arrays, OtherClient(d)
       PROVE  TransfersInv'
  <2>1. TransfersTypeOK'
    BY <1>12, <1>3 DEF OtherClient, versionVars, TransfersTypeOK, Own, Inside, Wraps
  <2>2. /\ pc' = pc /\ data' = data /\ part' = part
        /\ \A b \in Readers : untouched'[b] => untouched[b] /\ array' = array
    BY <1>12 DEF OtherClient
  <2>3. CopyCurrent'
    BY <2>2, <1>3 DEF CopyCurrent, Own, Inside
  <2> QED
    BY <1>1, <2>1, <2>3 DEF TransfersInv
<1>13. CASE Reopen
  <2>1. TransfersTypeOK' /\ CopyCurrent'
    BY <1>13, <1>3 DEF Reopen, versionVars, TransfersTypeOK, CopyCurrent, Own, Inside,
        Wraps
  <2> QED
    BY <1>1, <2>1 DEF TransfersInv
<1>14. ASSUME NEW a \in Readers, LeaveArray(a)
       PROVE  TransfersInv'
  <2>1. Wraps(a) /\ outside' = TRUE
    BY <1>14, <1>3 DEF LeaveArray, TransfersTypeOK
  <2>2. TransfersTypeOK' /\ CopyCurrent'
    BY <1>14, <1>3, <2>1
    DEF LeaveArray, versionVars, TransfersTypeOK, CopyCurrent, Own, Inside,
        Wraps
  <2> QED
    BY <1>1, <2>2 DEF TransfersInv
<1>15. CASE UNCHANGED <<versionVars, transferVars>>
  <2>1. TransfersTypeOK' /\ CopyCurrent'
    BY <1>15, <1>3
    DEF versionVars, transferVars, TransfersTypeOK, CopyCurrent, Own, Inside,
        Wraps
  <2> QED
    BY <1>1, <2>1 DEF TransfersInv
<1> QED
  BY <1>4, <1>5, <1>6, <1>7, <1>8, <1>9, <1>11, <1>12, <1>13, <1>14, <1>15
  DEF TransfersNext

(* ... and so holds always.                                                *)
LEMMA TransfersAlways == TransfersSpec => []TransfersInv
BY TransfersInvInit, TransfersInvStep, PTL DEF TransfersSpec

-----------------------------------------------------------------------------
(* Whatever accessors read, write and are notified of, doPostRead gives    *)
(* data of different stamps different versions, one version to the newest  *)
(* data, and equal versions to equal stamps until the map is full: their   *)
(* steps are those of VersionMapper, whose theorems carry over.            *)
THEOREM TransfersAgree ==
  TransfersSpec => [](VersionsDistinct /\ NewestAgreed /\ AgreedBelowLimit)
<1>1. TransfersInit => VersionsInit
  BY DEF TransfersInit
<1>2. TransfersSpec => VersionsSpec
  BY <1>1, VersionsStep, PTL DEF TransfersSpec, VersionsSpec
<1> QED
  BY <1>2, StampsTold, NewestStampAgreed, AgreedUntilFull, PTL

(* However transfers, failures and other clients interleave, a write       *)
(* changes the words of others only if the array changed since             *)
(* doWriteTransfer began.                                                  *)
THEOREM OthersAlwaysKept == TransfersSpec => OthersKept
<1> DEFINE Kept1 == \A a \in Readers :
              Inside(a) /\ pc[a] = "write" /\ pc'[a] = "idle" /\ untouched[a]
                => \A i \in Indices \ Own(a) : array'[i] = array[i]
<1>1. TransfersInv /\ [TransfersNext]_<<versionVars, transferVars>>
        => [Kept1]_<<versionVars, transferVars>>
  <2> SUFFICES ASSUME TransfersInv, TransfersNext, NEW a \in Readers,
                      Inside(a), pc[a] = "write", pc'[a] = "idle", untouched[a],
                      NEW i \in Indices \ Own(a)
               PROVE  array'[i] = array[i]
    OBVIOUS
  <2>1. TransfersTypeOK /\ CopyCurrent
    BY DEF TransfersInv
  <2>2. CASE \E b \in Readers : \E w \in [Own(b) -> Elements] : Write(b, w)
    <3>1. PICK b \in Readers : \E w \in [Own(b) -> Elements] : Write(b, w)
      BY <2>2
    <3>2. PICK w \in [Own(b) -> Elements] : Write(b, w)
      BY <3>1
    <3>3. b = a
      BY <3>2, <2>1 DEF Write, Modify, TransfersTypeOK
    <3>4. array'[i] = data[a][i]
      BY <3>2, <3>3, <2>1, ModifiedArray DEF Write
    <3> QED
      BY <3>4, <2>1 DEF CopyCurrent
  <2>3. CASE \E d \in Arrays : OtherClient(d)
    BY <2>3 DEF OtherClient
  <2>4. CASE array' = array
    BY <2>4
  <2> QED
    BY <2>2, <2>3, <2>4
    DEF TransfersNext, Send, transferVars, Read, ReadDone, ReadFails,
        BeginWrite, Notified, WriteFails, LeaveArray, Reopen
<1> QED
  BY <1>1, TransfersAlways, PTL DEF TransfersSpec, OthersKept
=============================================================================
