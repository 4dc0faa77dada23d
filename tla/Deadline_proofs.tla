--------------------------- MODULE Deadline_proofs ---------------------------
(***************************************************************************)
(* For every limit and every time limit: no sequence of calls takes queue   *)
(* out of its storage, and as long as nobody changes the limit (no caller   *)
(* does) the ring answers as if it remembered every packet, and aborts      *)
(* exactly when packets overtook the question.                              *)
(***************************************************************************)
EXTENDS Deadline, FiniteSetTheorems, TLAPS

(***************************************************************************)
(* The inductive invariant.                                                 *)
(***************************************************************************)
\* The storage holds at least maxCount times.
Storage == \E size \in {MaxCount} \cup Resizes :
             items \in [0 .. size - 1 -> Times] /\ maxCount <= size

InStorage == front \in {-1} \cup DOMAIN items /\ rear \in {-1} \cup DOMAIN items

OthersType == /\ maxCount \in {MaxCount} \cup Resizes
              /\ clock \in Start .. Start + MaxTicks
              /\ stamps \in Seq(Times)
              /\ call \in [question : {"none", "breach", "silence"}, at : {0} \cup Times]
              /\ answer \in BOOLEAN /\ asserts \in BOOLEAN /\ aborted \in BOOLEAN

\* Packets were stored in the order they came.
InOrder == /\ \A i \in 1 .. Len(stamps) : stamps[i] <= clock
           /\ \A i, j \in 1 .. Len(stamps) : i <= j => stamps[i] <= stamps[j]

\* Which of n packets a slot holds when the newest stands at last: older ones before
\* it, the oldest behind it. None, if that is not positive.
PacketAt(slot, n, last) ==
  IF slot <= last THEN n - (last - slot) ELSE n - (last - slot) - MaxCount

\* The ring before the limit is changed: it fills up from 0 and then goes around.
Ring ==
  maxCount = MaxCount =>
    /\ DOMAIN items = 0 .. MaxCount - 1
    /\ Len(stamps) = 0 => front = -1 /\ rear = -1
    /\ Len(stamps) \in 1 .. MaxCount => front = 0 /\ rear = Len(stamps) - 1
    /\ Len(stamps) > MaxCount =>
         /\ rear \in 0 .. MaxCount - 1
         /\ front = IF rear = MaxCount - 1 THEN 0 ELSE rear + 1
    /\ \A slot \in 0 .. MaxCount - 1 :
         LET packet == PacketAt(slot, Len(stamps), rear)
         IN packet >= 1 => items[slot] = stamps[packet]

IInv == Storage /\ InStorage /\ OthersType /\ InOrder /\ Ring

\* The constants and the times are integers.
LEMMA Constants ==
  /\ MaxCount \in Nat \ {0} /\ Resizes \subseteq Nat \ {0}
  /\ MaxTime \in Nat /\ MaxHealthCheckTime \in Nat /\ MaxTicks \in Nat
  /\ Start \in Nat /\ Times \subseteq Nat /\ Epoch \in Times
<1>1. Start \in Nat
  BY TimeAssumption DEF Start
<1> QED BY <1>1, CountAssumption, TimeAssumption, BoundAssumption DEF Times, Epoch

\* The next index of a ring.
LEMMA NextIndex ==
  ASSUME NEW size \in Nat \ {0}, NEW index \in 0 .. size
  PROVE  index % size = IF index = size THEN 0 ELSE index
  OBVIOUS

LEMMA IndexInRing ==
  ASSUME NEW size \in Nat \ {0}, NEW index \in Nat
  PROVE  index % size \in 0 .. size - 1
  OBVIOUS

(***************************************************************************)
(* The ring.                                                                *)
(***************************************************************************)
\* The indices that increment moves stay in the storage.
LEMMA IndicesAfterAdd ==
  ASSUME Storage, InStorage, OthersType
  PROVE  /\ RearAfterAdd \in DOMAIN items
         /\ FrontAfterAdd \in DOMAIN items
<1>1. PICK size \in Nat \ {0} : DOMAIN items = 0 .. size - 1 /\ maxCount <= size
  BY Constants DEF Storage
<1>2. maxCount \in Nat \ {0}
  BY Constants DEF OthersType
<1>3. \A index \in Nat : index % maxCount \in DOMAIN items
  BY <1>1, <1>2, IndexInRing
<1>4. rear + 1 \in Nat /\ front + 1 \in Nat
  BY <1>1 DEF InStorage
<1>5. RearAfterAdd \in DOMAIN items
  BY <1>3, <1>4 DEF RearAfterAdd
<1>6. FrontAfterAdd \in DOMAIN items
  BY <1>1, <1>3, <1>4 DEF FrontAfterAdd, InStorage
<1> QED BY <1>5, <1>6

\* A ring whose limit was not changed is full after MaxCount packets; front is the
\* oldest of them, rear the last packet.
LEMMA FullMeans ==
  ASSUME Ring, maxCount = MaxCount
  PROVE  /\ Full <=> Len(stamps) >= MaxCount
         /\ Full => /\ Len(stamps) - MaxCount + 1 \in 1 .. Len(stamps)
                    /\ First = stamps[Len(stamps) - MaxCount + 1]
         /\ rear # -1 <=> Len(stamps) # 0
         /\ rear # -1 => Last = stamps[Len(stamps)]
<1>1. Len(stamps) \in Nat /\ MaxCount \in Nat \ {0}
  BY Constants
<1>2. \/ Len(stamps) = 0 /\ front = -1 /\ rear = -1
      \/ Len(stamps) \in 1 .. MaxCount /\ front = 0 /\ rear = Len(stamps) - 1
      \/ /\ Len(stamps) > MaxCount /\ rear \in 0 .. MaxCount - 1
         /\ front = IF rear = MaxCount - 1 THEN 0 ELSE rear + 1
  BY <1>1 DEF Ring
<1>3. Full <=> Len(stamps) >= MaxCount
  BY <1>1, <1>2 DEF Full
<1>4. rear # -1 <=> Len(stamps) # 0
  BY <1>1, <1>2
<1>5. ASSUME Full
      PROVE  /\ Len(stamps) - MaxCount + 1 \in 1 .. Len(stamps)
             /\ First = stamps[Len(stamps) - MaxCount + 1]
  <2>1. front \in 0 .. MaxCount - 1 /\ PacketAt(front, Len(stamps), rear) = Len(stamps) - MaxCount + 1
    BY <1>1, <1>2, <1>3, <1>5 DEF PacketAt
  <2>2. Len(stamps) - MaxCount + 1 \in 1 .. Len(stamps)
    BY <1>1, <1>3, <1>5
  <2> QED BY <2>1, <2>2 DEF Ring, First
<1>6. ASSUME rear # -1 PROVE Last = stamps[Len(stamps)]
  <2>1. rear \in 0 .. MaxCount - 1 /\ PacketAt(rear, Len(stamps), rear) = Len(stamps)
    BY <1>1, <1>2, <1>6 DEF PacketAt
  <2> QED BY <1>1, <1>4, <1>6, <2>1 DEF Ring, Last
<1> QED BY <1>3, <1>4, <1>5, <1>6

(***************************************************************************)
(* Each operation keeps the invariant.                                      *)
(***************************************************************************)
\* increment: the newest packet goes behind the last one, over the oldest if need be.
LEMMA IncrementKeepsRing ==
  ASSUME IInv, Increment PROVE Ring'
<1> SUFFICES ASSUME maxCount = MaxCount PROVE Ring'
  BY DEF Increment, Ring
<1> DEFINE n == Len(stamps)
<1>1. /\ n \in Nat /\ MaxCount \in Nat \ {0} /\ clock \in Times
      /\ stamps \in Seq(Times)
  BY Constants DEF IInv, OthersType, Times
<1>2. /\ stamps' = Append(stamps, clock) /\ maxCount' = maxCount
      /\ items' = [items EXCEPT ![RearAfterAdd] = clock]
      /\ front' = FrontAfterAdd /\ rear' = RearAfterAdd
  BY DEF Increment
<1>3. /\ Len(stamps') = n + 1 /\ stamps'[n + 1] = clock
      /\ \A i \in 1 .. n : stamps'[i] = stamps[i]
  BY <1>1, <1>2
<1>4. \/ n = 0 /\ front = -1 /\ rear = -1
      \/ n \in 1 .. MaxCount /\ front = 0 /\ rear = n - 1
      \/ /\ n > MaxCount /\ rear \in 0 .. MaxCount - 1
         /\ front = IF rear = MaxCount - 1 THEN 0 ELSE rear + 1
  BY <1>1 DEF IInv, Ring
<1>5. Full <=> n >= MaxCount
  BY FullMeans DEF IInv
<1>6. /\ rear \in -1 .. MaxCount - 1
      /\ rear + 1 \in 0 .. MaxCount /\ front + 1 \in 0 .. MaxCount
  BY <1>1, <1>4
<1>7. /\ rear' = IF rear + 1 = MaxCount THEN 0 ELSE rear + 1
      /\ front' = IF n >= MaxCount THEN (IF front + 1 = MaxCount THEN 0 ELSE front + 1)
                  ELSE IF front = -1 THEN 0 ELSE front
  BY <1>1, <1>2, <1>5, <1>6, NextIndex DEF RearAfterAdd, FrontAfterAdd
<1>8. rear' \in 0 .. MaxCount - 1 /\ DOMAIN items = 0 .. MaxCount - 1
  BY <1>1, <1>6, <1>7 DEF IInv, Ring
<1>9. /\ DOMAIN items' = 0 .. MaxCount - 1 /\ items'[rear'] = clock
      /\ \A slot \in 0 .. MaxCount - 1 : slot # rear' => items'[slot] = items[slot]
  BY <1>2, <1>8 DEF RearAfterAdd
<1>10. /\ n + 1 # 0
       /\ n + 1 \in 1 .. MaxCount => front' = 0 /\ rear' = n
       /\ n + 1 > MaxCount => front' = IF rear' = MaxCount - 1 THEN 0 ELSE rear' + 1
  BY <1>1, <1>4, <1>7
<1>11. ASSUME NEW slot \in 0 .. MaxCount - 1
       PROVE  PacketAt(slot, n + 1, rear')
                = IF slot = rear' THEN n + 1 ELSE PacketAt(slot, n, rear)
  <2> HIDE DEF n
  <2>1. CASE rear + 1 = MaxCount
    <3>1. rear = MaxCount - 1 /\ rear' = 0
      BY <1>1, <1>6, <1>7, <2>1
    <3> QED BY <1>1, <3>1 DEF PacketAt
  <2>2. CASE rear + 1 # MaxCount
    <3>1. rear \in -1 .. MaxCount - 2 /\ rear' = rear + 1
      BY <1>1, <1>6, <1>7, <2>2
    <3> QED BY <1>1, <3>1 DEF PacketAt
  <2> QED BY <2>1, <2>2
<1>12. ASSUME NEW slot \in 0 .. MaxCount - 1, PacketAt(slot, n + 1, rear') >= 1
       PROVE  items'[slot] = stamps'[PacketAt(slot, n + 1, rear')]
  <2>1. CASE slot = rear'
    BY <1>3, <1>9, <1>11, <2>1
  <2>2. CASE slot # rear'
    <3>1. PacketAt(slot, n, rear) \in 1 .. n
      BY <1>1, <1>4, <1>11, <1>12, <2>2 DEF PacketAt
    <3>2. items[slot] = stamps[PacketAt(slot, n, rear)]
      BY <3>1 DEF IInv, Ring
    <3> QED BY <1>3, <1>9, <1>11, <2>2, <3>1, <3>2
  <2> QED BY <2>1, <2>2
<1> HIDE DEF n
<1>13. n = Len(stamps)
  BY DEF n
<1> QED BY <1>1, <1>3, <1>8, <1>9, <1>10, <1>12, <1>13 DEF Ring

LEMMA IncrementKeeps == ASSUME IInv, Increment PROVE IInv'
<1>1. /\ stamps' = Append(stamps, clock) /\ UNCHANGED <<maxCount, clock, call, answer, asserts, aborted>>
      /\ items' = [items EXCEPT ![RearAfterAdd] = clock]
      /\ front' = FrontAfterAdd /\ rear' = RearAfterAdd
  BY DEF Increment, buildVars
<1>2. clock \in Times /\ stamps \in Seq(Times) /\ clock \in Nat
  BY Constants DEF IInv, OthersType, Times
<1>3. RearAfterAdd \in DOMAIN items /\ FrontAfterAdd \in DOMAIN items
  BY IndicesAfterAdd DEF IInv
<1>4. Storage' /\ InStorage'
  BY <1>1, <1>2, <1>3 DEF IInv, Storage, InStorage
<1>5. OthersType'
  BY <1>1, <1>2 DEF IInv, OthersType
<1>6. InOrder'
  <2> DEFINE n == Len(stamps)
  <2>1. /\ n \in Nat /\ Len(stamps') = n + 1 /\ stamps'[n + 1] = clock
        /\ \A i \in 1 .. n : stamps'[i] = stamps[i]
    BY <1>1, <1>2
  <2>2. \A i \in 1 .. n + 1 : i \in 1 .. n \/ i = n + 1
    BY <2>1
  <2>3. \A i \in 1 .. n + 1 : stamps'[i] <= clock
    BY <1>2, <2>1, <2>2 DEF IInv, InOrder
  <2>4. ASSUME NEW i \in 1 .. n + 1, NEW j \in 1 .. n + 1, i <= j
        PROVE  stamps'[i] <= stamps'[j]
    <3>1. CASE j = n + 1
      BY <2>1, <2>3, <3>1
    <3>2. CASE j # n + 1
      <4>1. i \in 1 .. n /\ j \in 1 .. n
        BY <2>1, <2>4, <3>2
      <4> QED BY <2>1, <2>4, <4>1 DEF IInv, InOrder
    <3> QED BY <3>1, <3>2
  <2> HIDE DEF n
  <2> QED BY <1>1, <2>1, <2>3, <2>4 DEF InOrder
<1> QED BY <1>4, <1>5, <1>6, IncrementKeepsRing DEF IInv

\* Time, the two questions, and an assertion that fails.
LEMMA AskingKeeps ==
  ASSUME IInv,
         \/ Tick \/ AnswerBreach \/ AnswerSilence \/ Abort
         \/ \E question \in {"breach", "silence"} : ReadClock(question)
  PROVE  IInv'
<1>1. UNCHANGED <<ringVars, stamps>> /\ clock' \in {clock, clock + 1}
  BY DEF Tick, AnswerBreach, AnswerSilence, Answered, ReadClock, Abort
<1>2. clock \in Nat /\ clock' \in Start .. Start + MaxTicks
  BY Constants DEF IInv, OthersType, Tick, AnswerBreach, AnswerSilence, Answered,
                   ReadClock, Abort
<1>3. call' \in [question : {"none", "breach", "silence"}, at : {0} \cup Times]
  BY Constants DEF IInv, OthersType, Tick, AnswerBreach, AnswerSilence, Answered,
                   ReadClock, Abort, Times
<1>4. answer' \in BOOLEAN
  <2>1. CASE AnswerBreach
    BY <2>1, Zenon DEF AnswerBreach, Breaches
  <2>2. CASE AnswerSilence
    BY <2>2, Zenon DEF AnswerSilence, Silent
  <2>3. CASE UNCHANGED answer
    BY <2>3, Zenon DEF IInv, OthersType
  <2> QED BY <2>1, <2>2, <2>3 DEF Tick, ReadClock, Abort
<1>8. asserts' \in BOOLEAN /\ aborted' \in BOOLEAN
  <2>1. asserts' = asserts /\ (aborted' = aborted \/ aborted' = TRUE)
    BY DEF Tick, AnswerBreach, AnswerSilence, Answered, ReadClock, Abort, buildVars
  <2> QED BY <2>1, Zenon DEF IInv, OthersType
<1>5. Storage' /\ InStorage' /\ Ring'
  BY <1>1 DEF ringVars, IInv, Storage, InStorage, Ring, PacketAt
<1>6. OthersType'
  BY <1>1, <1>2, <1>3, <1>4, <1>8 DEF ringVars, IInv, OthersType
<1>7. InOrder'
  <2>1. \A i \in 1 .. Len(stamps) : stamps[i] \in Nat /\ stamps[i] <= clock
    <3>1. \A i \in 1 .. Len(stamps) : stamps[i] \in Times
      BY DEF IInv, OthersType
    <3> QED BY <3>1, Constants DEF IInv, InOrder
  <2>2. \A i \in 1 .. Len(stamps) : stamps[i] <= clock'
    BY <1>1, <1>2, <2>1
  <2> QED BY <1>1, <2>2 DEF IInv, InOrder
<1> QED BY <1>5, <1>6, <1>7 DEF IInv

\* MaxCount(newMaxCount): copied or resized, the storage reaches to both indices.
LEMMA ChangeKeeps ==
  ASSUME IInv, NEW size \in Resizes, ChangeMaxCount(size) PROVE IInv'
<1>1. /\ maxCount = MaxCount /\ maxCount' = size
      /\ UNCHANGED <<clock, stamps, call, answer, asserts, aborted>>
      /\ MaxCount \in Nat \ {0} /\ size \in Nat \ {0} /\ size # MaxCount
  BY Constants DEF ChangeMaxCount, Grow, Shrink, buildVars
<1>2. /\ DOMAIN items = 0 .. MaxCount - 1
      /\ \A slot \in 0 .. MaxCount - 1 : items[slot] \in Times
      /\ front \in -1 .. MaxCount - 1 /\ rear \in -1 .. MaxCount - 1
  <2>1. DOMAIN items = 0 .. MaxCount - 1
    BY <1>1 DEF IInv, Ring
  <2> QED BY <1>1, <2>1 DEF IInv, Storage, InStorage
<1>3. CASE Shrink(size)
  <2>1. items' = items /\ front' = front /\ rear' = rear /\ size < MaxCount
    BY <1>1, <1>3 DEF Shrink
  <2>2. Storage' /\ InStorage'
    BY <1>1, <1>2, <2>1 DEF IInv, Storage, InStorage
  <2> QED BY <1>1, <2>2 DEF IInv, OthersType, InOrder, Ring
<1>4. CASE Grow(size)
  <2>1. MaxCount < size
    BY <1>1, <1>4 DEF Grow
  <2>2. CASE front > rear
    <3>1. items' = Unwrapped(size) /\ front' = 0 /\ rear' = MaxCount
      BY <1>1, <1>4, <2>2 DEF Grow
    <3>2. Unwrapped(size) \in [0 .. size - 1 -> Times]
      <4>1. front \in Nat
        BY <1>2, <2>2
      <4>2. \A j \in 0 .. size - 1 : (front + j) % maxCount \in 0 .. MaxCount - 1
        BY <1>1, <4>1, IndexInRing
      <4> QED BY <1>2, <4>2, Constants DEF Unwrapped
    <3>3. Storage' /\ InStorage'
      BY <1>1, <2>1, <3>1, <3>2 DEF Storage, InStorage
    <3> QED BY <1>1, <3>3 DEF IInv, OthersType, InOrder, Ring
  <2>3. CASE ~ (front > rear)
    <3>1. items' = Resized(size) /\ front' = front /\ rear' = rear
      BY <1>4, <2>3 DEF Grow
    <3>2. Resized(size) \in [0 .. size - 1 -> Times]
      BY <1>2, Constants DEF Resized
    <3>3. Storage' /\ InStorage'
      BY <1>1, <1>2, <2>1, <3>1, <3>2 DEF Storage, InStorage
    <3> QED BY <1>1, <3>3 DEF IInv, OthersType, InOrder, Ring
  <2> QED BY <2>2, <2>3
<1> QED BY <1>3, <1>4 DEF ChangeMaxCount

(***************************************************************************)
(* The invariant holds throughout.                                          *)
(***************************************************************************)
LEMMA InitIInv == Init => IInv
<1> SUFFICES ASSUME Init PROVE IInv
  OBVIOUS
<1>1. /\ items = [slot \in 0 .. MaxCount - 1 |-> Epoch] /\ front = -1 /\ rear = -1
      /\ maxCount = MaxCount /\ clock = Start /\ stamps = <<>>
      /\ call = [question |-> "none", at |-> 0]
  BY DEF Init
<1>2. Storage
  BY <1>1, Constants DEF Storage
<1>3. OthersType
  <2>1. answer \in BOOLEAN /\ asserts \in BOOLEAN /\ aborted \in BOOLEAN
    BY Zenon DEF Init
  <2>2. clock \in Start .. Start + MaxTicks /\ stamps \in Seq(Times)
    BY <1>1, Constants
  <2> QED BY <1>1, <2>1, <2>2 DEF OthersType
<1>4. InStorage /\ InOrder
  BY <1>1 DEF InStorage, InOrder
<1>5. Ring
  BY <1>1, Constants DEF Ring, PacketAt
<1> QED BY <1>2, <1>3, <1>4, <1>5 DEF IInv

LEMMA NextIInv == IInv /\ [Next]_vars => IInv'
<1> SUFFICES ASSUME IInv, [Next]_vars PROVE IInv'
  OBVIOUS
<1>1. CASE Increment
  BY <1>1, IncrementKeeps
<1>2. CASE \/ Tick \/ AnswerBreach \/ AnswerSilence \/ Abort
           \/ \E question \in {"breach", "silence"} : ReadClock(question)
  BY <1>2, AskingKeeps
<1>3. CASE \E size \in Resizes : ChangeMaxCount(size)
  BY <1>3, ChangeKeeps
<1>4. CASE UNCHANGED vars
  BY <1>4 DEF vars, ringVars, IInv, Storage, InStorage, OthersType, InOrder, Ring
<1> QED BY <1>1, <1>2, <1>3, <1>4 DEF Next, Step, Dead

\* What increment, the questions and MaxCount(n) rely on between two calls.
THEOREM Invariance == Spec => []IInv
  BY InitIInv, NextIInv, PTL DEF Spec

\* The members of queue and Deadline keep their types.
THEOREM TypeCorrect == Spec => []TypeOK
<1>1. IInv => TypeOK
  <2> SUFFICES ASSUME IInv PROVE TypeOK
    OBVIOUS
  <2>1. {front, rear} \subseteq {-1} \cup DOMAIN items
    BY DEF IInv, InStorage
  <2>2. \E size \in {MaxCount} \cup Resizes : items \in [0 .. size - 1 -> Times]
    BY DEF IInv, Storage
  <2> QED BY <2>1, <2>2, Zenon DEF IInv, OthersType, TypeOK
<1> QED BY Invariance, <1>1, PTL

\* Add, First and Last use vector::operator[] within the storage, for every limit and
\* whenever the limit is changed, to a smaller or a larger one.
THEOREM StorageRespected == Spec => []IndicesInBounds
<1>1. IInv => IndicesInBounds
  BY IndicesAfterAdd DEF IInv, InStorage, IndicesInBounds, RearAfterAdd
<1> QED BY Invariance, <1>1, PTL

(***************************************************************************)
(* The ring answers as the window over all packets does.                    *)
(***************************************************************************)
\* The window counts as the library does.
LEMMA SameCardinality == ASSUME NEW S PROVE Window!Cardinality(S) = Cardinality(S)
  BY Zenon DEF Window!Cardinality, Cardinality, Window!IsFiniteSet, IsFiniteSet

\* When packets came and when a question was asked are numbers.
LEMMA TimesAreNumbers ==
  ASSUME IInv, call.question # "none"
  PROVE  /\ Len(stamps) \in Nat /\ DOMAIN stamps = 1 .. Len(stamps)
         /\ \A i \in 1 .. Len(stamps) : stamps[i] \in Nat
         /\ call.at \in Nat
<1>1. stamps \in Seq(Times) /\ call.at \in {0} \cup Times
  BY DEF IInv, OthersType
<1>2. call.at \in Nat
  <2>1. Times \subseteq Nat /\ 0 \in Nat
    BY Constants
  <2> QED BY <1>1, <2>1, Zenon
<1>3. \A i \in 1 .. Len(stamps) : stamps[i] \in Times
  BY <1>1
<1>4. Len(stamps) \in Nat /\ DOMAIN stamps = 1 .. Len(stamps)
  BY <1>1
<1> QED BY <1>2, <1>3, <1>4, Constants

\* Packets of some age at most are the last ones; MaxCount packets are exactly when the
\* oldest one in a full ring is. (Of a negative age are those later than the question.)
LEMMA FullWithin ==
  ASSUME IInv, maxCount = MaxCount, call.question # "none", NEW age \in Int
  PROVE  Full /\ call.at - First <= age <=> Cardinality(Window!Within(age)) >= MaxCount
<1> DEFINE n == Len(stamps)
           within == Window!Within(age)
           oldest == n - MaxCount + 1
<1>1. /\ n \in Nat /\ MaxCount \in Nat \ {0} /\ call.at \in Nat
      /\ DOMAIN stamps = 1 .. n /\ \A i \in 1 .. n : stamps[i] \in Nat
  BY Constants, TimesAreNumbers
<1>2. within = {i \in 1 .. n : call.at - stamps[i] <= age}
  BY <1>1 DEF Window!Within
<1>3. \A i, j \in 1 .. n : i <= j /\ i \in within => j \in within
  BY <1>1, <1>2 DEF IInv, InOrder
<1>4. Full /\ call.at - First <= age <=> n >= MaxCount /\ oldest \in within
  BY <1>1, <1>2, FullMeans DEF IInv
<1>5. IsFiniteSet(within) /\ Cardinality(within) \in Nat
  <2>1. IsFiniteSet(1 .. n)
    <3> HIDE DEF n
    <3>1. 1 \in Int /\ n \in Int
      BY <1>1
    <3> QED BY <3>1, FS_Interval
  <2>2. within \subseteq 1 .. n
    BY <1>2
  <2> QED BY <2>1, <2>2, FS_Subset, FS_CardinalityType
<1>6. ASSUME n >= MaxCount, oldest \in within PROVE Cardinality(within) >= MaxCount
  <2>1. oldest .. n \subseteq within
    BY <1>1, <1>2, <1>3, <1>6
  <2>2. oldest \in Int /\ n \in Int /\ oldest <= n /\ n - oldest + 1 = MaxCount
    BY <1>1
  <2>3. Cardinality(oldest .. n) = MaxCount
    BY <2>2, FS_Interval
  <2>4. Cardinality(oldest .. n) <= Cardinality(within)
    BY <1>5, <2>1, FS_Subset
  <2> QED BY <2>3, <2>4
<1>7. ASSUME ~ (n >= MaxCount /\ oldest \in within)
      PROVE  Cardinality(within) < MaxCount
  <2>1. PICK from \in 1 .. n + 1 : within \subseteq from .. n /\ n - from + 1 < MaxCount
    <3>1. CASE n < MaxCount
      <4>1. 1 \in 1 .. n + 1 /\ within \subseteq 1 .. n /\ n - 1 + 1 < MaxCount
        BY <1>1, <1>2, <3>1
      <4> QED BY <4>1
    <3>2. CASE n >= MaxCount
      <4>1. oldest + 1 \in 1 .. n + 1 /\ n - (oldest + 1) + 1 < MaxCount
        BY <1>1, <3>2
      <4>2. within \subseteq oldest + 1 .. n
        BY <1>1, <1>2, <1>3, <1>7, <3>2
      <4> QED BY <4>1, <4>2
    <3> QED BY <1>1, <3>1, <3>2
  <2>2. Cardinality(from .. n) < MaxCount /\ IsFiniteSet(from .. n)
    <3> HIDE DEF n
    <3>1. from \in Int /\ n \in Int
      BY <1>1
    <3>2. IsFiniteSet(from .. n)
          /\ Cardinality(from .. n) = IF from > n THEN 0 ELSE n - from + 1
      BY <3>1, FS_Interval
    <3> QED BY <1>1, <2>1, <3>2
  <2>3. Cardinality(within) <= Cardinality(from .. n)
    BY <2>1, <2>2, FS_Subset
  <2>4. Cardinality(from .. n) \in Nat
    BY <2>2, FS_CardinalityType
  <2> QED BY <1>1, <1>5, <2>2, <2>3, <2>4
<1>8. n >= MaxCount /\ oldest \in within <=> Cardinality(within) >= MaxCount
  <2> HIDE DEF within, n, oldest
  <2> QED BY <1>1, <1>5, <1>6, <1>7
<1> QED BY <1>4, <1>8, Zenon

LEMMA BreachExact ==
  ASSUME IInv, maxCount = MaxCount, call.question = "breach"
  PROVE  /\ Breaches <=> Window!TooMany(maxCount)
         /\ ~ BreachAsserted <=> Window!Overtaken(maxCount)
<1>1. /\ Breaches <=> Cardinality(Window!Within(MaxTime)) >= MaxCount
      /\ Full /\ call.at - First <= -1 <=> Cardinality(Window!Within(-1)) >= MaxCount
  BY FullWithin, Constants DEF Breaches
<1>2. Full => call.at - First <= -1 <=> ~ (call.at >= First)
  <2>1. Full => First \in Int
    BY FullMeans, TimesAreNumbers DEF IInv
  <2> QED BY <2>1, TimesAreNumbers
<1> QED BY <1>1, <1>2, SameCardinality DEF BreachAsserted, Window!TooMany, Window!Overtaken

\* The last packet is the last to get old, and the first to overtake a question.
LEMMA SilenceExact ==
  ASSUME IInv, maxCount = MaxCount, call.question = "silence"
  PROVE  /\ Silent <=> Window!SilentTooLong
         /\ ~ SilenceAsserted <=> Window!Overtaken(1)
<1> DEFINE n == Len(stamps)
<1>1. /\ n \in Nat /\ MaxHealthCheckTime \in Nat /\ call.at \in Nat
      /\ DOMAIN stamps = 1 .. n /\ \A i \in 1 .. n : stamps[i] \in Nat
      /\ stamps # <<>> <=> n # 0
  <2>1. stamps \in Seq(Times)
    BY DEF IInv, OthersType
  <2>2. stamps # <<>> <=> n # 0
    BY <2>1
  <2> QED BY <2>2, Constants, TimesAreNumbers
<1>2. /\ Silent <=> n # 0 /\ call.at - stamps[n] > MaxHealthCheckTime
      /\ SilenceAsserted <=> (n # 0 => call.at >= stamps[n])
  BY FullMeans DEF IInv, Silent, SilenceAsserted
<1>3. Window!SilentTooLong <=>
        n # 0 /\ \A i \in 1 .. n : ~ (call.at - stamps[i] <= MaxHealthCheckTime)
  BY <1>1 DEF Window!SilentTooLong, Window!Within
<1>4. n # 0 => n \in 1 .. n /\ \A i \in 1 .. n : stamps[i] <= stamps[n]
  BY <1>1 DEF IInv, InOrder
<1>5. Window!Overtaken(1) <=> \E i \in 1 .. n : call.at - stamps[i] <= -1
  <2> DEFINE later == Window!Within(-1)
  <2>1. later = {i \in 1 .. n : call.at - stamps[i] <= -1}
    BY <1>1 DEF Window!Within
  <2>2. IsFiniteSet(1 .. n)
    <3> HIDE DEF n
    <3>1. 1 \in Int /\ n \in Int
      BY <1>1
    <3> QED BY <3>1, FS_Interval
  <2>3. IsFiniteSet(later)
    BY <2>1, <2>2, FS_Subset
  <2>4. Cardinality(later) \in Nat /\ (Cardinality(later) = 0 <=> later = {})
    BY <2>3, FS_CardinalityType, FS_EmptySet
  <2>5. Window!Overtaken(1) <=> Cardinality(later) >= 1
    BY SameCardinality DEF Window!Overtaken
  <2>6. Window!Overtaken(1) <=> later # {}
    BY <2>4, <2>5
  <2> QED BY <2>1, <2>6
<1> HIDE DEF n
<1> QED BY <1>1, <1>2, <1>3, <1>4, <1>5

\* An answer is the window's, and with assertions it was not overtaken.
LEMMA AnswersAgree ==
  ASSUME IInv, maxCount = MaxCount
  PROVE  /\ AnswerBreach => Window!ReplyBreach
         /\ AnswerSilence => Window!ReplySilence
<1>1. ~ (maxCount < MaxCount) /\ ~ (maxCount > MaxCount)
  BY Constants
<1>2. ASSUME AnswerBreach PROVE Window!ReplyBreach
  <2>1. call.question = "breach" /\ answer' = Breaches /\ (asserts => BreachAsserted)
    BY <1>2 DEF AnswerBreach
  <2>2. /\ Breaches <=> Window!TooMany(maxCount)
        /\ ~ BreachAsserted <=> Window!Overtaken(maxCount)
    BY <2>1, BreachExact
  <2>3. Breaches \in BOOLEAN
    BY Zenon DEF Breaches
  <2>4. answer' = Window!TooMany(maxCount)
    <3>1. Window!TooMany(maxCount) \in BOOLEAN
      BY SMT DEF Window!TooMany
    <3>2. PICK many \in BOOLEAN : many = Window!TooMany(maxCount)
      BY <3>1, Zenon
    <3>3. Breaches <=> many
      BY <2>2, <3>2, SMT
    <3> QED BY <2>1, <2>3, <3>2, <3>3, Zenon
  <2>5. ~ (asserts /\ Window!Overtaken(maxCount))
    BY <2>1, <2>2, Zenon
  <2> QED BY <1>1, <2>1, <2>3, <2>4, <2>5, Zenon DEF Window!ReplyBreach
<1>3. ASSUME AnswerSilence PROVE Window!ReplySilence
  <2>1. call.question = "silence" /\ answer' = Silent /\ (asserts => SilenceAsserted)
    BY <1>3 DEF AnswerSilence
  <2>2. /\ Silent <=> Window!SilentTooLong
        /\ ~ SilenceAsserted <=> Window!Overtaken(1)
    BY <2>1, SilenceExact
  <2>3. Silent \in BOOLEAN /\ Window!SilentTooLong \in BOOLEAN
    BY Zenon DEF Silent, Window!SilentTooLong
  <2>4. answer' = Window!SilentTooLong /\ ~ (asserts /\ Window!Overtaken(1))
    BY <2>1, <2>2, <2>3, Zenon
  <2> QED BY <1>1, <2>1, <2>3, <2>4, Zenon DEF Window!ReplySilence
<1> QED BY <1>2, <1>3, Zenon

\* A step of the ring is one of the window.
LEMMA WindowStep ==
  ASSUME Resizes = {}, IInv, [Next]_vars PROVE [Window!Next]_Window!vars
<1>1. maxCount = MaxCount
  BY DEF IInv, OthersType
<1>2. ASSUME ~ aborted, Tick PROVE Window!Next
  BY <1>2 DEF Tick, ringVars, buildVars, Window!Next, Window!Tick, Window!buildVars
<1>3. ASSUME ~ aborted, Increment PROVE Window!Next
  BY <1>3 DEF Increment, buildVars, Window!Next, Window!Record, Window!buildVars
<1>4. ASSUME ~ aborted, NEW question \in {"breach", "silence"}, ReadClock(question)
      PROVE  Window!Next
  BY <1>4 DEF ReadClock, ringVars, buildVars, Window!Next, Window!Ask, Window!buildVars
<1>5. ASSUME ~ aborted, AnswerBreach \/ AnswerSilence PROVE Window!Next
  <2>1. Window!ReplyBreach \/ Window!ReplySilence
    BY <1>1, <1>5, AnswersAgree, Zenon
  <2>2. /\ call' = [question |-> "none", at |-> 0]
        /\ UNCHANGED <<clock, stamps, maxCount, asserts, aborted>>
    BY <1>5 DEF AnswerBreach, AnswerSilence, Answered, ringVars, buildVars
  <2>3. UNCHANGED <<clock, stamps, maxCount, Window!buildVars>>
    BY <2>2 DEF Window!buildVars
  <2> QED BY <1>5, <2>1, <2>2, <2>3, Zenon DEF Window!Next, Window!Reply
<1>6. ASSUME ~ aborted, Abort PROVE Window!Next
  <2>1. /\ asserts /\ aborted' = TRUE
        /\ UNCHANGED <<clock, stamps, maxCount, call, answer, asserts>>
        /\ \/ call.question = "breach" /\ ~ BreachAsserted
           \/ call.question = "silence" /\ ~ SilenceAsserted
    BY <1>6 DEF Abort, ringVars
  <2>2. \/ call.question = "breach" /\ Window!Overtaken(maxCount)
        \/ call.question = "silence" /\ Window!Overtaken(1)
    BY <1>1, <2>1, BreachExact, SilenceExact, Zenon
  <2>3. ~ (maxCount > MaxCount)
    BY <1>1, Constants
  <2>4. (IF maxCount > MaxCount THEN maxCount - 1 ELSE maxCount) = maxCount
    BY <2>3, Zenon
  <2> QED BY <1>6, <2>1, <2>2, <2>4, Zenon DEF Window!Next, Window!Stop
<1>7. CASE UNCHANGED vars
  BY <1>7 DEF vars, Window!vars
<1>8. CASE ~ aborted /\ Step
  BY <1>2, <1>3, <1>4, <1>5, <1>6, <1>8 DEF Step
<1> QED BY <1>7, <1>8 DEF Next, Dead

\* As long as MaxCount(n) is not called, as in this server, operator bool and
\* HealthCheckNeeded answer exactly what a memory of all packets would, and a build
\* with assertions aborts exactly when packets overtook the question.
THEOREM WindowImplemented == ASSUME Resizes = {} PROVE Spec => ImplementsWindow
<1>1. Init => Window!Init
  BY Constants DEF Init, Window!Init
<1>2. IInv /\ [Next]_vars => [Window!Next]_Window!vars
  BY WindowStep
<1> QED BY <1>1, <1>2, Invariance, PTL DEF Spec, ImplementsWindow, Window!Spec
=============================================================================
