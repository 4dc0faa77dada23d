--------------------- MODULE MostRecentTimestamps_proofs ---------------------
(***************************************************************************)
(* For any sockets, threads and timeout: no socket is passed over for       *)
(* longer than the timeout. The lemmas at the end are about the code as it  *)
(* is: nothing leaves the list, though comments say that sockets are        *)
(* removed.                                                                 *)
(***************************************************************************)
EXTENDS MostRecentTimestamps, TLAPS

(***************************************************************************)
(* The inductive invariant: entries are stamped before they are put in the  *)
(* list, and the list has them in the order they were put in. Their times   *)
(* may be in another one.                                                   *)
(***************************************************************************)
StampedBefore == \A i \in DOMAIN list : list[i].time <= list[i].at /\ list[i].at <= clock

InOrderPutIn == \A i, j \in DOMAIN list : i <= j => list[i].at <= list[j].at

CalledBefore == \A t \in Threads : update[t].time <= clock

\* Nothing ever fills the mapper, so nothing is ever erased.
NothingMapped == mapper = {}

IInv == TypeOK /\ StampedBefore /\ InOrderPutIn /\ CalledBefore /\ NothingMapped

LEMMA Entries ==
  ASSUME NEW s \in Seq(Entry), NEW i \in DOMAIN s
  PROVE  s[i].socket \in Sockets /\ s[i].time \in Nat /\ s[i].at \in Nat
<1>1. s[i] \in Entry /\ MaxClock \in Nat
  BY BoundAssumption
<1> QED BY <1>1 DEF Entry

LEMMA InitCorrect == Init => IInv
<1> SUFFICES ASSUME Init PROVE IInv
  OBVIOUS
<1>1. list = <<>> /\ mapper = {} /\ clock = 0 /\ MaxClock \in Nat
  BY BoundAssumption DEF Init
<1>2. update = [t \in Threads |-> [sockets |-> <<>>, time |-> 0]]
  BY DEF Init, NoUpdate
<1>3. update \in [Threads -> [sockets : Seq(Sockets), time : 0 .. MaxClock]]
  BY <1>1, <1>2
<1>4. CalledBefore
  BY <1>1, <1>2 DEF CalledBefore
<1> QED BY <1>1, <1>3, <1>4 DEF IInv, TypeOK, StampedBefore, InOrderPutIn, NothingMapped

(***************************************************************************)
(* What a step does to the list: it appends entries that are stamped with   *)
(* the second they are put in, or with an earlier one.                      *)
(***************************************************************************)
Grows ==
  /\ list' \in Seq(Entry) /\ Len(list) <= Len(list')
  /\ \A i \in 1 .. Len(list) : list'[i] = list[i]
  /\ \A i \in Len(list) + 1 .. Len(list') : list'[i].at = clock /\ list'[i].time <= clock

LEMMA AppendedEntries ==
  ASSUME clock \in 0 .. MaxClock, NEW keys \in Seq(Sockets), NEW value \in 0 .. MaxClock
  PROVE  /\ Appended(keys, value) \in Seq(Entry)
         /\ \A i \in 1 .. Len(Appended(keys, value)) :
              Appended(keys, value)[i].at = clock /\ Appended(keys, value)[i].time = value
<1>1. DOMAIN keys = 1 .. Len(keys) /\ \A i \in 1 .. Len(keys) : keys[i] \in Sockets
  OBVIOUS
<1>2. \A i \in 1 .. Len(keys) : [socket |-> keys[i], time |-> value, at |-> clock] \in Entry
  BY <1>1 DEF Entry
<1>3. Appended(keys, value)
        = [i \in 1 .. Len(keys) |-> [socket |-> keys[i], time |-> value, at |-> clock]]
  BY <1>1 DEF Appended
<1> QED BY <1>2, <1>3

LEMMA Joined ==
  ASSUME NEW S, NEW s \in Seq(S), NEW t \in Seq(S)
  PROVE  /\ s \o t \in Seq(S) /\ Len(s \o t) = Len(s) + Len(t)
         /\ \A i \in 1 .. Len(s) : (s \o t)[i] = s[i]
         /\ \A i \in 1 .. Len(t) : (s \o t)[Len(s) + i] = t[i]
OBVIOUS

LEMMA UpdateGrows == ASSUME IInv, NEW t \in Threads, Update(t) PROVE Grows
<1> DEFINE new == Appended(update[t].sockets, update[t].time)
<1>1. /\ list \in Seq(Entry) /\ clock \in 0 .. MaxClock /\ mapper = {} /\ clock \in Nat
      /\ update[t].sockets \in Seq(Sockets) /\ update[t].time \in 0 .. MaxClock
      /\ update[t].time <= clock
  BY BoundAssumption DEF IInv, TypeOK, CalledBefore, NothingMapped
<1>2. list' = list \o new
  BY <1>1 DEF Update, Inserted, Erased
<1>3. /\ new \in Seq(Entry)
      /\ \A i \in 1 .. Len(new) : new[i].at = clock /\ new[i].time <= clock
  BY <1>1, AppendedEntries
<1> HIDE DEF new
<1>4. /\ list' \in Seq(Entry)
      /\ \A i \in 1 .. Len(list) : list'[i] = list[i]
      /\ \A i \in 1 .. Len(new) : list'[Len(list) + i] = new[i]
  BY <1>1, <1>2, <1>3, Joined
<1> DEFINE length == Len(list')
<1>5. length = Len(list) + Len(new)
  BY <1>1, <1>2, <1>3, Joined
<1>6. Len(list) \in Nat /\ Len(new) \in Nat
  BY <1>1, <1>3
<1> HIDE DEF length
<1>7. Len(list) <= length
  BY <1>5, <1>6
<1>8. ASSUME NEW i \in Len(list) + 1 .. length
      PROVE  list'[i].at = clock /\ list'[i].time <= clock
  <2> DEFINE j == i - Len(list)
  <2>1. j \in 1 .. Len(new) /\ Len(list) + j = i
    BY <1>5, <1>6
  <2> HIDE DEF j
  <2>2. list'[i] = new[j]
    BY <1>4, <2>1
  <2> QED BY <1>3, <2>1, <2>2
<1> QED BY <1>4, <1>7, <1>8 DEF Grows, length

LEMMA StepGrows ==
  ASSUME IInv, [Next]_vars
  PROVE  /\ Grows /\ NothingMapped' /\ clock' \in 0 .. MaxClock /\ clock <= clock'
<1>1. /\ list \in Seq(Entry) /\ clock \in 0 .. MaxClock /\ mapper = {} /\ clock \in Nat
      /\ MaxClock \in Nat
  BY BoundAssumption DEF IInv, TypeOK, NothingMapped
<1>2. CASE list' = list /\ mapper' = mapper /\ clock' \in {clock, clock + 1} /\ clock' <= MaxClock
  BY <1>1, <1>2 DEF Grows, NothingMapped
<1>3. CASE Tick \/ UNCHANGED vars
  BY <1>1, <1>2, <1>3 DEF Tick, vars
<1>4. CASE \E t \in Threads : \E sockets \in Orders : Call(t, sockets)
  BY <1>1, <1>2, <1>4 DEF Call
<1>5. CASE \E t \in Threads : Update(t)
  <2>1. Grows /\ mapper' = mapper /\ clock' = clock
    BY <1>5, UpdateGrows DEF Update
  <2> QED BY <1>1, <2>1 DEF NothingMapped
<1>6. CASE \E sockets \in SUBSET Sockets : RemoveSockets(sockets)
  BY <1>1, <1>2, <1>6 DEF RemoveSockets, Removed, Erased
<1> QED BY <1>3, <1>4, <1>5, <1>6 DEF Next

\* What a thread is about to do was typed and timed when it was called.
LEMMA StepKeepsUpdates ==
  ASSUME IInv, [Next]_vars, clock <= clock'
  PROVE  /\ update' \in [Threads -> [sockets : Seq(Sockets), time : 0 .. MaxClock]]
         /\ CalledBefore'
<1>1. /\ update \in [Threads -> [sockets : Seq(Sockets), time : 0 .. MaxClock]]
      /\ clock \in 0 .. MaxClock /\ clock \in Nat /\ MaxClock \in Nat
      /\ \A t \in Threads : update[t].time <= clock
  BY BoundAssumption DEF IInv, TypeOK, CalledBefore
<1>2. /\ clock' \in Int /\ 0 <= clock'
  BY <1>1 DEF Next, vars, Tick, Call, Update, RemoveSockets
<1>3. CASE update' = update
  BY <1>1, <1>2, <1>3 DEF CalledBefore
<1>4. ASSUME NEW t \in Threads, NEW sockets \in Orders, Call(t, sockets)
      PROVE  /\ update' \in [Threads -> [sockets : Seq(Sockets), time : 0 .. MaxClock]]
             /\ CalledBefore'
  <2>1. sockets \in Seq(Sockets)
    BY BoundAssumption DEF Orders, SeqOf
  <2>2. /\ update' = [update EXCEPT ![t] = [sockets |-> sockets, time |-> clock]]
        /\ clock' = clock
    BY <1>4 DEF Call
  <2> QED BY <1>1, <2>1, <2>2 DEF CalledBefore
<1>5. ASSUME NEW t \in Threads, Update(t)
      PROVE  /\ update' \in [Threads -> [sockets : Seq(Sockets), time : 0 .. MaxClock]]
             /\ CalledBefore'
  <2>1. update' = [update EXCEPT ![t] = [sockets |-> <<>>, time |-> 0]] /\ clock' = clock
    BY <1>5 DEF Update, NoUpdate
  <2> QED BY <1>1, <2>1 DEF CalledBefore
<1> QED BY <1>3, <1>4, <1>5 DEF Next, vars, Tick, RemoveSockets

LEMMA NextKeeps == ASSUME IInv, [Next]_vars PROVE IInv'
<1>1. Grows /\ NothingMapped' /\ clock' \in 0 .. MaxClock /\ clock <= clock'
  BY StepGrows
<1>2. /\ list \in Seq(Entry) /\ clock \in Nat /\ MaxClock \in Nat /\ Len(list) \in Nat
      /\ clock' \in Nat
  BY <1>1, BoundAssumption DEF IInv, TypeOK
<1>3. list' \in Seq(Entry) /\ Len(list') \in Nat
  BY <1>1 DEF Grows
<1>4. \A i \in DOMAIN list' : list'[i].at \in Nat /\ list'[i].time \in Nat
  BY <1>3, Entries
<1>5. \A i \in DOMAIN list' : \/ i \in DOMAIN list /\ list'[i] = list[i]
                              \/ i \notin DOMAIN list /\ list'[i].at = clock /\ list'[i].time <= clock
  <2> SUFFICES ASSUME NEW i \in 1 .. Len(list'), i \notin 1 .. Len(list)
               PROVE  list'[i].at = clock /\ list'[i].time <= clock
    BY <1>1, <1>2, <1>3 DEF Grows
  <2>1. i \in Len(list) + 1 .. Len(list')
    BY <1>2, <1>3
  <2> QED BY <1>1, <2>1 DEF Grows
<1>6. StampedBefore'
  <2> SUFFICES ASSUME NEW i \in DOMAIN list'
               PROVE  list'[i].time <= list'[i].at /\ list'[i].at <= clock'
    BY DEF StampedBefore
  <2>1. \/ list'[i].time <= list'[i].at /\ list'[i].at <= clock
        \/ list'[i].at = clock /\ list'[i].time <= clock
    BY <1>5 DEF IInv, StampedBefore
  <2> QED BY <1>1, <1>2, <1>4, <2>1
<1>7. InOrderPutIn'
  <2> SUFFICES ASSUME NEW i \in DOMAIN list', NEW j \in DOMAIN list', i <= j
               PROVE  list'[i].at <= list'[j].at
    BY DEF InOrderPutIn
  <2>1. CASE j \in DOMAIN list
    <3>1. i \in DOMAIN list
      BY <1>2, <1>3, <2>1
    <3> QED BY <1>5, <2>1, <3>1 DEF IInv, InOrderPutIn
  <2>2. CASE j \notin DOMAIN list
    <3>1. list'[j].at = clock
      BY <1>5, <2>2
    <3>2. list'[i].at <= clock
      BY <1>2, <1>5 DEF IInv, StampedBefore
    <3> QED BY <3>1, <3>2
  <2> QED BY <2>1, <2>2
<1>8. \A i \in DOMAIN list' : list'[i].time <= clock'
  BY <1>1, <1>2, <1>4, <1>6 DEF StampedBefore
<1>9. TypeOK'
  BY <1>1, <1>3, <1>8, StepKeepsUpdates DEF TypeOK, NothingMapped
<1> QED BY <1>1, <1>6, <1>7, <1>9, StepKeepsUpdates DEF IInv

\* The invariant holds in every run.
THEOREM Invariance == Spec => []IInv
BY InitCorrect, NextKeeps, PTL DEF Spec

\* The list and what is about to be put in it have their types, and no entry is
\* stamped with a time that has not come yet.
THEOREM TypeCorrect == Spec => []TypeOK
<1>1. IInv => TypeOK
  BY DEF IInv
<1> QED BY <1>1, Invariance, PTL

(***************************************************************************)
(* Breaking off at the first young entry.                                   *)
(***************************************************************************)
\* All in front of an entry were put in before it, and stamped earlier still.
LEMMA OldOnesInFront == ASSUME IInv PROVE SelectedInTime
<1> SUFFICES ASSUME NEW now \in 0 .. clock, NEW i \in DOMAIN list,
                    now - list[i].at >= Timeout
             PROVE  list[i].socket \in Selected(now)
  BY DEF SelectedInTime
<1>1. list \in Seq(Entry) /\ now \in Int /\ Timeout \in Int
  BY BoundAssumption DEF IInv, TypeOK
<1>2. \A j \in DOMAIN list : list[j].at \in Int /\ list[j].time \in Int
  BY <1>1, Entries
<1>3. ASSUME NEW k \in 1 .. i PROVE ~ Young(list[k], now)
  <2>1. k \in DOMAIN list /\ k <= i
    BY <1>1
  <2>2. list[k].time <= list[k].at /\ list[k].at <= list[i].at
    BY <2>1 DEF IInv, StampedBefore, InOrderPutIn
  <2>3. list[k].at \in Int /\ list[k].time \in Int /\ list[i].at \in Int
    BY <1>2, <2>1
  <2> QED BY <1>1, <2>2, <2>3 DEF Young
<1> QED BY <1>3 DEF Selected

\* Although threads read the clock before the lock, breaking off at the first young
\* entry passes over a socket for no longer than the timeout.
THEOREM NonePassedOver == Spec => []SelectedInTime
<1>1. IInv => SelectedInTime
  BY OldOnesInFront
<1> QED BY <1>1, Invariance, PTL

(***************************************************************************)
(* What the health check gets, and ServerLearnProtocol takes from here: its *)
(* sets stamped and expired only grow. This is what the code does, not what *)
(* it is meant to do: remove, and insert for a socket that is stamped       *)
(* again, should take the entry of the socket away (OrderedHashSet.hpp:58,  *)
(* MostRecentTimestamps.hpp:102 and 108).                                   *)
(***************************************************************************)
Stamped == {list[i].socket : i \in DOMAIN list}

\* Whatever is called, also remove, a socket that was stamped stays so.
LEMMA StampsStay == ASSUME IInv, [Next]_vars PROVE Stamped \subseteq Stamped'
<1>1. Grows /\ list \in Seq(Entry)
  BY StepGrows DEF IInv, TypeOK
<1>2. \A i \in DOMAIN list : i \in DOMAIN list' /\ list'[i] = list[i]
  BY <1>1 DEF Grows
<1> QED BY <1>2 DEF Stamped

\* A socket that a search selects, a search that reads the clock later selects too,
\* although the socket was stamped again in between.
LEMMA ExpiredStays ==
  ASSUME IInv, [Next]_vars, NEW now \in Int, NEW later \in Int, now <= later
  PROVE  Selected(now) \subseteq Selected(later)'
<1>1. Grows /\ list \in Seq(Entry) /\ Timeout \in Int
  BY StepGrows, BoundAssumption DEF IInv, TypeOK
<1>2. \A i \in DOMAIN list : i \in DOMAIN list' /\ list'[i] = list[i]
  BY <1>1 DEF Grows
<1>3. \A i \in DOMAIN list : list[i].time \in Int
  BY <1>1, Entries
<1>4. ASSUME NEW i \in DOMAIN list, \A k \in 1 .. i : ~ Young(list[k], now)
      PROVE  \A k \in 1 .. i : ~ Young(list'[k], later)
  <2> SUFFICES ASSUME NEW k \in 1 .. i PROVE ~ Young(list'[k], later)
    OBVIOUS
  <2>1. k \in DOMAIN list
    BY <1>1
  <2>2. ~ (now - list[k].time < Timeout)
    BY <1>4 DEF Young
  <2>3. list'[k] = list[k] /\ list[k].time \in Int
    BY <1>2, <1>3, <2>1
  <2>4. ~ (later - list[k].time < Timeout)
    BY <1>1, <2>2, <2>3
  <2> QED BY <2>3, <2>4 DEF Young
<1>5. \A i \in DOMAIN list : i \in DOMAIN list'
  BY <1>2
<1> QED BY <1>2, <1>4, <1>5 DEF Selected
=============================================================================
