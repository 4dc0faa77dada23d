------------------------ MODULE MostRecentTimestamps ------------------------
(***************************************************************************)
(* pc::deadliner::MostRecentTimestamps over pc::OrderedHashSet: a list of   *)
(* sockets with the second each was last read at, and a mapper from sockets *)
(* into the list. The default argument of updateFor and updateSingle reads  *)
(* the clock before either takes the lock.                                  *)
(***************************************************************************)
EXTENDS Integers, Sequences, SequencesExt

CONSTANTS
  Sockets,     \* the sockets the server registers
  Threads,     \* the threads that stamp sockets: the acceptor and the poll loop
  Timeout,     \* what getSocketsLessThanTimestamp is called with
  MaxClock,    \* bound: seconds that pass
  MaxEntries   \* bound: entries stamped and about to be stamped

ASSUME BoundAssumption == {Timeout, MaxClock, MaxEntries} \subseteq Nat

VARIABLES
  list,     \* OrderedHashSet::list
  mapper,   \* the keys of OrderedHashSet::mapper
  clock,    \* timer::seconds
  update    \* for each thread, the arguments of the update it is about to do

vars == <<list, mapper, clock, update>>

\* at is a ghost: the second the entry was inserted.
Entry == [socket : Sockets, time : 0 .. MaxClock, at : 0 .. MaxClock]
NoUpdate == [sockets |-> <<>>, time |-> 0]

Init ==
  /\ list = <<>>
  /\ mapper = {}
  /\ clock = 0
  /\ update = [t \in Threads |-> NoUpdate]

Tick == /\ clock < MaxClock
        /\ clock' = clock + 1
        /\ UNCHANGED <<list, mapper, update>>

Waiting == {t \in Threads : update[t].sockets # <<>>}

\* updateFor or updateSingle is called: its sockets, in the order they come, and
\* the time; updateFor returns at once when there are none.
Call(t, sockets) ==
  /\ t \notin Waiting /\ sockets # <<>>
  /\ Len(list) + Len(sockets) <= MaxEntries
  /\ update' = [update EXCEPT ![t] = [sockets |-> sockets, time |-> clock]]
  /\ UNCHANGED <<list, mapper, clock>>

(***************************************************************************)
(* OrderedHashSet                                                           *)
(***************************************************************************)
Without(keys, entries) == SelectSeq(entries, LAMBDA entry : entry.socket \notin keys)

\* What the mapper knows of the keys is erased from the list, and nothing else.
Erased(keys, entries) ==
  LET known == keys \cap mapper
  IN IF known = {} THEN entries ELSE Without(known, entries)

\* insert of different keys in turn: each is appended, and the entry the mapper
\* knows of it is erased; insert adds no key to the mapper.
Appended(keys, value) ==
  [i \in DOMAIN keys |-> [socket |-> keys[i], time |-> value, at |-> clock]]

InsertedInFront(entries, keys, value) ==
  Appended(keys, value) \o Erased(ToSet(keys), entries)
InsertedUntil(entries, keys, value) ==
  Erased(ToSet(keys), entries) \o Appended(keys, value + Timeout)
Inserted(entries, keys, value) ==
  Erased(ToSet(keys), entries) \o Appended(keys, value)

\* remove returns early for a key the mapper does not know.
Removed(keys) == Erased(keys, list)

(***************************************************************************)
(* The operations, under the lock.                                          *)
(***************************************************************************)
\* updateFor, updateSingle
Update(t) ==
  LET u == update[t]
  IN /\ t \in Waiting
     /\ list' = Inserted(list, u.sockets, u.time)
     /\ update' = [update EXCEPT ![t] = NoUpdate]
     /\ UNCHANGED <<mapper, clock>>

\* remove, removeSingle
RemoveSockets(sockets) ==
  /\ sockets # {}
  /\ list' = Removed(sockets)
  /\ mapper' = mapper \ sockets
  /\ UNCHANGED <<clock, update>>

\* getSocketsLessThanTimestamp, which reads now before it takes the lock: the
\* entries in front of the first young one.
Young(entry, now) == now - entry.time < Timeout

Selected(now) ==
  {list[i].socket : i \in {j \in DOMAIN list :
                             \A k \in 1 .. j : ~ Young(list[k], now)}}

Orders == {order \in SeqOf(Sockets, MaxEntries) : IsInjective(order)}

Next == \/ Tick
        \/ \E t \in Threads : (\E sockets \in Orders : Call(t, sockets)) \/ Update(t)
        \/ \E sockets \in SUBSET Sockets : RemoveSockets(sockets)

Spec == Init /\ [][Next]_vars

(***************************************************************************)
(* Properties.                                                              *)
(***************************************************************************)
\* No entry is stamped with a time that has not come yet.
TypeOK ==
  /\ list \in Seq(Entry) /\ \A i \in DOMAIN list : list[i].time <= clock
  /\ mapper \subseteq Sockets
  /\ clock \in 0 .. MaxClock
  /\ update \in [Threads -> [sockets : Seq(Sockets), time : 0 .. MaxClock]]

\* Although threads read the clock before the lock, so that times may stand in the
\* list out of order, and the search may read it long before it gets the lock,
\* breaking off at the first young entry passes over a socket for no longer than
\* Timeout after it was put in the list.
SelectedInTime ==
  \A now \in 0 .. clock : \A i \in DOMAIN list :
    now - list[i].at >= Timeout => list[i].socket \in Selected(now)
=============================================================================
