------------------------- MODULE ProtocolVec_proofs -------------------------
(***************************************************************************)
(* For any number of protocols, descriptors and connections: the balancer   *)
(* finds a least and a most loaded protocol, and keeps the protocols        *)
(* balanced while clients only come; what the fleet does to it is what      *)
(* Priority allows; every client is in exactly one place, it is polled and  *)
(* stays warned wherever it is moved, and the loads cover all clients.      *)
(***************************************************************************)
EXTENDS ProtocolVec, FiniteSetTheorems, WellFoundedInduction, TLAPS

(***************************************************************************)
(* The balancer on its own, for every number of protocols and every weight  *)
(* of a client.                                                             *)
(***************************************************************************)
\* As long as nobody closed a client, the index the acceptor holds stays a least one.
ChosenIsLeast ==
  ~ closed /\ chosen \in Indices => \A i \in Indices : sizes[chosen] <= sizes[i]

\* What the loop of SetMinMaxIdx has seen so far.
ScannedSoFar ==
  \A i \in Indices : i < scan => /\ sizes[minIdx] <= sizes[i]
                                 /\ sizes[i] <= sizes[maxIdx]

IInv == TypeOK /\ ScannedSoFar /\ ChosenIsLeast /\ Balanced

USE DEF Indices, LockFree

\* The constructor: all loads are zero, so index 0 is both least and most loaded.
LEMMA InitIInv == Init => IInv
<1> SUFFICES ASSUME Init PROVE IInv
  OBVIOUS
<1>1. Count \in Nat \ {0} /\ Weight \in Nat \ {0}
  BY CountAssumption, WeightAssumption
<1>2. TypeOK
  <2>1. /\ sizes = [i \in Indices |-> 0] /\ minIdx = 0 /\ maxIdx = 0
        /\ scan = Count /\ chosen = Count
    BY Zenon DEF Init
  <2>2. closed \in BOOLEAN
    BY Zenon DEF Init
  <2> QED BY <1>1, <2>1, <2>2 DEF TypeOK
<1>3. ScannedSoFar /\ Balanced
  BY <1>1 DEF Init, ScannedSoFar, Balanced
<1>4. ChosenIsLeast
  <2>1. chosen = Count
    BY Zenon DEF Init
  <2> QED BY <1>1, <2>1 DEF ChosenIsLeast
<1> QED BY <1>2, <1>3, <1>4 DEF IInv

\* Reading minIdx under the lock gives the acceptor a least loaded index.
LEMMA NextIndexKeeps == ASSUME IInv, NextIndex PROVE IInv'
<1>1. Count \in Nat \ {0} /\ Weight \in Nat \ {0}
  BY CountAssumption, WeightAssumption
<1>2. TypeOK'
  BY <1>1 DEF IInv, NextIndex, TypeOK
<1>3. ScannedSoFar' /\ Balanced'
  BY DEF IInv, NextIndex, ScannedSoFar, Balanced
<1>4. ChosenIsLeast'
  BY <1>1 DEF IInv, TypeOK, NextIndex, ScannedSoFar, ChosenIsLeast
<1> QED BY <1>2, <1>3, <1>4 DEF IInv

\* incPriority raises a least load, so the spread stays within one client.
LEMMA IncPriorityKeeps == ASSUME IInv, IncPriority PROVE IInv'
<1>1. /\ Count \in Nat \ {0} /\ Weight \in Nat \ {0}
      /\ sizes \in [Indices -> Nat] /\ chosen \in Indices
      /\ sizes' = [sizes EXCEPT ![chosen] = @ + Weight]
  BY CountAssumption, WeightAssumption DEF IInv, TypeOK, IncPriority, Increased
<1>2. TypeOK'
  BY <1>1 DEF IInv, IncPriority, TypeOK
<1>3. ScannedSoFar'
  BY <1>2 DEF IncPriority, ScannedSoFar, TypeOK
<1>4. ChosenIsLeast'
  BY <1>1 DEF IncPriority, ChosenIsLeast
<1>5. Balanced'
  <2> SUFFICES ASSUME ~ closed, NEW i \in Indices, NEW j \in Indices
               PROVE  sizes'[i] <= sizes'[j] + Weight
    BY <1>1 DEF IncPriority, Balanced
  <2>1. sizes[chosen] <= sizes[j] /\ sizes[i] <= sizes[j] + Weight
    BY <1>1 DEF IInv, ChosenIsLeast, Balanced
  <2>2. /\ sizes'[i] = IF i = chosen THEN sizes[i] + Weight ELSE sizes[i]
        /\ sizes'[j] = IF j = chosen THEN sizes[j] + Weight ELSE sizes[j]
        /\ {sizes[i], sizes[j], sizes[chosen]} \subseteq Nat
    BY <1>1
  <2> QED BY <1>1, <2>1, <2>2
<1> QED BY <1>2, <1>3, <1>4, <1>5 DEF IInv

\* So does incPriority for a client that is moved: it starts a scan, and others
\* were closed before, so that balance is no longer claimed.
LEMMA IncPriorityMovedKeeps ==
  ASSUME IInv, NEW index \in Indices, IncPriorityMoved(index) PROVE IInv'
<1>1. /\ Count \in Nat \ {0} /\ Weight \in Nat \ {0} /\ closed' = TRUE
      /\ sizes \in [Indices -> Nat]
      /\ sizes' = [sizes EXCEPT ![index] = @ + Weight]
  BY CountAssumption, WeightAssumption
     DEF IInv, TypeOK, IncPriorityMoved, Increased
<1>2. TypeOK'
  BY <1>1 DEF IInv, IncPriorityMoved, TypeOK
<1>3. ScannedSoFar'
  BY <1>2 DEF IncPriorityMoved, ScannedSoFar, TypeOK
<1>4. ChosenIsLeast' /\ Balanced'
  BY <1>1 DEF ChosenIsLeast, Balanced
<1> QED BY <1>2, <1>3, <1>4 DEF IInv

\* decPriority either refuses and changes nothing or starts a scan.
LEMMA DecPriorityKeeps ==
  ASSUME IInv, NEW index \in Indices, DecPriority(index) PROVE IInv'
<1>1. /\ Count \in Nat \ {0} /\ Weight \in Nat \ {0} /\ closed' = TRUE
      /\ sizes \in [Indices -> Nat]
  BY CountAssumption, WeightAssumption DEF IInv, TypeOK, DecPriority
<1>2. TypeOK'
  BY <1>1 DEF IInv, DecPriority, Decreased, ScanAfterDec, TypeOK
<1>3. ScannedSoFar'
  <2>1. CASE sizes[index] >= Weight
    BY <1>2, <2>1 DEF DecPriority, ScanAfterDec, ScannedSoFar, TypeOK
  <2>2. CASE ~ (sizes[index] >= Weight)
    BY <2>2 DEF IInv, DecPriority, Decreased, ScanAfterDec, ScannedSoFar
  <2> QED BY <2>1, <2>2
<1>4. ChosenIsLeast' /\ Balanced'
  BY <1>1 DEF ChosenIsLeast, Balanced
<1> QED BY <1>2, <1>3, <1>4 DEF IInv

\* One turn of SetMinMaxIdx keeps minIdx and maxIdx extreme among the scanned.
LEMMA ScanKeeps == ASSUME IInv, Scan PROVE IInv'
<1>1. /\ Count \in Nat \ {0} /\ scan \in Indices
      /\ sizes \in [Indices -> Nat] /\ sizes' = sizes
      /\ minIdx \in Indices /\ maxIdx \in Indices
      /\ scan' = scan + 1 /\ chosen' = chosen /\ closed' = closed
  BY CountAssumption DEF IInv, TypeOK, Scan
<1>2. TypeOK'
  BY <1>1 DEF IInv, Scan, TypeOK
<1>3. ScannedSoFar'
  <2> SUFFICES ASSUME NEW i \in Indices, i < scan + 1
               PROVE  sizes[minIdx'] <= sizes[i] /\ sizes[i] <= sizes[maxIdx']
    BY <1>1 DEF ScannedSoFar
  <2>1. i < scan \/ i = scan
    BY <1>1
  <2>2. i < scan => sizes[minIdx] <= sizes[i] /\ sizes[i] <= sizes[maxIdx]
    BY DEF IInv, ScannedSoFar
  <2>3. {sizes[i], sizes[scan], sizes[minIdx], sizes[maxIdx]} \subseteq Nat
    BY <1>1
  <2>4. sizes[minIdx'] <= sizes[minIdx] /\ sizes[minIdx'] <= sizes[scan]
    BY <1>1, <2>3 DEF Scan, BecomesMin
  <2>5. sizes[maxIdx] <= sizes[maxIdx'] /\ sizes[scan] <= sizes[maxIdx']
    BY <1>1, <2>3 DEF Scan, BecomesMax
  <2>6. sizes[minIdx'] \in Nat /\ sizes[maxIdx'] \in Nat
    BY <1>1, <1>2 DEF TypeOK
  <2> QED BY <2>1, <2>2, <2>3, <2>4, <2>5, <2>6
<1>4. ChosenIsLeast' /\ Balanced'
  BY <1>1 DEF IInv, ChosenIsLeast, Balanced
<1> QED BY <1>2, <1>3, <1>4 DEF IInv

\* No step of the balancer breaks the invariant.
LEMMA NextIInv == IInv /\ [Next]_vars => IInv'
<1> SUFFICES ASSUME IInv, [Next]_vars PROVE IInv'
  OBVIOUS
<1>1. CASE NextIndex
  BY <1>1, NextIndexKeeps
<1>2. CASE IncPriority
  BY <1>2, IncPriorityKeeps
<1>3. CASE \E i \in Indices : DecPriority(i)
  BY <1>3, DecPriorityKeeps
<1>4. CASE Scan
  BY <1>4, ScanKeeps
<1>5. CASE \E i \in Indices : IncPriorityMoved(i)
  BY <1>5, IncPriorityMovedKeeps
<1>6. CASE UNCHANGED vars
  BY <1>6 DEF vars, IInv, TypeOK, ScannedSoFar, ChosenIsLeast, Balanced
<1> QED BY <1>1, <1>2, <1>3, <1>4, <1>5, <1>6 DEF Next

\* The strengthened invariant, which says what a running scan has seen, holds of
\* the balancer.
THEOREM Invariance == Spec => []IInv
  BY InitIInv, NextIInv, PTL DEF Spec

\* priority's members hold values of their types, minIdx and maxIdx among them.
THEOREM TypeCorrect == Spec => []TypeOK
<1>1. IInv => TypeOK
  BY DEF IInv
<1> QED BY Invariance, <1>1, PTL

\* Whenever priority's lock is free, minIdx and maxIdx are a least and a most
\* loaded protocol, however many protocols there are.
THEOREM ExtremesFound == Spec => []IndicesExtreme
<1>1. IInv => IndicesExtreme
  BY CountAssumption DEF IInv, ScannedSoFar, IndicesExtreme
<1> QED BY Invariance, <1>1, PTL

\* Counting each client at *balancer keeps all loads within one client of each
\* other, as long as no client is closed.
THEOREM StaysBalanced == Spec => []Balanced
<1>1. IInv => Balanced
  BY DEF IInv
<1> QED BY Invariance, <1>1, PTL

HIDE DEF Indices, LockFree

(***************************************************************************)
(* The inductive invariant of the fleet.                                    *)
(***************************************************************************)
PollState ==
  [pc : {"wait", "loop", "close", "closing", "callback", "max", "min", "empty",
         "oldest", "remove", "dec", "add", "inc", "work", "write"},
   hup : SUBSET Fds, in : SUBSET Fds, terminate : SUBSET Fds,
   writing : SUBSET Sockets, count : 0 .. Cardinality(Fds), prev : Sockets,
   maxIdx : Indices, minIdx : Indices, moved : Sockets, flag : BOOLEAN]

\* A thread that closes clients or calls downCallback has clients to count.
Counting == {"closing", "callback", "max", "min", "empty", "oldest", "remove",
             "dec", "add", "inc"}

Thread == {state \in PollState : state.pc \in Counting => state.count # 0}

KernelType == /\ fdOwner \in [Fds -> Conns \cup {None}]
              /\ conn \in [Conns -> {"new", "open", "stuck", "over", "gone"}]

ClientsType == /\ DOMAIN clientInfos = Indices
               /\ \A p \in Indices : /\ Registered(p) \subseteq Sockets
                                     /\ clientInfos[p] \in [Registered(p) -> BOOLEAN]

SetsType == /\ ePollIn \in [Indices -> SUBSET Fds]
            /\ stamped \in [Indices -> SUBSET Sockets]
            /\ packetsToWrite \in [Indices -> SUBSET Sockets]

ThreadsType == poll \in [Indices -> Thread]

OthersType == /\ callbackMutex \in 0 .. Count
              /\ health \in [at : 0 .. Count, selected : SUBSET Sockets]
              /\ main \in [pc : {"accept", "next", "insert", "inc"}, child : Sockets]
              /\ crashed \in BOOLEAN

(***************************************************************************)
(* Descriptors and counts.                                                  *)
(***************************************************************************)
\* begin() is one of the clients: a set of numbers that is not empty has a smallest.
LEMMA SmallestExists ==
  ASSUME NEW T \in SUBSET Nat, T # {}
  PROVE  \E x \in T : \A y \in T : x <= y
<1>1. PICK x \in T : \A y \in T : ~ (<<y, x>> \in OpToRel(<, Nat))
  BY NatLessThanWellFounded, WFMin
<1>2. \A y \in T : ~ (y < x)
  BY <1>1 DEF OpToRel
<1> QED BY <1>2

LEMMA OldestIsRegistered ==
  ASSUME ClientsType, NEW p \in Indices, Registered(p) # {}
  PROVE  OldestIn(p) \in Registered(p) /\ OldestIn(p) \in Sockets
<1>1. Registered(p) \in SUBSET Nat
  BY FdsAssumption, NoSocketAssumption DEF ClientsType, Sockets
<1>2. \E x \in Registered(p) : \A y \in Registered(p) : x <= y
  BY <1>1, SmallestExists
<1> QED BY <1>2 DEF OldestIn, ClientsType

\* A thread closes as many clients as it knows, and no more than there are descriptors.
LEMMA CountOfKnown ==
  ASSUME NEW known \in SUBSET Fds
  PROVE  /\ Cardinality(known) \in 0 .. Cardinality(Fds)
         /\ known # {} => Cardinality(known) # 0
<1>1. IsFiniteSet(known) /\ Cardinality(known) <= Cardinality(Fds)
  BY FdsAssumption, FS_Subset
<1>2. Cardinality(known) \in Nat /\ Cardinality(Fds) \in Nat
  BY <1>1, FdsAssumption, FS_CardinalityType
<1>3. known # {} => Cardinality(known) # 0
  BY <1>1, FS_EmptySet
<1> QED BY <1>1, <1>2, <1>3

(***************************************************************************)
(* What a thread does to its program counter and locals.                    *)
(***************************************************************************)
\* Thread p alone moves, from one program counter to another.
Goes(p, from, to) ==
  /\ poll' \in [Indices -> Thread]
  /\ \A q \in Indices \ {p} : poll'[q] = poll[q]
  /\ poll[p].pc \in from /\ poll'[p].pc \in to

\* A thread that changes its own state leaves the others alone.
LEMMA ThreadGoes ==
  ASSUME ThreadsType, NEW p \in Indices, NEW state \in Thread,
         poll' = [poll EXCEPT ![p] = state]
  PROVE  /\ poll' \in [Indices -> Thread]
         /\ \A q \in Indices \ {p} : poll'[q] = poll[q]
         /\ poll'[p] = state
  BY DEF ThreadsType

\* An idle thread, and one that has done with downCallback.
LEMMA IdleIsThread ==
  /\ IdlePoll \in Thread
  /\ \A writing \in SUBSET Sockets, pc \in {"work", "write"} :
       [IdlePoll EXCEPT !.pc = pc, !.writing = writing] \in Thread
<1>1. 0 \in Indices /\ 0 \in 0 .. Cardinality(Fds)
  <2>1. Cardinality(Fds) \in Nat
    BY FdsAssumption, FS_CardinalityType
  <2> QED BY <2>1, CountAssumption DEF Indices
<1>2. IdlePoll \in PollState
  BY <1>1 DEF IdlePoll, PollState, Sockets
<1>3. IdlePoll.pc = "wait"
  BY DEF IdlePoll
<1> HIDE DEF IdlePoll
<1> QED BY <1>2, <1>3 DEF Thread, PollState, Counting

\* The data path of a thread: waiting, looking, and choosing what to close.
LEMMA PollWaitGoes ==
  ASSUME ThreadsType, SetsType, NEW p \in Indices, PollWait(p)
  PROVE  Goes(p, {"wait"}, {"loop"})
<1>1. ePollIn[p] \in SUBSET Fds
  BY DEF SetsType
<1>2. PICK readable \in SUBSET Fds, hup \in SUBSET Fds :
        poll' = [poll EXCEPT ![p].pc = "loop", ![p].in = readable, ![p].hup = hup]
  BY <1>1 DEF PollWait
<1> DEFINE state == [poll[p] EXCEPT !.pc = "loop", !.in = readable, !.hup = hup]
<1>3. state \in Thread /\ state.pc = "loop"
  <2>1. poll[p] \in Thread
    BY DEF ThreadsType
  <2> QED BY <2>1 DEF Thread, PollState, Counting
<1>4. poll' = [poll EXCEPT ![p] = state]
  BY <1>2 DEF ThreadsType
<1>5. poll[p].pc = "wait"
  BY DEF PollWait
<1> HIDE DEF state
<1> QED BY <1>3, <1>4, <1>5, ThreadGoes DEF Goes

\* What a turn of OnReadPoll comes to: some of the clients that have input are read
\* from, of which some have their flag reset, some make a request and some get a reply
\* of the set-up; some are shut down, and some are to be terminated.
LoopDoes(p, read, reset, asked, greeted, failed, ended) ==
  LET terminate == poll[p].hup \cup (poll[p].in \ Registered(p)) \cup ended
  IN /\ clientInfos' = [clientInfos EXCEPT ![p] =
                          [f \in Registered(p) |-> @[f] /\ f \notin reset]]
     /\ stamped' = [stamped EXCEPT ![p] = @ \cup read]
     /\ packetsToWrite' = [packetsToWrite EXCEPT ![p] = @ \cup greeted]
     /\ conn' = ShutDown(failed)
     /\ poll' = [poll EXCEPT ![p].hup = {}, ![p].in = {}, ![p].terminate = terminate,
                             ![p].writing = asked,
                             ![p].pc = IF terminate = {} THEN "work" ELSE "close"]

LEMMA PollLoopMeans ==
  ASSUME NEW p \in Indices, PollLoop(p)
  PROVE  \E read, reset, asked, greeted, failed, ended
             \in SUBSET (poll[p].in \cap Registered(p)) :
           LoopDoes(p, read, reset, asked, greeted, failed, ended)
<1> DEFINE known == (poll[p].in \ poll[p].hup) \cap Registered(p)
<1>1. PICK outcome \in [known -> Outcomes] :
        LET having(kinds) == {f \in known : outcome[f] \in kinds}
        IN LoopDoes(p, having({"Send", "Blank", "Setup"}), having({"Send", "Blank"}),
                    having({"Send"}), having({"Setup"}), having({"fails"}),
                    having({"crossed", "fails"}))
  BY Zenon DEF PollLoop, LoopDoes
<1> DEFINE having(kinds) == {f \in known : outcome[f] \in kinds}
<1>2. \A kinds : having(kinds) \in SUBSET (poll[p].in \cap Registered(p))
  OBVIOUS
<1> QED BY <1>1, <1>2, Zenon

\* A client whose flag is reset is not among those to terminate.
LEMMA ResetStays ==
  ASSUME ThreadsType, NEW p \in Indices, PollLoop(p)
  PROVE  \E reset \in SUBSET (poll[p].in \ poll'[p].terminate) :
           clientInfos' = [clientInfos EXCEPT ![p] =
                             [f \in Registered(p) |-> @[f] /\ f \notin reset]]
<1> DEFINE known == (poll[p].in \ poll[p].hup) \cap Registered(p)
<1>1. PICK outcome \in [known -> Outcomes] :
        LET having(kinds) == {f \in known : outcome[f] \in kinds}
        IN LoopDoes(p, having({"Send", "Blank", "Setup"}), having({"Send", "Blank"}),
                    having({"Send"}), having({"Setup"}), having({"fails"}),
                    having({"crossed", "fails"}))
  BY Zenon DEF PollLoop, LoopDoes
<1> DEFINE having(kinds) == {f \in known : outcome[f] \in kinds}
<1>2. poll'[p].terminate
        = poll[p].hup \cup (poll[p].in \ Registered(p)) \cup having({"crossed", "fails"})
  <2> DEFINE ended == having({"crossed", "fails"})
             asked == having({"Send"})
             terminate == poll[p].hup \cup (poll[p].in \ Registered(p)) \cup ended
             pc == IF terminate = {} THEN "work" ELSE "close"
  <2>1. poll' = [poll EXCEPT ![p].hup = {}, ![p].in = {}, ![p].terminate = terminate,
                             ![p].writing = asked, ![p].pc = pc]
    BY <1>1 DEF LoopDoes
  <2>2. p \in DOMAIN poll /\ "terminate" \in DOMAIN poll[p]
    BY DEF ThreadsType, Thread, PollState
  <2> HIDE DEF terminate, asked, pc
  <2>3. poll'[p].terminate = terminate
    BY <2>1, <2>2
  <2> QED BY <2>3 DEF terminate
<1>3. having({"Send", "Blank"}) \in SUBSET (poll[p].in \ poll'[p].terminate)
  BY <1>2
<1>4. clientInfos' = [clientInfos EXCEPT ![p] =
                        [f \in Registered(p) |-> @[f] /\ f \notin having({"Send", "Blank"})]]
  BY <1>1 DEF LoopDoes
<1> HIDE DEF having
<1> QED BY <1>3, <1>4

LEMMA PollLoopGoes ==
  ASSUME ThreadsType, NEW p \in Indices, PollLoop(p)
  PROVE  Goes(p, {"loop"}, {"work", "close"})
<1>1. poll[p] \in Thread
  BY DEF ThreadsType
<1>2. PICK read, reset, asked, greeted, failed, ended
           \in SUBSET (poll[p].in \cap Registered(p)) :
        LoopDoes(p, read, reset, asked, greeted, failed, ended)
  BY PollLoopMeans
<1> DEFINE terminate == poll[p].hup \cup (poll[p].in \ Registered(p)) \cup ended
           pc == IF terminate = {} THEN "work" ELSE "close"
           state == [poll[p] EXCEPT !.hup = {}, !.in = {}, !.terminate = terminate,
                                    !.writing = asked, !.pc = pc]
<1>3. state \in Thread /\ state.pc = pc /\ pc \in {"work", "close"}
  <2>1. terminate \in SUBSET Fds /\ asked \in SUBSET Sockets /\ pc \in {"work", "close"}
    BY <1>1 DEF Thread, PollState, Sockets
  <2> HIDE DEF terminate, pc
  <2> QED BY <1>1, <2>1 DEF Thread, PollState, Counting
<1>4. poll' = [poll EXCEPT ![p] = state]
  BY <1>2 DEF ThreadsType, LoopDoes
<1>5. poll[p].pc = "loop"
  BY DEF PollLoop
<1> HIDE DEF state, pc
<1> QED BY <1>3, <1>4, <1>5, ThreadGoes DEF Goes

LEMMA PollCloseGoes ==
  ASSUME ThreadsType, NEW p \in Indices, PollClose(p)
  PROVE  /\ Goes(p, {"close"}, {"work", "closing"})
         /\ poll'[p].terminate \subseteq Registered(p)
<1> DEFINE known == poll[p].terminate \cap Registered(p)
           pc == IF known = {} THEN "work" ELSE "closing"
           state == [poll[p] EXCEPT !.pc = pc, !.terminate = known,
                                    !.count = Cardinality(known)]
<1>1. poll[p] \in Thread
  BY DEF ThreadsType
<1>2. known \in SUBSET Fds
  BY <1>1 DEF Thread, PollState
<1>3. Cardinality(known) \in 0 .. Cardinality(Fds) /\ (known # {} => Cardinality(known) # 0)
  BY <1>2, CountOfKnown
<1>4. state \in Thread /\ state.pc = pc /\ state.terminate = known
  <2>1. pc \in {"work", "closing"} /\ (pc = "closing" => Cardinality(known) # 0)
    BY <1>3
  <2> HIDE DEF known, pc
  <2>2. poll[p] \in PollState
    BY <1>1 DEF Thread
  <2>3. state \in PollState /\ state.pc = pc /\ state.count = Cardinality(known)
    BY <1>2, <1>3, <2>1, <2>2 DEF PollState
  <2>4. pc \in Counting => state.count # 0
    BY <2>1, <2>3 DEF Counting
  <2>5. state.terminate = known
    BY <2>2 DEF PollState
  <2> QED BY <2>3, <2>4, <2>5 DEF Thread
<1>5. poll' = [poll EXCEPT ![p] = state] /\ poll[p].pc = "close"
  BY DEF PollClose, ThreadsType
<1>6. pc \in {"work", "closing"} /\ known \subseteq Registered(p)
  OBVIOUS
<1> HIDE DEF state, pc
<1> QED BY <1>4, <1>5, <1>6, ThreadGoes DEF Goes

LEMMA CloseOneGoes ==
  ASSUME ThreadsType, NEW p \in Indices, NEW f \in Fds, CloseOne(p, f)
  PROVE  /\ Goes(p, {"closing"}, {"closing", "callback"})
         /\ poll'[p].terminate = poll[p].terminate \ {f}
<1> DEFINE pc == IF poll[p].terminate = {f} THEN "callback" ELSE "closing"
           state == [poll[p] EXCEPT !.terminate = @ \ {f}, !.pc = pc]
<1>1. poll[p] \in Thread /\ poll[p].pc = "closing"
  BY DEF ThreadsType, CloseOne
<1>2. state \in Thread /\ state.pc = pc /\ state.terminate = poll[p].terminate \ {f}
  <2> HIDE DEF pc
  <2>1. pc \in {"closing", "callback"}
    BY DEF pc
  <2> QED BY <1>1, <2>1 DEF Thread, PollState, Counting
<1>3. poll' = [poll EXCEPT ![p] = state]
  BY <1>1 DEF CloseOne, ThreadsType
<1>4. pc \in {"closing", "callback"}
  OBVIOUS
<1> HIDE DEF state, pc
<1> QED BY <1>1, <1>2, <1>3, <1>4, ThreadGoes DEF Goes

\* GoesOn: another program counter and nothing else.
LEMMA PcGoes ==
  ASSUME ThreadsType, NEW p \in Indices, NEW to \in Counting,
         poll[p].pc \in Counting, poll' = [poll EXCEPT ![p].pc = to]
  PROVE  /\ Goes(p, {poll[p].pc}, {to})
         /\ poll'[p].moved = poll[p].moved /\ poll'[p].flag = poll[p].flag
<1> DEFINE state == [poll[p] EXCEPT !.pc = to]
<1>1. poll[p] \in Thread
  BY DEF ThreadsType
<1>2. state \in Thread /\ state.pc = to /\ state.moved = poll[p].moved
      /\ state.flag = poll[p].flag
  BY <1>1 DEF Thread, PollState, Counting
<1>3. poll' = [poll EXCEPT ![p] = state]
  BY DEF ThreadsType
<1> HIDE DEF state
<1> QED BY <1>2, <1>3, ThreadGoes DEF Goes

\* A break gives the mutex back and goes on to execute.
LEMMA BreakGoes ==
  ASSUME ThreadsType, NEW p \in Indices, Break(p)
  PROVE  Goes(p, {poll[p].pc}, {"work"}) /\ callbackMutex' \in 0 .. Count
<1> DEFINE state == [IdlePoll EXCEPT !.pc = "work", !.writing = poll[p].writing]
<1>1. poll[p].writing \in SUBSET Sockets
  BY DEF ThreadsType, Thread, PollState
<1>2. state \in Thread
  BY <1>1, IdleIsThread
<1>3. state.pc = "work"
  BY DEF IdlePoll
<1>4. poll' = [poll EXCEPT ![p] = state] /\ callbackMutex' = Count
  BY DEF Break
<1> HIDE DEF state
<1>5. Goes(p, {poll[p].pc}, {"work"})
  BY <1>2, <1>3, <1>4, ThreadGoes DEF Goes
<1> QED BY <1>4, <1>5, CountAssumption

\* The steps of downCallback that touch no client, up to the choice of one.
Choosing(p) == CallbackEnter(p) \/ ReadMaxIndex(p) \/ ReadMinIndex(p)
                 \/ CheckEmpty(p) \/ LookAtOldest(p)

LEMMA ChoosingGoes ==
  ASSUME ThreadsType, OthersType, maxIdx \in Indices, minIdx \in Indices,
         NEW p \in Indices, Choosing(p)
  PROVE  /\ Goes(p, {"callback", "max", "min", "empty", "oldest"},
                    {"max", "min", "empty", "oldest", "remove", "work"})
         /\ callbackMutex' \in 0 .. Count
<1>1. poll[p] \in Thread /\ callbackMutex \in 0 .. Count
  BY DEF ThreadsType, OthersType
<1>2. p \in 0 .. Count
  BY CountAssumption DEF Indices
<1>3. CASE CallbackEnter(p)
  <2>1. /\ poll[p].pc = "callback" /\ poll' = [poll EXCEPT ![p].pc = "max"]
        /\ callbackMutex' = p
    BY <1>3 DEF CallbackEnter
  <2>2. Goes(p, {poll[p].pc}, {"max"})
    BY <2>1, PcGoes DEF Counting
  <2> QED BY <1>2, <2>1, <2>2 DEF Goes
<1>4. CASE ReadMaxIndex(p)
  <2> DEFINE state == [poll[p] EXCEPT !.pc = "min", !.maxIdx = maxIdx]
  <2>1. state \in Thread /\ state.pc = "min"
    BY <1>1, <1>4 DEF ReadMaxIndex, Thread, PollState, Counting
  <2>2. /\ poll' = [poll EXCEPT ![p] = state] /\ poll[p].pc = "max"
        /\ callbackMutex' = callbackMutex
    BY <1>4 DEF ReadMaxIndex, ThreadsType
  <2> HIDE DEF state
  <2> QED BY <1>1, <2>1, <2>2, ThreadGoes DEF Goes
<1>5. CASE ReadMinIndex(p)
  <2>1. poll[p].pc = "min"
    BY <1>5 DEF ReadMinIndex
  <2>2. CASE Break(p)
    BY <2>1, <2>2, BreakGoes DEF Goes
  <2>3. CASE ~ Break(p)
    <3> DEFINE state == [poll[p] EXCEPT !.pc = "empty", !.minIdx = minIdx]
    <3>1. state \in Thread /\ state.pc = "empty"
      BY <1>1, <2>1 DEF Thread, PollState, Counting
    <3>2. poll' = [poll EXCEPT ![p] = state] /\ callbackMutex' = callbackMutex
      BY <1>5, <2>3 DEF ReadMinIndex, ThreadsType
    <3> HIDE DEF state
    <3> QED BY <1>1, <2>1, <3>1, <3>2, ThreadGoes DEF Goes
  <2> QED BY <2>2, <2>3
<1>6. CASE CheckEmpty(p) \/ LookAtOldest(p)
  <2>1. PICK to \in {"oldest", "remove"} : Break(p) \/ GoesOn(p, to)
    BY <1>6 DEF CheckEmpty, LookAtOldest
  <2>2. poll[p].pc \in {"empty", "oldest"}
    BY <1>6 DEF CheckEmpty, LookAtOldest
  <2>3. CASE Break(p)
    BY <2>2, <2>3, BreakGoes DEF Goes
  <2>4. CASE GoesOn(p, to)
    <3>1. Goes(p, {poll[p].pc}, {to})
      BY <2>2, <2>4, PcGoes DEF GoesOn, Counting
    <3> QED BY <1>1, <2>2, <2>4, <3>1 DEF Goes, GoesOn
  <2> QED BY <2>1, <2>3, <2>4
<1> QED BY <1>3, <1>4, <1>5, <1>6 DEF Choosing

\* RemoveOldestClientAndReturn: the thread has the client in its hands, or one
\* whose socket is -1.
LEMMA RemoveOldestGoes ==
  ASSUME ThreadsType, ClientsType, NEW p \in Indices, RemoveOldest(p)
  PROVE  LET from == poll[p].maxIdx
             found == Registered(from) # {}
         IN /\ Goes(p, {"remove"}, {"dec"})
            /\ from \in Indices
            /\ poll'[p].moved = IF found THEN OldestIn(from) ELSE NoSocket
            /\ poll'[p].flag = (found /\ clientInfos[from][OldestIn(from)])
<1> DEFINE from == poll[p].maxIdx
           found == Registered(from) # {}
           f == IF found THEN OldestIn(from) ELSE NoSocket
           flag == found /\ clientInfos[from][f]
           state == [poll[p] EXCEPT !.pc = "dec", !.prev = f, !.moved = f, !.flag = flag]
<1>1. poll[p] \in Thread /\ poll[p].pc = "remove" /\ from \in Indices
  BY DEF ThreadsType, Thread, PollState, RemoveOldest
<1>2. f \in Sockets
  BY <1>1, OldestIsRegistered DEF Sockets
<1>3. flag \in BOOLEAN
  OBVIOUS
<1>4. /\ state \in Thread /\ state.pc = "dec" /\ state.moved = f /\ state.flag = flag
  <2> HIDE DEF f, flag
  <2> QED BY <1>1, <1>2, <1>3 DEF Thread, PollState, Counting
<1>5. poll' = [poll EXCEPT ![p] = state]
  BY DEF RemoveOldest, ThreadsType
<1> HIDE DEF state
<1>6. Goes(p, {"remove"}, {"dec"}) /\ poll'[p] = state
  BY <1>1, <1>4, <1>5, ThreadGoes DEF Goes
<1> QED BY <1>1, <1>4, <1>6

\* The end of a turn: the next one, or a break.
LEMMA CountMovedGoes ==
  ASSUME ThreadsType, NEW p \in Indices, CountMoved(p)
  PROVE  Goes(p, {"inc"}, {"callback", "work"}) /\ callbackMutex' \in 0 .. Count
<1>1. poll[p] \in Thread /\ poll[p].pc = "inc" /\ NextTurn(p)
  BY DEF ThreadsType, CountMoved, StampMoved
<1>2. CASE poll[p].count = 1
  BY <1>1, <1>2, BreakGoes DEF NextTurn, Goes
<1>3. CASE poll[p].count # 1
  <2> DEFINE state == [poll[p] EXCEPT !.pc = "callback", !.count = @ - 1,
                                      !.moved = NoSocket, !.flag = FALSE]
  <2>1. poll[p].count - 1 \in 0 .. Cardinality(Fds) /\ poll[p].count - 1 # 0
    <3>1. /\ Cardinality(Fds) \in Nat /\ poll[p].count \in 0 .. Cardinality(Fds)
          /\ poll[p].count # 0
      BY <1>1, FdsAssumption, FS_CardinalityType DEF Thread, PollState, Counting
    <3> QED BY <1>3, <3>1
  <2>2. state \in Thread /\ state.pc = "callback"
    BY <1>1, <2>1 DEF Thread, PollState, Counting, Sockets
  <2>3. poll' = [poll EXCEPT ![p] = state] /\ callbackMutex' = Count
    BY <1>1, <1>3 DEF NextTurn, ThreadsType
  <2> HIDE DEF state
  <2>4. Goes(p, {"inc"}, {"callback", "work"})
    BY <1>1, <2>2, <2>3, ThreadGoes DEF Goes
  <2> QED BY <2>3, <2>4, CountAssumption
<1> QED BY <1>2, <1>3

\* Executing and writing.
LEMMA WorkGoes ==
  ASSUME ThreadsType, SetsType, NEW p \in Indices,
         ExecuteAndGather(p) \/ WriteReturns(p) \/ WriteFails(p)
  PROVE  Goes(p, {"work", "write"}, {"wait", "write"})
<1>1. poll[p] \in Thread /\ packetsToWrite[p] \in SUBSET Sockets
  BY DEF ThreadsType, SetsType
<1> DEFINE requests == IF Registered(p) = {} THEN {} ELSE poll[p].writing
           all == requests \cup packetsToWrite[p]
           batch == [IdlePoll EXCEPT !.pc = "write", !.writing = all]
<1>2. all \in SUBSET Sockets
  BY <1>1 DEF Thread, PollState
<1>3. batch \in Thread /\ IdlePoll \in Thread
  BY <1>2, IdleIsThread
<1>4. batch.pc = "write" /\ IdlePoll.pc = "wait"
  BY DEF IdlePoll
<1>5. \E state \in {batch, IdlePoll} : poll' = [poll EXCEPT ![p] = state]
  <2>1. CASE ExecuteAndGather(p)
    BY <2>1 DEF ExecuteAndGather
  <2>2. CASE WriteReturns(p) \/ WriteFails(p)
    BY <2>2 DEF WriteReturns, WriteFails
  <2> QED BY <2>1, <2>2
<1>6. poll[p].pc \in {"work", "write"}
  BY DEF ExecuteAndGather, WriteReturns, WriteFails
<1> HIDE DEF batch
<1> QED BY <1>3, <1>4, <1>5, <1>6, ThreadGoes DEF Goes

(***************************************************************************)
(* The inductive invariant: where each descriptor is.                       *)
(***************************************************************************)
WithAcceptor(f) == main.pc \in {"next", "insert"} /\ main.child = f
OnTheWay(p, f) == InTransit(p) /\ poll[p].moved = f

\* An open descriptor is somewhere, ...
Placed(f) == \/ WithAcceptor(f)
             \/ \E p \in Indices : f \in Registered(p) \/ OnTheWay(p, f)

\* ... and nowhere twice.
PlacedOnce(f) ==
  /\ WithAcceptor(f) => \A p \in Indices : f \notin Registered(p) /\ ~ OnTheWay(p, f)
  /\ \A p, q \in Indices : f \in Registered(p) => ~ OnTheWay(q, f)
  /\ \A p, q \in Indices : f \in Registered(p) /\ f \in Registered(q) => p = q
  /\ \A p, q \in Indices : OnTheWay(p, f) /\ OnTheWay(q, f) => p = q

InOnePlace == \A f \in Fds : (fdOwner[f] # None <=> Placed(f)) /\ PlacedOnce(f)

\* ClientInfos::close holds its lock: what it is about to close is still there.
TerminateKnown ==
  \A p \in Indices : poll[p].pc = "closing" => poll[p].terminate \subseteq Registered(p)

\* The acceptor remembers the index that NextIndex gave it.
ChosenKnown == main.pc \in {"insert", "inc"} => chosen \in Indices

FleetInv == /\ KernelType /\ ClientsType /\ SetsType /\ ThreadsType /\ OthersType
            /\ InOnePlace /\ TerminateKnown /\ ChosenKnown /\ ClientsPolled

(***************************************************************************)
(* Steps that leave every client where it is.                               *)
(***************************************************************************)
\* Nobody is moved when no thread starts, goes on or stops moving one.
LEMMA PlacesStay ==
  ASSUME InOnePlace, fdOwner' = fdOwner, main' = main,
         \A p \in Indices : Registered(p)' = Registered(p),
         \A p \in Indices : /\ InTransit(p)' <=> InTransit(p)
                            /\ InTransit(p) => poll'[p].moved = poll[p].moved
  PROVE  InOnePlace'
<1>1. ASSUME NEW p \in Indices, NEW f \in Fds
      PROVE  (f \in Registered(p))' <=> f \in Registered(p)
  OBVIOUS
<1>2. ASSUME NEW p \in Indices, NEW f \in Fds PROVE OnTheWay(p, f)' <=> OnTheWay(p, f)
  BY DEF OnTheWay
<1>3. ASSUME NEW f \in Fds PROVE WithAcceptor(f)' <=> WithAcceptor(f)
  BY DEF WithAcceptor
<1> HIDE DEF Registered
<1> QED BY <1>1, <1>2, <1>3 DEF InOnePlace, Placed, PlacedOnce

Elsewhere == {"wait", "loop", "close", "closing", "callback", "max", "min", "empty",
              "oldest", "remove", "inc", "work", "write"}

\* A step of a thread that has no client on the way, before or after it.
LEMMA ThreadKeepsPlaces ==
  ASSUME FleetInv, NEW p \in Indices, Goes(p, Elsewhere, Elsewhere),
         poll'[p].pc = "closing" => poll'[p].terminate \subseteq Registered(p),
         UNCHANGED <<fdOwner, main, chosen, ePollIn>>,
         \A q \in Indices : Registered(q)' = Registered(q)
  PROVE  /\ ThreadsType' /\ InOnePlace' /\ TerminateKnown' /\ ChosenKnown'
         /\ ClientsPolled'
<1>1. ThreadsType' /\ ChosenKnown'
  BY DEF FleetInv, ThreadsType, ChosenKnown, Goes
<1>2. ASSUME NEW q \in Indices
      PROVE  /\ InTransit(q)' <=> InTransit(q)
             /\ InTransit(q) => poll'[q].moved = poll[q].moved
  BY DEF Goes, InTransit, Elsewhere
<1>3. InOnePlace'
  BY <1>2, PlacesStay DEF FleetInv
<1>4. TerminateKnown'
  BY DEF FleetInv, TerminateKnown, Goes
<1>5. ClientsPolled'
  BY DEF FleetInv, ClientsPolled
<1> QED BY <1>1, <1>3, <1>4, <1>5

LEMMA ThreadKeeps ==
  ASSUME FleetInv, NEW p \in Indices, Goes(p, Elsewhere, Elsewhere),
         poll'[p].pc = "closing" => poll'[p].terminate \subseteq Registered(p),
         UNCHANGED <<fdOwner, conn, main, chosen, ePollIn>>,
         \A q \in Indices : Registered(q)' = Registered(q)
  PROVE  /\ KernelType' /\ ThreadsType' /\ InOnePlace' /\ TerminateKnown'
         /\ ChosenKnown' /\ ClientsPolled'
<1>1. KernelType'
  BY DEF FleetInv, KernelType
<1> QED BY <1>1, ThreadKeepsPlaces

\* A step of the environment or the health check.
LEMMA ThreadsStay ==
  ASSUME FleetInv, UNCHANGED <<fdOwner, main, chosen, ePollIn, poll>>,
         \A q \in Indices : Registered(q)' = Registered(q)
  PROVE  ThreadsType' /\ InOnePlace' /\ TerminateKnown' /\ ChosenKnown' /\ ClientsPolled'
<1>1. InOnePlace'
  BY PlacesStay DEF FleetInv, InTransit
<1> QED BY <1>1 DEF FleetInv, ThreadsType, TerminateKnown, ChosenKnown, ClientsPolled

\* shutdown changes nothing but the state of connections.
LEMMA ShutDownType ==
  ASSUME KernelType, NEW fds
  PROVE  ShutDown(fds) \in [Conns -> {"new", "open", "stuck", "over", "gone"}]
  BY DEF KernelType, ShutDown

\* The data path and the choice of whom to move, one lemma for each step.
LEMMA PollWaitKeeps == ASSUME FleetInv, NEW p \in Indices, PollWait(p) PROVE FleetInv'
<1>1. Goes(p, {"wait"}, {"loop"})
  BY PollWaitGoes DEF FleetInv
<1>2. UNCHANGED <<balancerVars, kernelVars, clientVars, packetsToWrite,
                  callbackMutex, health, main, crashed>>
  BY DEF PollWait
<1>3. ClientsType' /\ SetsType' /\ OthersType'
  BY <1>2 DEF FleetInv, ClientsType, SetsType, OthersType, Registered, clientVars
<1>4. \A q \in Indices : Registered(q)' = Registered(q)
  BY <1>2 DEF Registered, clientVars
<1>5. UNCHANGED <<fdOwner, conn, main, chosen, ePollIn>>
  BY <1>2 DEF balancerVars, kernelVars, clientVars
<1>6. Goes(p, Elsewhere, Elsewhere) /\ poll'[p].pc # "closing"
  BY <1>1 DEF Goes, Elsewhere
<1> QED BY <1>3, <1>4, <1>5, <1>6, ThreadKeeps DEF FleetInv

LEMMA PollLoopKeeps == ASSUME FleetInv, NEW p \in Indices, PollLoop(p) PROVE FleetInv'
<1>1. Goes(p, {"loop"}, {"work", "close"})
  BY PollLoopGoes DEF FleetInv
<1>2. UNCHANGED <<balancerVars, fdOwner, ePollIn, callbackMutex, health, main, crashed>>
  BY DEF PollLoop
<1>3. PICK read, reset, asked, greeted, failed, ended
           \in SUBSET (poll[p].in \cap Registered(p)) :
        LoopDoes(p, read, reset, asked, greeted, failed, ended)
  BY PollLoopMeans
<1>4. poll[p].in \subseteq Fds
  BY DEF FleetInv, ThreadsType, Thread, PollState
<1>5. /\ DOMAIN clientInfos' = Indices
      /\ clientInfos'[p] = [f \in Registered(p) |-> clientInfos[p][f] /\ f \notin reset]
      /\ \A q \in Indices \ {p} : clientInfos'[q] = clientInfos[q]
  BY <1>3 DEF FleetInv, ClientsType, LoopDoes
<1>6. \A q \in Indices : Registered(q)' = Registered(q)
  BY <1>5 DEF Registered
<1>7. ClientsType'
  <2>1. clientInfos'[p] \in [Registered(p) -> BOOLEAN]
    BY <1>5
  <2> QED BY <1>5, <1>6, <2>1 DEF FleetInv, ClientsType
<1>8. SetsType' /\ OthersType'
  BY <1>2, <1>3, <1>4 DEF FleetInv, SetsType, OthersType, Sockets, LoopDoes
<1>9. KernelType'
  BY <1>2, <1>3, ShutDownType DEF FleetInv, KernelType, LoopDoes
<1>10. UNCHANGED <<fdOwner, main, chosen, ePollIn>>
  BY <1>2 DEF balancerVars
<1>11. Goes(p, Elsewhere, Elsewhere) /\ poll'[p].pc # "closing"
  BY <1>1 DEF Goes, Elsewhere
<1> QED BY <1>6, <1>7, <1>8, <1>9, <1>10, <1>11, ThreadKeepsPlaces DEF FleetInv

LEMMA PollCloseKeeps == ASSUME FleetInv, NEW p \in Indices, PollClose(p) PROVE FleetInv'
<1>1. Goes(p, {"close"}, {"work", "closing"}) /\ poll'[p].terminate \subseteq Registered(p)
  BY PollCloseGoes DEF FleetInv
<1>2. UNCHANGED <<balancerVars, kernelVars, clientVars, packetsToWrite,
                  callbackMutex, health, main, crashed>>
  BY DEF PollClose
<1>3. ClientsType' /\ SetsType' /\ OthersType'
  BY <1>2 DEF FleetInv, ClientsType, SetsType, OthersType, Registered, clientVars
<1>4. \A q \in Indices : Registered(q)' = Registered(q)
  BY <1>2 DEF Registered, clientVars
<1>5. UNCHANGED <<fdOwner, conn, main, chosen, ePollIn>>
  BY <1>2 DEF balancerVars, kernelVars, clientVars
<1>6. Goes(p, Elsewhere, Elsewhere)
  BY <1>1 DEF Goes, Elsewhere
<1> QED BY <1>1, <1>3, <1>4, <1>5, <1>6, ThreadKeeps DEF FleetInv

LEMMA ChoosingKeeps ==
  ASSUME TypeOK, FleetInv, NEW p \in Indices, Choosing(p) PROVE FleetInv'
<1>1. /\ Goes(p, {"callback", "max", "min", "empty", "oldest"},
                 {"max", "min", "empty", "oldest", "remove", "work"})
      /\ callbackMutex' \in 0 .. Count
  BY ChoosingGoes DEF FleetInv, TypeOK
<1>2. /\ UNCHANGED <<balancerVars, clientVars, callbackFrame>>
      /\ crashed' = crashed \/ crashed' \in BOOLEAN
  BY DEF Choosing, CallbackEnter, ReadMaxIndex, ReadMinIndex, CheckEmpty, LookAtOldest
<1>3. ClientsType' /\ SetsType' /\ OthersType'
  BY <1>1, <1>2 DEF FleetInv, ClientsType, SetsType, OthersType, Registered,
                    clientVars, callbackFrame
<1>4. \A q \in Indices : Registered(q)' = Registered(q)
  BY <1>2 DEF Registered, clientVars
<1>5. UNCHANGED <<fdOwner, conn, main, chosen, ePollIn>>
  BY <1>2 DEF balancerVars, kernelVars, clientVars, callbackFrame
<1>6. Goes(p, Elsewhere, Elsewhere) /\ poll'[p].pc # "closing"
  BY <1>1 DEF Goes, Elsewhere
<1> QED BY <1>3, <1>4, <1>5, <1>6, ThreadKeeps DEF FleetInv

LEMMA CountMovedKeeps == ASSUME FleetInv, NEW p \in Indices, CountMoved(p) PROVE FleetInv'
<1>1. Goes(p, {"inc"}, {"callback", "work"}) /\ callbackMutex' \in 0 .. Count
  BY CountMovedGoes DEF FleetInv
<1>2. /\ UNCHANGED <<clientInfos, ePollIn, callbackFrame, crashed>> /\ chosen' = chosen
      /\ stamped' = [stamped EXCEPT ![poll[p].minIdx] = @ \cup {poll[p].moved}]
  BY DEF CountMoved, StampMoved, IncPriorityMoved
<1>3. poll[p].moved \in Sockets
  BY DEF FleetInv, ThreadsType, Thread, PollState
<1>4. ClientsType' /\ SetsType' /\ OthersType'
  BY <1>1, <1>2, <1>3 DEF FleetInv, ClientsType, SetsType, OthersType, Registered,
                          callbackFrame
<1>5. \A q \in Indices : Registered(q)' = Registered(q)
  BY <1>2 DEF Registered
<1>6. UNCHANGED <<fdOwner, conn, main, chosen, ePollIn>>
  BY <1>2 DEF kernelVars, callbackFrame
<1>7. Goes(p, Elsewhere, Elsewhere) /\ poll'[p].pc # "closing"
  BY <1>1 DEF Goes, Elsewhere
<1> QED BY <1>4, <1>5, <1>6, <1>7, ThreadKeeps DEF FleetInv

Working(p) == ExecuteAndGather(p) \/ WriteReturns(p) \/ WriteFails(p)

LEMMA WorkingKeeps == ASSUME FleetInv, NEW p \in Indices, Working(p) PROVE FleetInv'
<1>1. Goes(p, {"work", "write"}, {"wait", "write"})
  BY WorkGoes DEF FleetInv, Working
<1>2. /\ UNCHANGED <<balancerVars, kernelVars, clientVars, callbackMutex, health,
                     main, crashed>>
      /\ packetsToWrite' \in {packetsToWrite, [packetsToWrite EXCEPT ![p] = {}]}
  BY DEF Working, ExecuteAndGather, WriteReturns, WriteFails
<1>3. ClientsType' /\ OthersType'
  BY <1>2 DEF FleetInv, ClientsType, OthersType, Registered, clientVars
<1>4. SetsType'
  BY <1>2 DEF FleetInv, SetsType, clientVars
<1>5. \A q \in Indices : Registered(q)' = Registered(q)
  BY <1>2 DEF Registered, clientVars
<1>6. UNCHANGED <<fdOwner, conn, main, chosen, ePollIn>>
  BY <1>2 DEF balancerVars, kernelVars, clientVars
<1>7. Goes(p, Elsewhere, Elsewhere) /\ poll'[p].pc # "closing"
  BY <1>1 DEF Goes, Elsewhere
<1> QED BY <1>3, <1>4, <1>5, <1>6, <1>7, ThreadKeeps DEF FleetInv

\* A scan of the balancer, a peer that stalls or closes, and the health check.
LEMMA ScanStepKeeps == ASSUME FleetInv, ScanStep PROVE FleetInv'
<1>1. /\ UNCHANGED <<kernelVars, clientVars, packetsToWrite, poll, callbackMutex,
                     health, main, crashed>>
      /\ chosen' = chosen
  BY DEF ScanStep, Scan
<1>2. KernelType' /\ ClientsType' /\ SetsType' /\ OthersType'
  BY <1>1 DEF FleetInv, KernelType, ClientsType, SetsType, OthersType, Registered,
              kernelVars, clientVars
<1>3. \A q \in Indices : Registered(q)' = Registered(q)
  BY <1>1 DEF Registered, clientVars
<1>4. UNCHANGED <<fdOwner, main, chosen, ePollIn, poll>>
  BY <1>1 DEF kernelVars, clientVars
<1> QED BY <1>2, <1>3, <1>4, ThreadsStay DEF FleetInv

LEMMA PeerKeeps ==
  ASSUME FleetInv, NEW c \in Conns, PeerStalls(c) \/ PeerCloses(c) PROVE FleetInv'
<1>1. /\ UNCHANGED <<balancerVars, fdOwner, clientVars, packetsToWrite, poll,
                     callbackMutex, health, main, crashed>>
      /\ \E state \in {"stuck", "over"} : conn' = [conn EXCEPT ![c] = state]
  BY DEF PeerStalls, PeerCloses
<1>2. KernelType' /\ ClientsType' /\ SetsType' /\ OthersType'
  BY <1>1 DEF FleetInv, KernelType, ClientsType, SetsType, OthersType, Registered,
              clientVars
<1>3. \A q \in Indices : Registered(q)' = Registered(q)
  BY <1>1 DEF Registered, clientVars
<1>4. UNCHANGED <<fdOwner, main, chosen, ePollIn, poll>>
  BY <1>1 DEF balancerVars, clientVars
<1> QED BY <1>2, <1>3, <1>4, ThreadsStay DEF FleetInv

LEMMA HealthChecksKeeps ==
  ASSUME FleetInv, NEW old \in SUBSET Sockets, HealthChecks(old) PROVE FleetInv'
<1> DEFINE p == health.at
           told == {f \in old \cap Registered(p) : clientInfos[p][f]}
           warned == (old \cap Registered(p)) \ told
<1>1. /\ p \in Indices /\ UNCHANGED healthFrame
      /\ clientInfos' = [clientInfos EXCEPT ![p] =
                           [f \in Registered(p) |-> @[f] \/ f \in warned]]
      /\ conn' = ShutDown(told)
      /\ packetsToWrite' = [packetsToWrite EXCEPT ![p] = @ \cup warned]
      /\ health' = [at |-> health.at + 1, selected |-> health.selected \cup (old \ warned)]
  BY CountAssumption DEF HealthChecks, FleetInv, OthersType, Indices
<1>2. warned \subseteq Sockets
  OBVIOUS
<1> HIDE DEF told, warned
<1>3. /\ DOMAIN clientInfos' = Indices
      /\ clientInfos'[p] = [f \in Registered(p) |-> clientInfos[p][f] \/ f \in warned]
      /\ \A q \in Indices \ {p} : clientInfos'[q] = clientInfos[q]
  BY <1>1 DEF FleetInv, ClientsType
<1>4. \A q \in Indices : Registered(q)' = Registered(q)
  BY <1>3 DEF Registered
<1>5. ClientsType'
  <2>1. clientInfos'[p] \in [Registered(p) -> BOOLEAN]
    BY <1>3
  <2> QED BY <1>3, <1>4, <2>1 DEF FleetInv, ClientsType
<1>6. KernelType'
  BY <1>1, ShutDownType DEF FleetInv, KernelType, healthFrame
<1>7. SetsType'
  BY <1>1, <1>2 DEF FleetInv, SetsType, healthFrame
<1>8. OthersType'
  <2>1. health.at + 1 \in 0 .. Count /\ health.selected \cup (old \ warned) \subseteq Sockets
    BY <1>1, CountAssumption DEF FleetInv, OthersType, Indices
  <2> QED BY <1>1, <2>1 DEF FleetInv, OthersType, healthFrame
<1>9. UNCHANGED <<fdOwner, main, chosen, ePollIn, poll>>
  BY <1>1 DEF healthFrame, balancerVars
<1> QED BY <1>4, <1>5, <1>6, <1>7, <1>8, <1>9, ThreadsStay DEF FleetInv

LEMMA HealthClosesKeeps == ASSUME FleetInv, HealthCloses PROVE FleetInv'
<1>1. /\ UNCHANGED <<clientInfos, packetsToWrite, healthFrame>>
      /\ conn' = ShutDown(health.selected) /\ health' = [at |-> 0, selected |-> {}]
  BY DEF HealthCloses
<1>2. KernelType'
  BY <1>1, ShutDownType DEF FleetInv, KernelType, healthFrame
<1>3. ClientsType' /\ SetsType'
  BY <1>1 DEF FleetInv, ClientsType, SetsType, Registered, healthFrame
<1>4. OthersType'
  <2>1. 0 \in 0 .. Count
    BY CountAssumption
  <2> QED BY <1>1, <2>1 DEF FleetInv, OthersType, healthFrame
<1>5. \A q \in Indices : Registered(q)' = Registered(q)
  BY <1>1 DEF Registered
<1>6. UNCHANGED <<fdOwner, main, chosen, ePollIn, poll>>
  BY <1>1 DEF healthFrame, balancerVars
<1> QED BY <1>2, <1>3, <1>4, <1>5, <1>6, ThreadsStay DEF FleetInv

(***************************************************************************)
(* Steps that move a client from one place to another.                      *)
(***************************************************************************)
\* Only f changes its place; f may be NoSocket, and then nothing does.
LEMMA OneMoves ==
  ASSUME InOnePlace, NEW f,
         \A g \in Fds \ {f} :
           /\ fdOwner'[g] # None <=> fdOwner[g] # None
           /\ WithAcceptor(g)' <=> WithAcceptor(g)
           /\ \A p \in Indices : /\ (g \in Registered(p))' <=> g \in Registered(p)
                                 /\ OnTheWay(p, g)' <=> OnTheWay(p, g),
         f \in Fds => (fdOwner'[f] # None <=> Placed(f)') /\ PlacedOnce(f)'
  PROVE  InOnePlace'
<1> HIDE DEF Registered, OnTheWay, WithAcceptor
<1> SUFFICES ASSUME NEW g \in Fds, g # f
             PROVE  (fdOwner'[g] # None <=> Placed(g)') /\ PlacedOnce(g)'
  BY DEF InOnePlace
<1>1. (fdOwner[g] # None <=> Placed(g)) /\ PlacedOnce(g)
  BY DEF InOnePlace
<1>2. Placed(g)' <=> Placed(g)
  BY DEF Placed
<1>3. PlacedOnce(g)'
  BY <1>1 DEF PlacedOnce
<1> QED BY <1>1, <1>2, <1>3

\* accept: a descriptor that was nowhere is with the acceptor.
LEMMA AcceptKeeps ==
  ASSUME FleetInv, NEW c \in Conns, NEW f \in Fds, Accept(c, f) PROVE FleetInv'
<1>1. /\ main.pc = "accept" /\ fdOwner[f] = None
      /\ fdOwner' = [fdOwner EXCEPT ![f] = c] /\ conn' = [conn EXCEPT ![c] = "open"]
      /\ main' = [pc |-> "next", child |-> f]
      /\ UNCHANGED <<balancerVars, clientVars, packetsToWrite, poll, callbackMutex,
                     health, crashed>>
  BY DEF Accept
<1>2. KernelType' /\ ClientsType' /\ SetsType' /\ ThreadsType' /\ OthersType'
  BY <1>1 DEF FleetInv, KernelType, ClientsType, SetsType, ThreadsType, OthersType,
              Registered, clientVars, Sockets
<1>3. TerminateKnown' /\ ChosenKnown' /\ ClientsPolled'
  BY <1>1 DEF FleetInv, TerminateKnown, ChosenKnown, ClientsPolled, Registered,
              clientVars
<1>4. /\ \A p \in Indices : Registered(p)' = Registered(p)
      /\ \A p \in Indices, g \in Fds : OnTheWay(p, g)' <=> OnTheWay(p, g)
  BY <1>1 DEF Registered, OnTheWay, InTransit, clientVars
<1>5. \A g \in Fds \ {f} : /\ fdOwner'[g] = fdOwner[g]
                           /\ WithAcceptor(g)' <=> WithAcceptor(g)
  BY <1>1 DEF FleetInv, KernelType, WithAcceptor
<1>6. fdOwner'[f] # None /\ WithAcceptor(f)'
  BY <1>1, NoneAssumption DEF FleetInv, KernelType, WithAcceptor
<1>7. \A p \in Indices : f \notin Registered(p) /\ ~ OnTheWay(p, f)
  BY <1>1 DEF FleetInv, InOnePlace, Placed
<1>8. Placed(f)' /\ PlacedOnce(f)'
  <2> HIDE DEF Registered, OnTheWay, WithAcceptor
  <2> QED BY <1>4, <1>6, <1>7 DEF Placed, PlacedOnce
<1>9. InOnePlace'
  BY <1>4, <1>5, <1>6, <1>8, OneMoves DEF FleetInv
<1> QED BY <1>2, <1>3, <1>9 DEF FleetInv

LEMMA AcceptorPicksKeeps == ASSUME TypeOK, FleetInv, AcceptorPicks PROVE FleetInv'
<1>1. /\ main.pc = "next" /\ main' = [main EXCEPT !.pc = "insert"]
      /\ chosen' = minIdx /\ minIdx \in Indices
      /\ UNCHANGED <<kernelVars, clientVars, packetsToWrite, poll, callbackMutex,
                     health, crashed>>
  BY DEF AcceptorPicks, NextIndex, TypeOK
<1>2. KernelType' /\ ClientsType' /\ SetsType' /\ ThreadsType' /\ OthersType'
  BY <1>1 DEF FleetInv, KernelType, ClientsType, SetsType, ThreadsType, OthersType,
              Registered, kernelVars, clientVars
<1>3. TerminateKnown' /\ ChosenKnown' /\ ClientsPolled'
  BY <1>1 DEF FleetInv, TerminateKnown, ChosenKnown, ClientsPolled, Registered,
              clientVars
<1>4. /\ \A p \in Indices : Registered(p)' = Registered(p)
      /\ \A p \in Indices, g \in Fds : OnTheWay(p, g)' <=> OnTheWay(p, g)
  BY <1>1 DEF Registered, OnTheWay, InTransit, clientVars
<1>5. \A g \in Fds : /\ fdOwner'[g] = fdOwner[g]
                     /\ WithAcceptor(g)' <=> WithAcceptor(g)
  BY <1>1 DEF FleetInv, OthersType, WithAcceptor, kernelVars
<1>6. InOnePlace'
  BY <1>4, <1>5, OneMoves, NoSocketAssumption DEF FleetInv
<1> QED BY <1>2, <1>3, <1>6 DEF FleetInv

\* ClientInfos::insert, for a new client and for one that was moved.
LEMMA InsertedWhere ==
  ASSUME FleetInv, NEW p \in Indices, NEW f \in Sockets, NEW flag \in BOOLEAN,
         clientInfos' = Inserted(p, f, flag), ePollIn' = Watched(p, f)
  PROVE  /\ ClientsType' /\ ClientsPolled' /\ ePollIn' \in [Indices -> SUBSET Fds]
         /\ Registered(p)' = Registered(p) \cup {f}
         /\ \A q \in Indices \ {p} : Registered(q)' = Registered(q)
<1>1. /\ DOMAIN clientInfos' = Indices
      /\ clientInfos'[p] = [g \in Registered(p) \cup {f} |->
                              IF g \in Registered(p) THEN clientInfos[p][g] ELSE flag]
      /\ \A q \in Indices \ {p} : clientInfos'[q] = clientInfos[q]
  BY DEF FleetInv, ClientsType, Inserted
<1>2. /\ Registered(p)' = Registered(p) \cup {f}
      /\ \A q \in Indices \ {p} : Registered(q)' = Registered(q)
  BY <1>1 DEF Registered
<1>3. ClientsType'
  <2>1. clientInfos'[p] \in [Registered(p) \cup {f} -> BOOLEAN]
    BY <1>1 DEF FleetInv, ClientsType
  <2> QED BY <1>1, <1>2, <2>1 DEF FleetInv, ClientsType
<1>4. /\ ePollIn' \in [Indices -> SUBSET Fds]
      /\ ePollIn'[p] = ePollIn[p] \cup ({f} \cap Fds)
      /\ \A q \in Indices \ {p} : ePollIn'[q] = ePollIn[q]
  BY DEF FleetInv, SetsType, Watched
<1>5. ClientsPolled'
  <2> HIDE DEF Registered
  <2> QED BY <1>2, <1>4 DEF FleetInv, ClientsPolled
<1> QED BY <1>2, <1>3, <1>4, <1>5

\* ClientInfos::insert gives the acceptor's descriptor to the protocol.
LEMMA AcceptorInsertsKeeps == ASSUME FleetInv, AcceptorInserts PROVE FleetInv'
<1>1. PICK p \in Indices, f \in Sockets : p = chosen /\ f = main.child
  BY DEF AcceptorInserts, FleetInv, ChosenKnown, OthersType
<1>2. /\ main.pc = "insert" /\ main' = [main EXCEPT !.pc = "inc"]
      /\ clientInfos' = Inserted(p, f, FALSE) /\ ePollIn' = Watched(p, f)
      /\ UNCHANGED <<balancerVars, kernelVars, stamped, packetsToWrite, poll,
                     callbackMutex, health, crashed>>
  BY <1>1 DEF AcceptorInserts
<1>3. /\ ClientsType' /\ ClientsPolled' /\ ePollIn' \in [Indices -> SUBSET Fds]
      /\ Registered(p)' = Registered(p) \cup {f}
      /\ \A q \in Indices \ {p} : Registered(q)' = Registered(q)
  BY <1>2, InsertedWhere
<1>4. KernelType' /\ SetsType' /\ ThreadsType' /\ OthersType'
  BY <1>2, <1>3 DEF FleetInv, KernelType, SetsType, ThreadsType, OthersType, kernelVars
<1>5. TerminateKnown'
  <2> HIDE DEF Registered
  <2> QED BY <1>2, <1>3 DEF FleetInv, TerminateKnown
<1>6. ChosenKnown'
  BY <1>1, <1>2 DEF ChosenKnown, balancerVars
<1>7. InOnePlace'
  <2>1. \A q \in Indices, g \in Fds : OnTheWay(q, g)' <=> OnTheWay(q, g)
    BY <1>2 DEF OnTheWay, InTransit
  <2>2. \A g \in Fds : ~ WithAcceptor(g)' /\ (WithAcceptor(g) <=> g = f)
    BY <1>1, <1>2 DEF FleetInv, OthersType, WithAcceptor
  <2>3. fdOwner' = fdOwner
    BY <1>2 DEF kernelVars
  <2>4. ASSUME f \in Fds PROVE Placed(f)' /\ PlacedOnce(f)' /\ fdOwner'[f] # None
    <3>1. fdOwner[f] # None
      BY <2>2, <2>4 DEF FleetInv, InOnePlace, Placed
    <3>2. \A q \in Indices : f \notin Registered(q) /\ ~ OnTheWay(q, f)
      BY <2>2, <2>4 DEF FleetInv, InOnePlace, PlacedOnce
    <3> HIDE DEF Registered, OnTheWay, WithAcceptor
    <3>3. \A q \in Indices : f \in Registered(q)' <=> q = p
      BY <1>3, <3>2
    <3>4. Placed(f)'
      BY <3>3 DEF Placed
    <3>5. PlacedOnce(f)'
      BY <2>1, <2>2, <2>4, <3>2, <3>3 DEF PlacedOnce
    <3> QED BY <2>3, <3>1, <3>4, <3>5
  <2>5. \A g \in Fds \ {f} :
          /\ fdOwner'[g] # None <=> fdOwner[g] # None
          /\ WithAcceptor(g)' <=> WithAcceptor(g)
          /\ \A q \in Indices : /\ (g \in Registered(q))' <=> g \in Registered(q)
                                /\ OnTheWay(q, g)' <=> OnTheWay(q, g)
    <3> HIDE DEF Registered, OnTheWay, WithAcceptor
    <3> QED BY <1>3, <2>1, <2>2, <2>3
  <2> QED BY <2>4, <2>5, OneMoves DEF FleetInv
<1> QED BY <1>3, <1>4, <1>5, <1>6, <1>7 DEF FleetInv

LEMMA AcceptorCountsKeeps == ASSUME FleetInv, AcceptorCounts PROVE FleetInv'
<1>1. /\ main.pc = "inc" /\ main' = [pc |-> "accept", child |-> NoSocket]
      /\ stamped' = [stamped EXCEPT ![chosen] = @ \cup {main.child}]
      /\ UNCHANGED <<kernelVars, clientInfos, ePollIn, packetsToWrite, poll,
                     callbackMutex, health, crashed>>
  BY DEF AcceptorCounts
<1>2. KernelType' /\ ClientsType' /\ SetsType' /\ ThreadsType' /\ OthersType'
  BY <1>1 DEF FleetInv, KernelType, ClientsType, SetsType, ThreadsType, OthersType,
              Registered, kernelVars, Sockets
<1>3. TerminateKnown' /\ ChosenKnown' /\ ClientsPolled'
  BY <1>1 DEF FleetInv, TerminateKnown, ChosenKnown, ClientsPolled, Registered
<1>4. /\ \A p \in Indices : Registered(p)' = Registered(p)
      /\ \A p \in Indices, g \in Fds : OnTheWay(p, g)' <=> OnTheWay(p, g)
  BY <1>1 DEF Registered, OnTheWay, InTransit
<1>5. \A g \in Fds : /\ fdOwner'[g] = fdOwner[g]
                     /\ WithAcceptor(g)' <=> WithAcceptor(g)
  BY <1>1 DEF WithAcceptor, kernelVars
<1>6. InOnePlace'
  BY <1>4, <1>5, OneMoves, NoSocketAssumption DEF FleetInv
<1> QED BY <1>2, <1>3, <1>6 DEF FleetInv

\* One client less: its protocol knows it no more.
LEMMA WithoutWhere ==
  ASSUME FleetInv, NEW p \in Indices, NEW f \in Sockets,
         clientInfos' = [clientInfos EXCEPT ![p] = Without(p, f)]
  PROVE  /\ ClientsType'
         /\ Registered(p)' = Registered(p) \ {f}
         /\ \A q \in Indices \ {p} : Registered(q)' = Registered(q)
<1>1. /\ DOMAIN clientInfos' = Indices
      /\ clientInfos'[p] = [g \in Registered(p) \ {f} |-> clientInfos[p][g]]
      /\ \A q \in Indices \ {p} : clientInfos'[q] = clientInfos[q]
  BY DEF FleetInv, ClientsType, Without
<1>2. /\ Registered(p)' = Registered(p) \ {f}
      /\ \A q \in Indices \ {p} : Registered(q)' = Registered(q)
  BY <1>1 DEF Registered
<1>3. clientInfos'[p] \in [Registered(p) \ {f} -> BOOLEAN]
  BY <1>1 DEF FleetInv, ClientsType
<1>4. ClientsType'
  BY <1>1, <1>2, <1>3 DEF FleetInv, ClientsType
<1> QED BY <1>2, <1>4

\* ClientInfos::close: the client was in this protocol and nowhere else, so that its
\* number may be forgotten everywhere.
LEMMA CloseOneKeeps ==
  ASSUME FleetInv, NEW p \in Indices, NEW f \in Fds, CloseOne(p, f) PROVE FleetInv'
<1>1. /\ poll[p].pc = "closing" /\ f \in poll[p].terminate
      /\ clientInfos' = [clientInfos EXCEPT ![p] = Without(p, f)]
      /\ ePollIn' = [q \in Indices |-> ePollIn[q] \ {f}]
      /\ conn' = [conn EXCEPT ![fdOwner[f]] = "gone"]
      /\ fdOwner' = [fdOwner EXCEPT ![f] = None] /\ chosen' = chosen
      /\ UNCHANGED <<stamped, packetsToWrite, callbackMutex, health, main, crashed>>
  BY DEF CloseOne, DecPriority
<1>2. /\ Goes(p, {"closing"}, {"closing", "callback"})
      /\ poll'[p].terminate = poll[p].terminate \ {f}
  BY CloseOneGoes DEF FleetInv
<1>3. f \in Registered(p) /\ f \in Sockets
  BY <1>1 DEF FleetInv, TerminateKnown, Sockets
<1>4. /\ ClientsType' /\ Registered(p)' = Registered(p) \ {f}
      /\ \A q \in Indices \ {p} : Registered(q)' = Registered(q)
  BY <1>1, <1>3, WithoutWhere
<1>5. /\ ~ WithAcceptor(f) /\ \A q \in Indices : ~ OnTheWay(q, f)
      /\ \A q \in Indices \ {p} : f \notin Registered(q)
  <2> HIDE DEF Registered
  <2> QED BY <1>3 DEF FleetInv, InOnePlace, PlacedOnce
<1>6. KernelType' /\ SetsType' /\ ThreadsType' /\ OthersType' /\ ChosenKnown'
  BY <1>1, <1>2 DEF FleetInv, KernelType, SetsType, ThreadsType, OthersType,
                    ChosenKnown, Goes
<1>7. TerminateKnown'
  <2> HIDE DEF Registered
  <2> QED BY <1>2, <1>4 DEF FleetInv, TerminateKnown, Goes
<1>8. ClientsPolled'
  <2> HIDE DEF Registered
  <2> QED BY <1>1, <1>4, <1>5 DEF FleetInv, ClientsPolled
<1>9. \A q \in Indices, g \in Fds : OnTheWay(q, g)' <=> OnTheWay(q, g)
  BY <1>2 DEF Goes, OnTheWay, InTransit
<1>10. \A g \in Fds : WithAcceptor(g)' <=> WithAcceptor(g)
  BY <1>1 DEF WithAcceptor
<1>11. fdOwner'[f] = None /\ \A g \in Fds \ {f} : fdOwner'[g] = fdOwner[g]
  BY <1>1 DEF FleetInv, KernelType
<1>12. ~ Placed(f)' /\ PlacedOnce(f)'
  <2> HIDE DEF Registered, OnTheWay, WithAcceptor
  <2>1. \A q \in Indices : f \notin Registered(q)'
    BY <1>4, <1>5
  <2> QED BY <1>5, <1>9, <1>10, <2>1 DEF Placed, PlacedOnce
<1>13. \A g \in Fds \ {f} :
         /\ fdOwner'[g] # None <=> fdOwner[g] # None
         /\ WithAcceptor(g)' <=> WithAcceptor(g)
         /\ \A q \in Indices : /\ (g \in Registered(q))' <=> g \in Registered(q)
                               /\ OnTheWay(q, g)' <=> OnTheWay(q, g)
  <2> HIDE DEF Registered, OnTheWay, WithAcceptor
  <2> QED BY <1>4, <1>9, <1>10, <1>11
<1>14. InOnePlace'
  BY <1>11, <1>12, <1>13, OneMoves DEF FleetInv
<1> QED BY <1>4, <1>6, <1>7, <1>8, <1>14 DEF FleetInv

\* RemoveOldestClientAndReturn: from the protocol into the thread's hands.
LEMMA RemoveOldestKeeps ==
  ASSUME FleetInv, NEW p \in Indices, RemoveOldest(p) PROVE FleetInv'
<1>1. PICK from \in Indices : from = poll[p].maxIdx
  BY DEF FleetInv, ThreadsType, Thread, PollState
<1>2. PICK f \in Sockets :
        f = IF Registered(from) # {} THEN OldestIn(from) ELSE NoSocket
  BY OldestIsRegistered DEF FleetInv, Sockets
<1>3. /\ poll[from].pc # "closing"
      /\ clientInfos' = [clientInfos EXCEPT ![from] = Without(from, f)]
      /\ UNCHANGED <<balancerVars, ePollIn, stamped, callbackMutex, callbackFrame,
                     crashed>>
  BY <1>1, <1>2 DEF RemoveOldest, LockFreeOf
<1>4. Goes(p, {"remove"}, {"dec"}) /\ poll'[p].moved = f
  BY <1>1, <1>2, RemoveOldestGoes DEF FleetInv
<1>5. /\ ClientsType' /\ Registered(from)' = Registered(from) \ {f}
      /\ \A q \in Indices \ {from} : Registered(q)' = Registered(q)
  BY <1>3, WithoutWhere
<1>6. f \in Fds => f \in Registered(from)
  BY <1>2, OldestIsRegistered, NoSocketAssumption DEF FleetInv
<1>7. KernelType' /\ SetsType' /\ ThreadsType' /\ OthersType' /\ ChosenKnown'
  BY <1>3, <1>4 DEF FleetInv, KernelType, SetsType, ThreadsType, OthersType,
                    ChosenKnown, Goes, kernelVars, balancerVars, callbackFrame
<1>8. TerminateKnown'
  <2> HIDE DEF Registered
  <2> QED BY <1>3, <1>4, <1>5 DEF FleetInv, TerminateKnown, Goes
<1>9. ClientsPolled'
  <2> HIDE DEF Registered
  <2> QED BY <1>3, <1>5 DEF FleetInv, ClientsPolled
<1>10. /\ \A q \in Indices, g \in Fds \ {f} : OnTheWay(q, g)' <=> OnTheWay(q, g)
       /\ \A q \in Indices : OnTheWay(q, f)' <=> q = p \/ OnTheWay(q, f)
  BY <1>4 DEF Goes, OnTheWay, InTransit
<1>11. /\ \A g \in Fds : WithAcceptor(g)' <=> WithAcceptor(g)
       /\ fdOwner' = fdOwner
  BY <1>3 DEF WithAcceptor, kernelVars, callbackFrame
<1>12. ASSUME f \in Fds PROVE Placed(f)' /\ PlacedOnce(f)' /\ fdOwner'[f] # None
  <2> HIDE DEF Registered, OnTheWay, WithAcceptor
  <2>1. /\ fdOwner[f] # None /\ ~ WithAcceptor(f)
        /\ \A q \in Indices : ~ OnTheWay(q, f)
        /\ \A q \in Indices \ {from} : f \notin Registered(q)
    BY <1>6, <1>12 DEF FleetInv, InOnePlace, Placed, PlacedOnce
  <2>2. \A q \in Indices : f \notin Registered(q)'
    BY <1>5, <2>1
  <2>3. \A q \in Indices : OnTheWay(q, f)' <=> q = p
    BY <1>10, <2>1
  <2>4. ~ WithAcceptor(f)' /\ fdOwner'[f] # None
    BY <1>11, <1>12, <2>1
  <2> QED BY <2>2, <2>3, <2>4 DEF Placed, PlacedOnce
<1>13. \A g \in Fds \ {f} :
         /\ fdOwner'[g] # None <=> fdOwner[g] # None
         /\ WithAcceptor(g)' <=> WithAcceptor(g)
         /\ \A q \in Indices : /\ (g \in Registered(q))' <=> g \in Registered(q)
                               /\ OnTheWay(q, g)' <=> OnTheWay(q, g)
  <2> HIDE DEF Registered, OnTheWay, WithAcceptor
  <2> QED BY <1>5, <1>10, <1>11
<1>14. InOnePlace'
  BY <1>12, <1>13, OneMoves DEF FleetInv
<1> QED BY <1>5, <1>7, <1>8, <1>9, <1>14 DEF FleetInv

\* decPriority: the thread keeps what it holds.
LEMMA DecMovedKeeps ==
  ASSUME FleetInv, NEW p \in Indices, DecMoved(p) PROVE FleetInv'
<1>1. /\ poll[p].pc = "dec" /\ GoesOn(p, "add") /\ chosen' = chosen
      /\ UNCHANGED <<clientVars, callbackFrame, crashed>>
  BY DEF DecMoved, DecPriority
<1>2. Goes(p, {"dec"}, {"add"}) /\ poll'[p].moved = poll[p].moved
  BY <1>1, PcGoes DEF FleetInv, GoesOn, Counting
<1>3. /\ KernelType' /\ ClientsType' /\ SetsType' /\ ThreadsType' /\ OthersType'
      /\ ChosenKnown'
  BY <1>1, <1>2 DEF FleetInv, KernelType, ClientsType, SetsType, ThreadsType,
                    OthersType, ChosenKnown, Goes, GoesOn, Registered, kernelVars,
                    clientVars, callbackFrame
<1>4. TerminateKnown' /\ ClientsPolled'
  BY <1>1, <1>2 DEF FleetInv, TerminateKnown, ClientsPolled, Goes, Registered,
                    clientVars
<1>5. InOnePlace'
  <2>1. \A q \in Indices : /\ InTransit(q)' <=> InTransit(q)
                           /\ InTransit(q) => poll'[q].moved = poll[q].moved
    BY <1>2 DEF Goes, InTransit
  <2>2. /\ \A q \in Indices : Registered(q)' = Registered(q)
        /\ fdOwner' = fdOwner /\ main' = main
    BY <1>1 DEF Registered, kernelVars, clientVars, callbackFrame
  <2> QED BY <2>1, <2>2, PlacesStay DEF FleetInv
<1> QED BY <1>3, <1>4, <1>5 DEF FleetInv

\* Add: from the thread's hands into the other protocol.
LEMMA AddMovedKeeps ==
  ASSUME FleetInv, NEW p \in Indices, AddMoved(p) PROVE FleetInv'
<1>1. PICK to \in Indices, f \in Sockets, flag \in BOOLEAN :
        to = poll[p].minIdx /\ f = poll[p].moved /\ flag = poll[p].flag
  BY DEF FleetInv, ThreadsType, Thread, PollState
<1>2. /\ poll[p].pc = "add" /\ GoesOn(p, "inc")
      /\ clientInfos' = Inserted(to, f, flag) /\ ePollIn' = Watched(to, f)
      /\ UNCHANGED <<balancerVars, stamped, callbackFrame, crashed>>
  BY <1>1 DEF AddMoved
<1>3. Goes(p, {"add"}, {"inc"})
  BY <1>2, PcGoes DEF FleetInv, GoesOn, Counting
<1>4. /\ ClientsType' /\ ClientsPolled' /\ ePollIn' \in [Indices -> SUBSET Fds]
      /\ Registered(to)' = Registered(to) \cup {f}
      /\ \A q \in Indices \ {to} : Registered(q)' = Registered(q)
  BY <1>2, InsertedWhere
<1>5. KernelType' /\ SetsType' /\ ThreadsType' /\ OthersType' /\ ChosenKnown'
  BY <1>2, <1>3, <1>4 DEF FleetInv, KernelType, SetsType, ThreadsType, OthersType,
                          ChosenKnown, Goes, GoesOn, kernelVars, balancerVars,
                          callbackFrame
<1>6. TerminateKnown'
  <2> HIDE DEF Registered
  <2> QED BY <1>3, <1>4 DEF FleetInv, TerminateKnown, Goes
<1>7. /\ \A q \in Indices, g \in Fds \ {f} : OnTheWay(q, g)' <=> OnTheWay(q, g)
      /\ \A q \in Indices : OnTheWay(q, f)' <=> q # p /\ OnTheWay(q, f)
      /\ OnTheWay(p, f)
  BY <1>1, <1>2, <1>3 DEF Goes, OnTheWay, InTransit
<1>8. /\ \A g \in Fds : WithAcceptor(g)' <=> WithAcceptor(g)
      /\ fdOwner' = fdOwner
  BY <1>2 DEF WithAcceptor, kernelVars, callbackFrame
<1>9. ASSUME f \in Fds PROVE Placed(f)' /\ PlacedOnce(f)' /\ fdOwner'[f] # None
  <2> HIDE DEF Registered, OnTheWay, WithAcceptor
  <2>1. /\ fdOwner[f] # None /\ ~ WithAcceptor(f)
        /\ \A q \in Indices : f \notin Registered(q)
        /\ \A q \in Indices \ {p} : ~ OnTheWay(q, f)
    BY <1>7, <1>9 DEF FleetInv, InOnePlace, Placed, PlacedOnce
  <2>2. \A q \in Indices : f \in Registered(q)' <=> q = to
    BY <1>4, <2>1
  <2>3. \A q \in Indices : ~ OnTheWay(q, f)'
    BY <1>7, <2>1
  <2>4. ~ WithAcceptor(f)' /\ fdOwner'[f] # None
    BY <1>8, <1>9, <2>1
  <2> QED BY <2>2, <2>3, <2>4 DEF Placed, PlacedOnce
<1>10. \A g \in Fds \ {f} :
         /\ fdOwner'[g] # None <=> fdOwner[g] # None
         /\ WithAcceptor(g)' <=> WithAcceptor(g)
         /\ \A q \in Indices : /\ (g \in Registered(q))' <=> g \in Registered(q)
                               /\ OnTheWay(q, g)' <=> OnTheWay(q, g)
  <2> HIDE DEF Registered, OnTheWay, WithAcceptor
  <2> QED BY <1>4, <1>7, <1>8
<1>11. InOnePlace'
  BY <1>9, <1>10, OneMoves DEF FleetInv
<1> QED BY <1>4, <1>5, <1>6, <1>11 DEF FleetInv

(***************************************************************************)
(* The invariant holds throughout, and with it the balancer's.              *)
(***************************************************************************)
\* main starts with protocols that have no client, and no connection.
LEMMA FleetInitInv == ASSUME FleetInit PROVE IInv /\ FleetInv
<1>1. IInv /\ 0 \in 0 .. Count /\ Count \in 0 .. Count
  BY InitIInv, CountAssumption DEF FleetInit
<1>2. \A p \in Indices : Registered(p) = {}
  BY DEF FleetInit, Registered
<1>3. KernelType /\ SetsType /\ OthersType
  BY <1>1 DEF FleetInit, KernelType, SetsType, OthersType, Sockets
<1>4. ClientsType
  BY <1>2 DEF FleetInit, ClientsType
<1>5. ThreadsType /\ \A p \in Indices : poll[p].pc = "wait"
  BY IdleIsThread DEF FleetInit, ThreadsType, IdlePoll
<1>6. TerminateKnown /\ ChosenKnown /\ ClientsPolled
  BY <1>2, <1>5 DEF FleetInit, TerminateKnown, ChosenKnown, ClientsPolled
<1>7. \A f \in Fds : fdOwner[f] = None /\ ~ WithAcceptor(f)
  BY DEF FleetInit, WithAcceptor
<1>8. \A p \in Indices, f \in Fds : f \notin Registered(p) /\ ~ OnTheWay(p, f)
  BY <1>2, <1>5 DEF OnTheWay, InTransit
<1>9. InOnePlace
  <2> HIDE DEF Registered, OnTheWay, WithAcceptor
  <2> QED BY <1>7, <1>8 DEF InOnePlace, Placed, PlacedOnce
<1> QED BY <1>1, <1>3, <1>4, <1>5, <1>6, <1>9 DEF FleetInv

\* Every step of the fleet is a step of the balancer, or none.
LEMMA StepSimulation ==
  ASSUME ThreadsType, [FleetNext]_fleetVars PROVE [Next]_vars
<1>1. CASE AcceptorStep
  BY <1>1 DEF AcceptorStep, AcceptorPicks, AcceptorInserts, AcceptorCounts, Next,
              vars, balancerVars
<1>2. CASE ScanStep
  BY <1>2 DEF ScanStep, Next
<1>3. CASE PeerStep \/ HealthStep
  BY <1>3 DEF PeerStep, PeerStalls, PeerCloses, Accept, HealthStep, HealthCloses,
              HealthChecks, healthFrame, vars, balancerVars
<1>4. ASSUME NEW p \in Indices, PollStep(p) \/ WriteFails(p) PROVE [Next]_vars
  <2>1. poll[p].maxIdx \in Indices /\ poll[p].minIdx \in Indices
    BY DEF ThreadsType, Thread, PollState
  <2>2. CASE \E f \in Fds : CloseOne(p, f)
    BY <2>2 DEF CloseOne, Next
  <2>3. CASE DecMoved(p) \/ CountMoved(p)
    BY <2>1, <2>3 DEF DecMoved, CountMoved, Next
  <2>4. CASE \/ PollWait(p) \/ PollLoop(p) \/ PollClose(p) \/ ExecuteAndGather(p)
             \/ WriteReturns(p) \/ WriteFails(p)
    BY <2>4 DEF PollWait, PollLoop, PollClose, ExecuteAndGather, WriteReturns,
                WriteFails, vars, balancerVars
  <2>5. CASE \/ CallbackEnter(p) \/ ReadMaxIndex(p) \/ ReadMinIndex(p) \/ CheckEmpty(p)
             \/ LookAtOldest(p) \/ RemoveOldest(p) \/ AddMoved(p)
    BY <2>5 DEF CallbackEnter, ReadMaxIndex, ReadMinIndex, CheckEmpty, LookAtOldest,
                RemoveOldest, AddMoved, vars, balancerVars
  <2> QED BY <1>4, <2>2, <2>3, <2>4, <2>5 DEF PollStep, CallbackStep
<1>5. CASE UNCHANGED fleetVars
  BY <1>5 DEF fleetVars, balancerVars, vars
<1> QED BY <1>1, <1>2, <1>3, <1>4, <1>5 DEF FleetNext, Dead

\* Every step of the fleet leaves each client in one place.
LEMMA FleetStepKeeps ==
  ASSUME TypeOK, FleetInv, [FleetNext]_fleetVars PROVE FleetInv'
<1>1. CASE PeerStep
  BY <1>1, PeerKeeps, AcceptKeeps DEF PeerStep
<1>2. CASE AcceptorStep
  BY <1>2, AcceptorPicksKeeps, AcceptorInsertsKeeps, AcceptorCountsKeeps
     DEF AcceptorStep
<1>3. CASE ScanStep
  BY <1>3, ScanStepKeeps
<1>4. CASE HealthStep
  BY <1>4, HealthClosesKeeps, HealthChecksKeeps DEF HealthStep
<1>5. ASSUME NEW p \in Indices, PollStep(p) \/ WriteFails(p) PROVE FleetInv'
  <2>1. CASE PollWait(p) \/ PollLoop(p) \/ PollClose(p)
    BY <2>1, PollWaitKeeps, PollLoopKeeps, PollCloseKeeps
  <2>2. CASE \E f \in Fds : CloseOne(p, f)
    BY <2>2, CloseOneKeeps
  <2>3. CASE Choosing(p)
    BY <2>3, ChoosingKeeps
  <2>4. CASE RemoveOldest(p) \/ DecMoved(p) \/ AddMoved(p) \/ CountMoved(p)
    BY <2>4, RemoveOldestKeeps, DecMovedKeeps, AddMovedKeeps, CountMovedKeeps
  <2>5. CASE Working(p)
    BY <2>5, WorkingKeeps
  <2> QED BY <1>5, <2>1, <2>2, <2>3, <2>4, <2>5
             DEF PollStep, CallbackStep, Choosing, Working
<1>6. CASE UNCHANGED fleetVars
  <2>1. /\ KernelType' /\ ClientsType' /\ SetsType' /\ ThreadsType' /\ OthersType'
        /\ TerminateKnown' /\ ChosenKnown' /\ ClientsPolled'
    BY <1>6 DEF fleetVars, balancerVars, kernelVars, clientVars, FleetInv, KernelType,
                ClientsType, SetsType, ThreadsType, OthersType, TerminateKnown,
                ChosenKnown, ClientsPolled, Registered
  <2>2. InOnePlace'
    BY <1>6, PlacesStay DEF fleetVars, balancerVars, kernelVars, clientVars, FleetInv,
                            Registered, InTransit
  <2> QED BY <2>1, <2>2 DEF FleetInv
<1> QED BY <1>1, <1>2, <1>3, <1>4, <1>5, <1>6 DEF FleetNext, Dead

LEMMA FleetNextInv == IInv /\ FleetInv /\ [FleetNext]_fleetVars => (IInv /\ FleetInv)'
<1> SUFFICES ASSUME IInv, FleetInv, [FleetNext]_fleetVars PROVE IInv' /\ FleetInv'
  OBVIOUS
<1>1. IInv'
  BY StepSimulation, NextIInv DEF FleetInv
<1>2. FleetInv'
  BY FleetStepKeeps DEF IInv
<1> QED BY <1>1, <1>2

\* Each descriptor of the fleet is in one place and every thread knows its clients,
\* whatever the order of the threads' steps.
THEOREM FleetInvariance == FleetSpec => [](IInv /\ FleetInv)
<1>1. FleetInit => IInv /\ FleetInv
  BY FleetInitInv
<1> QED BY <1>1, FleetNextInv, PTL DEF FleetSpec

\* All variables of main's threads and protocols hold values of their types.
THEOREM FleetTypesCorrect == FleetSpec => []FleetTypeOK
<1>1. FleetInv => FleetTypeOK
  <2> SUFFICES ASSUME FleetInv PROVE FleetTypeOK
    OBVIOUS
  <2>1. poll \in [Indices -> PollState]
    BY DEF FleetInv, ThreadsType, Thread
  <2> QED BY <2>1 DEF FleetInv, KernelType, ClientsType, SetsType, OthersType,
                      PollState, FleetTypeOK
<1> QED BY <1>1, FleetInvariance, PTL

\* The interest list of each protocol's EPoll holds all its clients, although
\* closing a descriptor takes it out of every list and moving a client does not.
THEOREM AllPolled == FleetSpec => []ClientsPolled
<1>1. FleetInv => ClientsPolled
  BY DEF FleetInv
<1> QED BY <1>1, FleetInvariance, PTL

\* What the acceptor, ClientInfos::close and downCallback do to the balancer is
\* what Priority allows.
THEOREM BalancerImplemented == FleetSpec => ImplementsPriority
<1>1. FleetInit => Init
  BY DEF FleetInit
<1>2. IInv /\ FleetInv /\ [FleetNext]_fleetVars => [Next]_vars
  BY StepSimulation DEF FleetInv
<1> QED BY <1>1, <1>2, FleetInvariance, PTL DEF FleetSpec, ImplementsPriority, Spec

\* So minIdx and maxIdx are right whenever a thread of the fleet may read them, and
\* new clients are spread evenly as long as none was closed.
COROLLARY FleetBalanced == FleetSpec => [](IndicesExtreme /\ Balanced)
  BY BalancerImplemented, ExtremesFound, StaysBalanced, PTL DEF ImplementsPriority

(***************************************************************************)
(* Every open descriptor has one home.                                      *)
(***************************************************************************)
\* A set that at most one element is in.
LEMMA AtMostOne ==
  ASSUME NEW S, \A x, y \in S : x = y
  PROVE  Cardinality(S) = IF S = {} THEN 0 ELSE 1
<1>1. CASE S = {}
  BY <1>1, FS_EmptySet
<1>2. CASE S # {}
  <2>1. PICK x \in S : S = {x}
    BY <1>2
  <2>2. Cardinality({x}) = 1
    BY FS_Singleton
  <2> QED BY <1>2, <2>1, <2>2
<1> QED BY <1>1, <1>2

\* accept, insert, erase and close, in whatever threads, leave every open descriptor
\* to exactly one protocol, one thread that moves it, or the acceptor.
THEOREM EachHasOneHome == FleetSpec => []OneHome
<1>1. FleetInv => OneHome
  <2> SUFFICES ASSUME FleetInv, NEW f \in Fds
               PROVE  LET homes == {p \in Indices : f \in Registered(p)}
                          movers == {p \in Indices : InTransit(p) /\ poll[p].moved = f}
                          child == {i \in {Count} : main.pc \in {"next", "insert"}
                                                      /\ main.child = f}
                      IN Cardinality(homes) + Cardinality(movers) + Cardinality(child)
                           = IF fdOwner[f] = None THEN 0 ELSE 1
    BY DEF OneHome
  <2> DEFINE homes == {p \in Indices : f \in Registered(p)}
             movers == {p \in Indices : InTransit(p) /\ poll[p].moved = f}
             child == {i \in {Count} : main.pc \in {"next", "insert"} /\ main.child = f}
  <2>1. (fdOwner[f] # None <=> Placed(f)) /\ PlacedOnce(f)
    BY DEF FleetInv, InOnePlace
  <2>2. /\ movers = {p \in Indices : OnTheWay(p, f)}
        /\ child = {i \in {Count} : WithAcceptor(f)}
    BY DEF OnTheWay, WithAcceptor
  <2> HIDE DEF movers, child, Registered, OnTheWay, WithAcceptor
  <2>3. /\ Cardinality(homes) = IF homes = {} THEN 0 ELSE 1
        /\ Cardinality(movers) = IF movers = {} THEN 0 ELSE 1
        /\ Cardinality(child) = IF child = {} THEN 0 ELSE 1
    <3>1. \A p, q \in homes : p = q
      BY <2>1 DEF PlacedOnce
    <3>2. \A p, q \in movers : p = q
      BY <2>1, <2>2 DEF PlacedOnce
    <3>3. \A p, q \in child : p = q
      BY <2>2
    <3> HIDE DEF homes
    <3> QED BY <3>1, <3>2, <3>3, AtMostOne
  <2>4. /\ child # {} => homes = {} /\ movers = {}
        /\ homes # {} => movers = {}
    BY <2>1, <2>2 DEF PlacedOnce
  <2>5. fdOwner[f] # None <=> homes # {} \/ movers # {} \/ child # {}
    BY <2>1, <2>2 DEF Placed
  <2> HIDE DEF homes
  <2>6. Cardinality(homes) + Cardinality(movers) + Cardinality(child)
          = IF fdOwner[f] = None THEN 0 ELSE 1
    BY <2>3, <2>4, <2>5
  <2> QED BY <2>6, Zenon DEF homes, movers, child
<1> QED BY <1>1, FleetInvariance, PTL

(***************************************************************************)
(* A warning goes where its client goes.                                    *)
(***************************************************************************)
WarnedIn(p, f) == f \in Registered(p) /\ clientInfos[p][f]
WarnedMoving(p, f) == OnTheWay(p, f) /\ poll[p].flag

KeepsWarning(f) ==
  Warned(f) /\ fdOwner'[f] = fdOwner[f] => Warned(f)' \/ ReadFrom(f)

LEMMA WarnedSomewhere ==
  ASSUME NEW f
  PROVE  Warned(f) <=> \E p \in Indices : WarnedIn(p, f) \/ WarnedMoving(p, f)
  BY DEF Warned, WarnedIn, WarnedMoving, OnTheWay

\* A thread that has no client on the way does not lose the warning of one.
LEMMA OthersKeepMoving ==
  ASSUME NEW p \in Indices, Goes(p, Elsewhere, Elsewhere), NEW f, NEW q \in Indices,
         WarnedMoving(q, f)
  PROVE  WarnedMoving(q, f)'
  BY DEF Goes, Elsewhere, WarnedMoving, OnTheWay, InTransit

\* Steps that leave the clients alone.
LEMMA ClientsAloneKeepWarning ==
  ASSUME NEW f \in Fds, clientInfos' = clientInfos,
         \A q \in Indices : WarnedMoving(q, f) => WarnedMoving(q, f)'
  PROVE  KeepsWarning(f)
<1>1. \A q \in Indices : WarnedIn(q, f)' <=> WarnedIn(q, f)
  BY DEF WarnedIn, Registered
<1>2. Warned(f)' <=> \E q \in Indices : WarnedIn(q, f)' \/ WarnedMoving(q, f)'
  BY DEF Warned, WarnedIn, WarnedMoving, OnTheWay
<1> QED BY <1>1, <1>2, WarnedSomewhere DEF KeepsWarning

\* OnReadPoll resets the flag of those it reads from, and of nobody else.
LEMMA PollLoopKeepsWarning ==
  ASSUME FleetInv, NEW p \in Indices, PollLoop(p), NEW f \in Fds PROVE KeepsWarning(f)
<1>1. Goes(p, {"loop"}, {"work", "close"})
  BY PollLoopGoes DEF FleetInv
<1>2. PICK reset \in SUBSET (poll[p].in \ poll'[p].terminate) :
        clientInfos' = [clientInfos EXCEPT ![p] =
                          [g \in Registered(p) |-> @[g] /\ g \notin reset]]
  BY ResetStays DEF FleetInv
<1>3. CASE f \in reset
  BY <1>1, <1>3 DEF Goes, KeepsWarning, ReadFrom
<1>4. CASE f \notin reset
  <2>1. /\ clientInfos'[p] = [g \in Registered(p) |-> clientInfos[p][g] /\ g \notin reset]
        /\ \A q \in Indices \ {p} : clientInfos'[q] = clientInfos[q]
    BY <1>2 DEF FleetInv, ClientsType
  <2>2. \A q \in Indices : WarnedIn(q, f) => WarnedIn(q, f)'
    BY <1>4, <2>1 DEF WarnedIn, Registered
  <2>3. \A q \in Indices : WarnedMoving(q, f) => WarnedMoving(q, f)'
    BY <1>1, OthersKeepMoving DEF Goes, Elsewhere
  <2>4. Warned(f)' <=> \E q \in Indices : WarnedIn(q, f)' \/ WarnedMoving(q, f)'
    BY DEF Warned, WarnedIn, WarnedMoving, OnTheWay
  <2> QED BY <2>2, <2>3, <2>4, WarnedSomewhere DEF KeepsWarning
<1> QED BY <1>3, <1>4

\* ExecHealthCheck only adds warnings.
LEMMA HealthChecksKeepsWarning ==
  ASSUME FleetInv, NEW old \in SUBSET Sockets, HealthChecks(old), NEW f \in Fds
  PROVE  KeepsWarning(f)
<1>1. PICK p \in Indices, warned \in SUBSET Sockets :
        clientInfos' = [clientInfos EXCEPT ![p] =
                          [g \in Registered(p) |-> @[g] \/ g \in warned]]
  <2>1. health.at \in Indices
    BY CountAssumption DEF HealthChecks, FleetInv, OthersType, Indices
  <2> QED BY <2>1 DEF HealthChecks
<1>2. /\ clientInfos'[p] = [g \in Registered(p) |-> clientInfos[p][g] \/ g \in warned]
      /\ \A q \in Indices \ {p} : clientInfos'[q] = clientInfos[q]
  BY <1>1 DEF FleetInv, ClientsType
<1>3. \A q \in Indices : WarnedIn(q, f) => WarnedIn(q, f)'
  BY <1>2 DEF WarnedIn, Registered
<1>4. \A q \in Indices : WarnedMoving(q, f)' <=> WarnedMoving(q, f)
  BY DEF HealthChecks, healthFrame, WarnedMoving, OnTheWay, InTransit
<1>5. Warned(f)' <=> \E q \in Indices : WarnedIn(q, f)' \/ WarnedMoving(q, f)'
  BY DEF Warned, WarnedIn, WarnedMoving, OnTheWay
<1> QED BY <1>3, <1>4, <1>5, WarnedSomewhere DEF KeepsWarning

\* An insert that finds the client there keeps it as it is.
LEMMA InsertedKeepsWarning ==
  ASSUME FleetInv, NEW p \in Indices, NEW g \in Sockets, NEW flag \in BOOLEAN,
         clientInfos' = Inserted(p, g, flag), NEW f \in Fds
  PROVE  /\ \A q \in Indices : WarnedIn(q, f) => WarnedIn(q, f)'
         /\ g = f /\ f \notin Registered(p) /\ flag => WarnedIn(p, f)'
<1>1. /\ clientInfos'[p] = [h \in Registered(p) \cup {g} |->
                              IF h \in Registered(p) THEN clientInfos[p][h] ELSE flag]
      /\ \A q \in Indices \ {p} : clientInfos'[q] = clientInfos[q]
  BY DEF FleetInv, ClientsType, Inserted
<1> QED BY <1>1 DEF WarnedIn, Registered

LEMMA AcceptorInsertsKeepsWarning ==
  ASSUME FleetInv, AcceptorInserts, NEW f \in Fds PROVE KeepsWarning(f)
<1>1. chosen \in Indices /\ main.child \in Sockets
  BY DEF AcceptorInserts, FleetInv, ChosenKnown, OthersType
<1>2. \A q \in Indices : WarnedIn(q, f) => WarnedIn(q, f)'
  BY <1>1, InsertedKeepsWarning DEF AcceptorInserts
<1>3. \A q \in Indices : WarnedMoving(q, f)' <=> WarnedMoving(q, f)
  BY DEF AcceptorInserts, WarnedMoving, OnTheWay, InTransit
<1>4. Warned(f)' <=> \E q \in Indices : WarnedIn(q, f)' \/ WarnedMoving(q, f)'
  BY DEF Warned, WarnedIn, WarnedMoving, OnTheWay
<1> QED BY <1>2, <1>3, <1>4, WarnedSomewhere DEF KeepsWarning

\* Closing a client takes its own warning only, and that descriptor is closed.
LEMMA CloseOneKeepsWarning ==
  ASSUME FleetInv, NEW p \in Indices, NEW g \in Fds, CloseOne(p, g), NEW f \in Fds
  PROVE  KeepsWarning(f)
<1>1. Goes(p, {"closing"}, {"closing", "callback"})
  BY CloseOneGoes DEF FleetInv
<1>2. /\ poll[p].pc = "closing" /\ g \in poll[p].terminate
      /\ clientInfos' = [clientInfos EXCEPT ![p] = Without(p, g)]
      /\ fdOwner' = [fdOwner EXCEPT ![g] = None]
  BY DEF CloseOne
<1>3. CASE g = f
  <2>1. f \in Registered(p)
    BY <1>2, <1>3 DEF FleetInv, TerminateKnown
  <2>2. fdOwner[f] # None
    BY <2>1 DEF FleetInv, InOnePlace, Placed
  <2>3. fdOwner'[f] = None
    BY <1>2, <1>3 DEF FleetInv, KernelType
  <2> QED BY <2>2, <2>3 DEF KeepsWarning
<1>4. CASE g # f
  <2>1. /\ clientInfos'[p] = [h \in Registered(p) \ {g} |-> clientInfos[p][h]]
        /\ \A q \in Indices \ {p} : clientInfos'[q] = clientInfos[q]
    BY <1>2 DEF FleetInv, ClientsType, Without
  <2>2. \A q \in Indices : WarnedIn(q, f) => WarnedIn(q, f)'
    BY <1>4, <2>1 DEF WarnedIn, Registered
  <2>3. \A q \in Indices : WarnedMoving(q, f) => WarnedMoving(q, f)'
    BY <1>1, OthersKeepMoving DEF Goes, Elsewhere
  <2>4. Warned(f)' <=> \E q \in Indices : WarnedIn(q, f)' \/ WarnedMoving(q, f)'
    BY DEF Warned, WarnedIn, WarnedMoving, OnTheWay
  <2> QED BY <2>2, <2>3, <2>4, WarnedSomewhere DEF KeepsWarning
<1> QED BY <1>3, <1>4

\* RemoveOldestClientAndReturn returns the client with its flag, ...
LEMMA RemoveOldestKeepsWarning ==
  ASSUME FleetInv, NEW p \in Indices, RemoveOldest(p), NEW f \in Fds
  PROVE  KeepsWarning(f)
<1>1. PICK from \in Indices : from = poll[p].maxIdx
  BY DEF FleetInv, ThreadsType, Thread, PollState
<1>2. PICK g \in Sockets :
        g = IF Registered(from) # {} THEN OldestIn(from) ELSE NoSocket
  BY OldestIsRegistered DEF FleetInv, Sockets
<1>3. /\ Goes(p, {"remove"}, {"dec"}) /\ poll'[p].moved = g
      /\ poll'[p].flag = (Registered(from) # {} /\ clientInfos[from][OldestIn(from)])
  BY <1>1, <1>2, RemoveOldestGoes DEF FleetInv
<1>4. clientInfos' = [clientInfos EXCEPT ![from] = Without(from, g)]
  BY <1>1, <1>2 DEF RemoveOldest
<1>5. /\ clientInfos'[from] = [h \in Registered(from) \ {g} |-> clientInfos[from][h]]
      /\ \A q \in Indices \ {from} : clientInfos'[q] = clientInfos[q]
  BY <1>4 DEF FleetInv, ClientsType, Without
<1>6. \A q \in Indices :
        WarnedIn(q, f) => WarnedIn(q, f)' \/ (q = from /\ g = f)
  BY <1>5 DEF WarnedIn, Registered
<1>7. g = f /\ WarnedIn(from, f) => WarnedMoving(p, f)'
  BY <1>2, <1>3 DEF WarnedIn, WarnedMoving, OnTheWay, InTransit, Goes
<1>8. \A q \in Indices : WarnedMoving(q, f) => WarnedMoving(q, f)'
  BY <1>3 DEF Goes, WarnedMoving, OnTheWay, InTransit
<1>9. Warned(f)' <=> \E q \in Indices : WarnedIn(q, f)' \/ WarnedMoving(q, f)'
  BY DEF Warned, WarnedIn, WarnedMoving, OnTheWay
<1> QED BY <1>6, <1>7, <1>8, <1>9, WarnedSomewhere DEF KeepsWarning

\* ... and Add inserts it with that flag: nobody registered the descriptor meanwhile.
LEMMA AddMovedKeepsWarning ==
  ASSUME FleetInv, NEW p \in Indices, AddMoved(p), NEW f \in Fds PROVE KeepsWarning(f)
<1>1. PICK to \in Indices, g \in Sockets, flag \in BOOLEAN :
        to = poll[p].minIdx /\ g = poll[p].moved /\ flag = poll[p].flag
  BY DEF FleetInv, ThreadsType, Thread, PollState
<1>2. /\ poll[p].pc = "add" /\ GoesOn(p, "inc")
      /\ clientInfos' = Inserted(to, g, flag)
  BY <1>1 DEF AddMoved
<1>3. Goes(p, {"add"}, {"inc"})
  BY <1>2, PcGoes DEF FleetInv, GoesOn, Counting
<1>4. /\ \A q \in Indices : WarnedIn(q, f) => WarnedIn(q, f)'
      /\ g = f /\ f \notin Registered(to) /\ flag => WarnedIn(to, f)'
  BY <1>2, InsertedKeepsWarning
<1>5. OnTheWay(p, f) => f \notin Registered(to)
  BY DEF FleetInv, InOnePlace, PlacedOnce
<1>6. WarnedMoving(p, f) => WarnedIn(to, f)'
  BY <1>1, <1>4, <1>5 DEF WarnedMoving, OnTheWay
<1>7. \A q \in Indices \ {p} : WarnedMoving(q, f) => WarnedMoving(q, f)'
  BY <1>3 DEF Goes, WarnedMoving, OnTheWay, InTransit
<1>8. Warned(f)' <=> \E q \in Indices : WarnedIn(q, f)' \/ WarnedMoving(q, f)'
  BY DEF Warned, WarnedIn, WarnedMoving, OnTheWay
<1> QED BY <1>4, <1>6, <1>7, <1>8, WarnedSomewhere DEF KeepsWarning

\* All other steps of a thread.
LEMMA ThreadKeepsWarning ==
  ASSUME TypeOK, FleetInv, NEW p \in Indices, NEW f \in Fds,
         \/ PollWait(p) \/ PollClose(p) \/ Choosing(p) \/ CountMoved(p) \/ Working(p)
         \/ DecMoved(p)
  PROVE  KeepsWarning(f)
<1>1. clientInfos' = clientInfos
  BY DEF PollWait, PollClose, Choosing, CallbackEnter, ReadMaxIndex, ReadMinIndex,
         CheckEmpty, LookAtOldest, CountMoved, StampMoved, Working, ExecuteAndGather,
         WriteReturns, WriteFails, DecMoved, clientVars
<1>2. CASE DecMoved(p)
  <2>1. /\ Goes(p, {"dec"}, {"add"})
        /\ poll'[p].moved = poll[p].moved /\ poll'[p].flag = poll[p].flag
    BY <1>2, PcGoes DEF FleetInv, DecMoved, GoesOn, Counting
  <2>2. \A q \in Indices : WarnedMoving(q, f) => WarnedMoving(q, f)'
    BY <2>1 DEF Goes, WarnedMoving, OnTheWay, InTransit
  <2> QED BY <1>1, <2>2, ClientsAloneKeepWarning
<1>3. CASE ~ DecMoved(p)
  <2>1. \/ Goes(p, {"wait"}, {"loop"}) \/ Goes(p, {"close"}, {"work", "closing"})
        \/ Goes(p, {"callback", "max", "min", "empty", "oldest"},
                   {"max", "min", "empty", "oldest", "remove", "work"})
        \/ Goes(p, {"inc"}, {"callback", "work"})
        \/ Goes(p, {"work", "write"}, {"wait", "write"})
    BY <1>3, PollWaitGoes, PollCloseGoes, ChoosingGoes, CountMovedGoes, WorkGoes
       DEF FleetInv, TypeOK, Working
  <2>2. Goes(p, Elsewhere, Elsewhere)
    BY <2>1 DEF Goes, Elsewhere
  <2> QED BY <1>1, <2>2, OthersKeepMoving, ClientsAloneKeepWarning
<1> QED BY <1>2, <1>3

LEMMA StepKeepsWarning ==
  ASSUME TypeOK, FleetInv, [FleetNext]_fleetVars, NEW f \in Fds PROVE KeepsWarning(f)
<1>1. CASE PeerStep \/ AcceptorPicks \/ AcceptorCounts \/ ScanStep \/ HealthCloses
           \/ UNCHANGED fleetVars
  <2>1. clientInfos' = clientInfos /\ poll' = poll
    BY <1>1 DEF PeerStep, PeerStalls, PeerCloses, Accept, AcceptorPicks, AcceptorCounts,
                ScanStep, HealthCloses, healthFrame, clientVars, fleetVars
  <2> QED BY <2>1, ClientsAloneKeepWarning DEF WarnedMoving, OnTheWay, InTransit
<1>2. CASE AcceptorInserts
  BY <1>2, AcceptorInsertsKeepsWarning
<1>3. CASE \E old \in SUBSET Sockets : HealthChecks(old)
  BY <1>3, HealthChecksKeepsWarning
<1>4. ASSUME NEW p \in Indices, PollStep(p) \/ WriteFails(p) PROVE KeepsWarning(f)
  BY <1>4, PollLoopKeepsWarning, CloseOneKeepsWarning, RemoveOldestKeepsWarning,
     AddMovedKeepsWarning, ThreadKeepsWarning
     DEF PollStep, CallbackStep, Choosing, Working
<1> QED BY <1>1, <1>2, <1>3, <1>4 DEF FleetNext, AcceptorStep, HealthStep, Dead

\* A client the health check told that it will be ended stays so wherever
\* downCallback moves it, until a thread reads from it or it is closed.
THEOREM MovingKeepsWarning == FleetSpec => WarningKept
<1>1. IInv /\ FleetInv /\ [FleetNext]_fleetVars
        => [\A f \in Fds :
              Warned(f) /\ fdOwner'[f] = fdOwner[f] => Warned(f)' \/ ReadFrom(f)]_fleetVars
  BY StepKeepsWarning DEF IInv, KeepsWarning
<1> QED BY <1>1, FleetInvariance, PTL DEF FleetSpec, WarningKept

(***************************************************************************)
(* The loads of all protocols cover the clients of all protocols.           *)
(***************************************************************************)
\* Each client of each protocol, and each unit of load of each protocol.
Clients == {r \in Indices \X Fds : r[2] \in Registered(r[1])}
LoadOf(loads) == UNION {{p} \X (1 .. loads[p]) : p \in Indices}

\* A thread that has a client in its hands; one that took a client off one load
\* and has not counted it on the other; an acceptor that has not counted yet.
Movers == {p \in Indices : InTransit(p) /\ poll[p].moved \in Fds}
Uncounted == {p \in Indices : poll[p].pc \in {"add", "inc"}}
AcceptorOwes == IF main.pc = "inc" THEN 1 ELSE 0

\* The clients that some load has to show already.
Owed == Cardinality(Clients) + Cardinality(Movers) - Cardinality(Uncounted) - AcceptorOwes

\* The inductive form of LoadCoversFleet: it also counts a client in a thread's hands,
\* which is registered nowhere until it is added.
OwedIsCovered == Weight * Owed <= Cardinality(LoadOf(sizes))

LEMMA IndicesFinite == IsFiniteSet(Indices)
  BY CountAssumption, FS_Interval DEF Indices

LEMMA OwedType ==
  ASSUME FleetInv
  PROVE  /\ IsFiniteSet(Clients) /\ IsFiniteSet(Movers) /\ IsFiniteSet(Uncounted)
         /\ Cardinality(Clients) \in Nat /\ Cardinality(Movers) \in Nat
         /\ Cardinality(Uncounted) \in Nat /\ AcceptorOwes \in {0, 1} /\ Owed \in Int
<1>1. IsFiniteSet(Indices \X Fds)
  BY IndicesFinite, FdsAssumption, FS_Product
<1>2. Clients \in SUBSET (Indices \X Fds) /\ Movers \in SUBSET Indices
      /\ Uncounted \in SUBSET Indices
  BY DEF Clients, Movers, Uncounted
<1>3. IsFiniteSet(Clients) /\ IsFiniteSet(Movers) /\ IsFiniteSet(Uncounted)
  BY <1>1, <1>2, IndicesFinite, FS_Subset
<1>4. /\ Cardinality(Clients) \in Nat /\ Cardinality(Movers) \in Nat
      /\ Cardinality(Uncounted) \in Nat
  BY <1>3, FS_CardinalityType
<1>5. AcceptorOwes \in {0, 1}
  BY DEF AcceptorOwes
<1> QED BY <1>3, <1>4, <1>5 DEF Owed

\* All of them are numbers, before a step and after it.
CountsType == /\ Owed \in Int /\ Cardinality(Clients) \in Nat
              /\ Cardinality(Movers) \in Nat /\ Cardinality(Uncounted) \in Nat
              /\ AcceptorOwes \in {0, 1}

LEMMA CountsTyped == FleetInv => CountsType
  BY OwedType DEF CountsType

\* The units of load are finitely many.
LEMMA LoadFinite ==
  ASSUME NEW loads \in [Indices -> Nat]
  PROVE  IsFiniteSet(LoadOf(loads)) /\ Cardinality(LoadOf(loads)) \in Nat
<1> DEFINE units == [p \in Indices |-> {p} \X (1 .. loads[p])]
           all == {{p} \X (1 .. loads[p]) : p \in Indices}
<1>1. units \in Surjection(Indices, all)
  <2>1. units \in [Indices -> all]
    OBVIOUS
  <2>2. \A T \in all : \E p \in Indices : units[p] = T
    OBVIOUS
  <2> HIDE DEF units, all
  <2> QED BY <2>1, <2>2 DEF Surjection
<1>2. IsFiniteSet(all)
  <2> HIDE DEF units, all
  <2> QED BY <1>1, IndicesFinite, FS_Surjection
<1>3. ASSUME NEW p \in Indices PROVE IsFiniteSet({p} \X (1 .. loads[p]))
  <2>1. loads[p] \in Int /\ 1 \in Int
    OBVIOUS
  <2>2. IsFiniteSet(1 .. loads[p]) /\ IsFiniteSet({p})
    BY <2>1, FS_Interval, FS_Singleton
  <2> QED BY <2>2, FS_Product
<1>4. \A T \in all : IsFiniteSet(T)
  BY <1>3
<1>5. IsFiniteSet(UNION all)
  <2> HIDE DEF all
  <2> QED BY <1>2, <1>4, FS_UNION
<1>6. IsFiniteSet(LoadOf(loads))
  BY <1>5 DEF LoadOf
<1> QED BY <1>6, FS_CardinalityType

\* A load that grows by some units adds as many to the whole.
LEMMA LoadGrows ==
  ASSUME NEW loads \in [Indices -> Nat], NEW i \in Indices, NEW w \in Nat,
         NEW grown \in [Indices -> Nat], grown[i] = loads[i] + w,
         \A p \in Indices \ {i} : grown[p] = loads[p]
  PROVE  Cardinality(LoadOf(grown)) = Cardinality(LoadOf(loads)) + w
<1> DEFINE more == {i} \X (loads[i] + 1 .. loads[i] + w)
<1>1. loads[i] \in Nat
  OBVIOUS
<1>2. IsFiniteSet(more) /\ Cardinality(more) = w
  <2>1. /\ IsFiniteSet({i}) /\ Cardinality({i}) = 1
        /\ IsFiniteSet(loads[i] + 1 .. loads[i] + w)
        /\ Cardinality(loads[i] + 1 .. loads[i] + w) = w
    <3> DEFINE a == loads[i] + 1
               b == loads[i] + w
    <3>1. /\ a \in Int /\ b \in Int
          /\ w = IF a > b THEN 0 ELSE b - a + 1
      BY <1>1
    <3> HIDE DEF a, b
    <3>2. IsFiniteSet(a .. b) /\ Cardinality(a .. b) = w
      BY <3>1, FS_Interval
    <3> QED BY <3>2, FS_Singleton DEF a, b
  <2>2. Cardinality(more) = 1 * w /\ IsFiniteSet(more)
    BY <2>1, FS_Product
  <2> QED BY <2>2
<1>3. LoadOf(grown) = LoadOf(loads) \cup more
  <2>1. \A r : r \in LoadOf(grown) <=> \E p \in Indices : r \in {p} \X (1 .. grown[p])
    BY DEF LoadOf
  <2>2. \A r : r \in LoadOf(loads) <=> \E p \in Indices : r \in {p} \X (1 .. loads[p])
    BY DEF LoadOf
  <2>3. {i} \X (1 .. grown[i]) = ({i} \X (1 .. loads[i])) \cup more
    BY <1>1
  <2>4. \A p \in Indices \ {i} : {p} \X (1 .. grown[p]) = {p} \X (1 .. loads[p])
    OBVIOUS
  <2> HIDE DEF more
  <2> QED BY <2>1, <2>2, <2>3, <2>4
<1>4. LoadOf(loads) \cap more = {}
  <2> SUFFICES ASSUME NEW p \in Indices, NEW r \in {p} \X (1 .. loads[p]), r \in more
               PROVE  FALSE
    BY DEF LoadOf
  <2>1. r[1] = p /\ r[2] \in 1 .. loads[p] /\ r[1] = i
        /\ r[2] \in loads[i] + 1 .. loads[i] + w
    OBVIOUS
  <2> QED BY <1>1, <2>1
<1>5. /\ IsFiniteSet(LoadOf(loads)) /\ Cardinality(LoadOf(loads)) \in Nat
      /\ Cardinality(LoadOf(loads) \cap more) = 0
  BY <1>4, LoadFinite, FS_EmptySet
<1> HIDE DEF more
<1>6. Cardinality(LoadOf(loads) \cup more)
        = Cardinality(LoadOf(loads)) + Cardinality(more) - Cardinality(LoadOf(loads) \cap more)
  BY <1>2, <1>5, FS_Union
<1> QED BY <1>2, <1>3, <1>5, <1>6

\* incPriority adds what a client counts for; decPriority takes that off, or nothing.
LEMMA LoadIncreased ==
  ASSUME TypeOK, NEW i \in Indices, sizes' = Increased(i)
  PROVE  /\ sizes' \in [Indices -> Nat]
         /\ Cardinality(LoadOf(sizes)') = Cardinality(LoadOf(sizes)) + Weight
<1>1. /\ sizes \in [Indices -> Nat] /\ sizes' \in [Indices -> Nat]
      /\ sizes'[i] = sizes[i] + Weight /\ \A p \in Indices \ {i} : sizes'[p] = sizes[p]
  BY WeightAssumption DEF TypeOK, Increased
<1>2. Cardinality(LoadOf(sizes')) = Cardinality(LoadOf(sizes)) + Weight
  BY <1>1, WeightAssumption, LoadGrows
<1> QED BY <1>1, <1>2 DEF LoadOf

LEMMA LoadDecreased ==
  ASSUME TypeOK, NEW i \in Indices, sizes' = Decreased(i)
  PROVE  /\ sizes' \in [Indices -> Nat]
         /\ Cardinality(LoadOf(sizes)') >= Cardinality(LoadOf(sizes)) - Weight
<1>1. sizes \in [Indices -> Nat] /\ sizes[i] \in Nat /\ Weight \in Nat
  BY WeightAssumption DEF TypeOK
<1>2. Cardinality(LoadOf(sizes)) \in Nat
  BY <1>1, LoadFinite
<1>3. CASE sizes[i] >= Weight
  <2>1. /\ sizes' \in [Indices -> Nat]
        /\ sizes[i] = sizes'[i] + Weight /\ \A p \in Indices \ {i} : sizes[p] = sizes'[p]
    BY <1>1, <1>3 DEF Decreased
  <2>2. Cardinality(LoadOf(sizes)) = Cardinality(LoadOf(sizes')) + Weight
    BY <1>1, <2>1, LoadGrows
  <2>3. Cardinality(LoadOf(sizes')) \in Nat
    BY <2>1, LoadFinite
  <2>4. Cardinality(LoadOf(sizes')) >= Cardinality(LoadOf(sizes)) - Weight
    BY <1>1, <2>2, <2>3
  <2> QED BY <2>1, <2>4 DEF LoadOf
<1>4. CASE ~ (sizes[i] >= Weight)
  <2>1. sizes' = sizes
    BY <1>4 DEF Decreased
  <2>2. LoadOf(sizes)' = LoadOf(sizes)
    BY <2>1 DEF LoadOf
  <2> QED BY <1>1, <1>2, <2>1, <2>2
<1> QED BY <1>3, <1>4

\* When what is owed grows by b clients at most, and the loads by b at least (b
\* negative: when they shrink), the loads still cover it.
LEMMA OwedShifts ==
  ASSUME FleetInv, CountsType', TypeOK, OwedIsCovered, NEW b \in {-1, 0, 1},
         Owed' <= Owed + b, sizes' \in [Indices -> Nat],
         Cardinality(LoadOf(sizes)') >= Cardinality(LoadOf(sizes)) + Weight * b
  PROVE  OwedIsCovered'
<1>1. Owed \in Int /\ Weight \in Nat
  BY OwedType, WeightAssumption
<1>2. Owed' \in Int
  BY DEF CountsType
<1>3. Cardinality(LoadOf(sizes)) \in Nat
  BY LoadFinite DEF TypeOK
<1>4. Cardinality(LoadOf(sizes)') \in Nat
  <2>1. Cardinality(LoadOf(sizes')) \in Nat
    BY LoadFinite
  <2> QED BY <2>1 DEF LoadOf
<1> DEFINE d == Owed
           e == Owed'
           l == Cardinality(LoadOf(sizes))
           m == Cardinality(LoadOf(sizes)')
<1>5. Weight * d <= l
  BY DEF OwedIsCovered
<1>6. d \in Int /\ e \in Int /\ l \in Nat /\ m \in Nat /\ e <= d + b
      /\ m >= l + Weight * b
  BY <1>1, <1>2, <1>3, <1>4
<1>7. Weight * e <= m
  <2> HIDE DEF d, e, l, m
  <2>1. Weight * e <= Weight * (d + b)
    <3>1. d + b - e \in Nat
      BY <1>6
    <3>2. Weight * (d + b - e) \in Nat
      BY <1>1, <3>1
    <3>3. Weight * (d + b - e) = Weight * (d + b) - Weight * e
      BY <1>1, <1>6
    <3> QED BY <1>1, <1>6, <3>2, <3>3
  <2>2. Weight * (d + b) = Weight * d + Weight * b
    BY <1>1, <1>6
  <2> QED BY <1>1, <1>5, <1>6, <2>1, <2>2
<1> QED BY <1>7 DEF OwedIsCovered

\* A step after which as much is owed as before.
LEMMA OwedStays ==
  ASSUME OwedIsCovered, sizes' = sizes, AcceptorOwes' = AcceptorOwes,
         Clients' = Clients, Movers' = Movers, Uncounted' = Uncounted
  PROVE  OwedIsCovered'
  BY DEF OwedIsCovered, Owed, LoadOf

\* What a thread does leaves it to the others what they hold and owe.
LEMMA OthersHold ==
  ASSUME NEW p \in Indices, NEW from, NEW to, Goes(p, from, to)
  PROVE  /\ Movers' \ {p} = Movers \ {p} /\ Uncounted' \ {p} = Uncounted \ {p}
         /\ Movers \subseteq Indices /\ Uncounted \subseteq Indices
  BY DEF Goes, Movers, Uncounted, InTransit

LEMMA ClientsStay ==
  ASSUME \A q \in Indices : Registered(q)' = Registered(q) PROVE Clients' = Clients
  BY DEF Clients

\* The steps of a thread that neither hold a client nor owe a count.
Quiet == Elsewhere \ {"inc"}

LEMMA QuietCovers ==
  ASSUME OwedIsCovered, NEW p \in Indices, Goes(p, Quiet, Quiet),
         UNCHANGED <<sizes, main>>, \A q \in Indices : Registered(q)' = Registered(q)
  PROVE  OwedIsCovered'
<1>1. Movers' = Movers /\ Uncounted' = Uncounted
  BY DEF Goes, Movers, Uncounted, InTransit, Quiet, Elsewhere
<1>2. AcceptorOwes' = AcceptorOwes
  BY DEF AcceptorOwes
<1> QED BY <1>1, <1>2, ClientsStay, OwedStays

\* The environment, the health check, accept, NextIndex and the scan.
LEMMA FrameCovers ==
  ASSUME OwedIsCovered, UNCHANGED <<sizes, poll>>,
         main'.pc = "inc" <=> main.pc = "inc",
         \A q \in Indices : Registered(q)' = Registered(q)
  PROVE  OwedIsCovered'
<1>1. Movers' = Movers /\ Uncounted' = Uncounted
  BY DEF Movers, Uncounted, InTransit
<1>2. AcceptorOwes' = AcceptorOwes
  BY DEF AcceptorOwes
<1> QED BY <1>1, <1>2, ClientsStay, OwedStays

\* One client more, or the same; one client less.
LEMMA ClientComes ==
  ASSUME FleetInv, NEW p \in Indices, NEW f, Registered(p)' = Registered(p) \cup {f},
         \A q \in Indices \ {p} : Registered(q)' = Registered(q),
         CountsType'
  PROVE  Cardinality(Clients') <= Cardinality(Clients) + IF f \in Fds THEN 1 ELSE 0
<1>1. IsFiniteSet(Clients) /\ Cardinality(Clients) \in Nat
  BY OwedType
<1>2. CASE f \in Fds
  <2> DEFINE more == Clients \cup {<<p, f>>}
  <2>1. Clients' = more
    <3> HIDE DEF Registered
    <3> QED BY <1>2 DEF Clients
  <2>2. Cardinality(more) \in {Cardinality(Clients), Cardinality(Clients) + 1}
    BY <1>1, FS_AddElement
  <2> HIDE DEF more
  <2> QED BY <1>1, <1>2, <2>1, <2>2 DEF CountsType
<1>3. CASE f \notin Fds
  <2>1. Clients' = Clients
    <3> HIDE DEF Registered
    <3> QED BY <1>3 DEF Clients
  <2> QED BY <1>1, <1>3, <2>1
<1> QED BY <1>2, <1>3

LEMMA ClientGoes ==
  ASSUME FleetInv, NEW p \in Indices, NEW f, Registered(p)' = Registered(p) \ {f},
         \A q \in Indices \ {p} : Registered(q)' = Registered(q),
         f \in Fds => f \in Registered(p)
  PROVE  Cardinality(Clients') = Cardinality(Clients) - IF f \in Fds THEN 1 ELSE 0
<1>1. IsFiniteSet(Clients) /\ Cardinality(Clients) \in Nat
  BY OwedType
<1>2. CASE f \in Fds
  <2> DEFINE less == Clients \ {<<p, f>>}
  <2>1. Clients' = less /\ <<p, f>> \in Clients
    <3> HIDE DEF Registered
    <3> QED BY <1>2 DEF Clients
  <2>2. Cardinality(less) = Cardinality(Clients) - 1
    BY <1>1, <2>1, FS_RemoveElement
  <2> HIDE DEF less
  <2> QED BY <1>2, <2>1, <2>2
<1>3. CASE f \notin Fds
  <2>1. Clients' = Clients
    <3> HIDE DEF Registered
    <3> QED BY <1>3 DEF Clients
  <2> QED BY <1>1, <1>3, <2>1
<1> QED BY <1>2, <1>3

\* The acceptor: a client more, and a count it owes; then the count.
LEMMA AcceptorInsertsCovers ==
  ASSUME TypeOK, FleetInv, CountsType', OwedIsCovered, AcceptorInserts
  PROVE  OwedIsCovered'
<1>1. PICK p \in Indices, f \in Sockets : p = chosen /\ f = main.child
  BY DEF AcceptorInserts, FleetInv, ChosenKnown, OthersType
<1>2. /\ main.pc = "insert" /\ main' = [main EXCEPT !.pc = "inc"]
      /\ clientInfos' = Inserted(p, f, FALSE) /\ ePollIn' = Watched(p, f)
      /\ sizes' = sizes /\ poll' = poll
  BY <1>1 DEF AcceptorInserts, balancerVars
<1>3. /\ Registered(p)' = Registered(p) \cup {f}
      /\ \A q \in Indices \ {p} : Registered(q)' = Registered(q)
  BY <1>2, InsertedWhere
<1>4. Cardinality(Clients') <= Cardinality(Clients) + 1
  <2>1. Cardinality(Clients') <= Cardinality(Clients) + IF f \in Fds THEN 1 ELSE 0
    BY <1>3, ClientComes
  <2> QED BY <2>1, OwedType DEF CountsType
<1>5. Movers' = Movers /\ Uncounted' = Uncounted
  BY <1>2 DEF Movers, Uncounted, InTransit
<1>6. AcceptorOwes = 0 /\ AcceptorOwes' = 1
  BY <1>2 DEF AcceptorOwes, FleetInv, OthersType
<1>7. Owed' <= Owed + 0
  <2> HIDE DEF Clients, Movers, Uncounted, AcceptorOwes
  <2> QED BY <1>4, <1>5, <1>6, OwedType DEF Owed, CountsType
<1>8. /\ sizes' \in [Indices -> Nat]
      /\ Cardinality(LoadOf(sizes)') >= Cardinality(LoadOf(sizes)) + Weight * 0
  <2>1. Cardinality(LoadOf(sizes)) \in Nat
    BY LoadFinite DEF TypeOK
  <2>2. LoadOf(sizes)' = LoadOf(sizes)
    BY <1>2 DEF LoadOf
  <2> QED BY <1>2, <2>1, <2>2, WeightAssumption DEF TypeOK
<1> QED BY <1>7, <1>8, OwedShifts

LEMMA AcceptorCountsCovers ==
  ASSUME TypeOK, FleetInv, CountsType', OwedIsCovered, AcceptorCounts
  PROVE  OwedIsCovered'
<1>1. /\ main.pc = "inc" /\ main' = [pc |-> "accept", child |-> NoSocket]
      /\ clientInfos' = clientInfos /\ poll' = poll
      /\ chosen \in Indices /\ sizes' = Increased(chosen)
  BY DEF AcceptorCounts, IncPriority
<1>2. Clients' = Clients /\ Movers' = Movers /\ Uncounted' = Uncounted
  BY <1>1 DEF Clients, Registered, Movers, Uncounted, InTransit
<1>3. AcceptorOwes = 1 /\ AcceptorOwes' = 0
  BY <1>1 DEF AcceptorOwes
<1>4. Owed' <= Owed + 1
  BY <1>2, <1>3, OwedType DEF Owed, CountsType
<1>5. /\ sizes' \in [Indices -> Nat]
      /\ Cardinality(LoadOf(sizes)') >= Cardinality(LoadOf(sizes)) + Weight * 1
  <2>1. Cardinality(LoadOf(sizes)) \in Nat
    BY LoadFinite DEF TypeOK
  <2> QED BY <1>1, <2>1, LoadIncreased, WeightAssumption
<1> QED BY <1>4, <1>5, OwedShifts

\* What decPriority takes off is at most what a client counts for.
LEMMA ShrunkByOne ==
  ASSUME TypeOK, NEW i \in Indices, DecPriority(i)
  PROVE  /\ sizes' \in [Indices -> Nat]
         /\ Cardinality(LoadOf(sizes)') >= Cardinality(LoadOf(sizes)) + Weight * (-1)
<1>1. sizes' = Decreased(i)
  BY DEF DecPriority
<1>2. Cardinality(LoadOf(sizes)) \in Nat
  BY LoadFinite DEF TypeOK
<1> QED BY <1>1, <1>2, LoadDecreased, WeightAssumption

\* ClientInfos::close: a client less, and at most its count.
LEMMA CloseOneCovers ==
  ASSUME TypeOK, FleetInv, CountsType', OwedIsCovered, NEW p \in Indices, NEW f \in Fds,
         CloseOne(p, f)
  PROVE  OwedIsCovered'
<1>1. /\ poll[p].pc = "closing" /\ f \in poll[p].terminate /\ DecPriority(p)
      /\ clientInfos' = [clientInfos EXCEPT ![p] = Without(p, f)] /\ main' = main
  BY DEF CloseOne
<1>2. f \in Registered(p) /\ f \in Sockets
  BY <1>1 DEF FleetInv, TerminateKnown, Sockets
<1>3. /\ Registered(p)' = Registered(p) \ {f}
      /\ \A q \in Indices \ {p} : Registered(q)' = Registered(q)
  BY <1>1, <1>2, WithoutWhere
<1>4. Cardinality(Clients') = Cardinality(Clients) - 1
  BY <1>2, <1>3, ClientGoes
<1>5. Goes(p, {"closing"}, {"closing", "callback"})
  BY CloseOneGoes DEF FleetInv
<1>6. Movers' = Movers /\ Uncounted' = Uncounted
  BY <1>5 DEF Goes, Movers, Uncounted, InTransit
<1>7. AcceptorOwes' = AcceptorOwes
  BY <1>1 DEF AcceptorOwes
<1>8. Owed' <= Owed + (-1)
  BY <1>4, <1>6, <1>7, OwedType DEF Owed, CountsType
<1> QED BY <1>1, <1>8, ShrunkByOne, OwedShifts

\* RemoveOldestClientAndReturn: a client less in the protocol, one more in the
\* thread's hands; with -1 neither.
LEMMA RemoveOldestCovers ==
  ASSUME TypeOK, FleetInv, CountsType', OwedIsCovered, NEW p \in Indices, RemoveOldest(p)
  PROVE  OwedIsCovered'
<1>1. PICK from \in Indices : from = poll[p].maxIdx
  BY DEF FleetInv, ThreadsType, Thread, PollState
<1>2. PICK f \in Sockets :
        f = IF Registered(from) # {} THEN OldestIn(from) ELSE NoSocket
  BY OldestIsRegistered DEF FleetInv, Sockets
<1>3. /\ clientInfos' = [clientInfos EXCEPT ![from] = Without(from, f)]
      /\ sizes' = sizes /\ main' = main
  <2>1. /\ clientInfos' = [clientInfos EXCEPT ![from] = Without(from, f)]
        /\ UNCHANGED <<balancerVars, ePollIn, stamped, callbackMutex, callbackFrame,
                        crashed>>
    BY <1>1, <1>2 DEF RemoveOldest
  <2> QED BY <2>1 DEF balancerVars, callbackFrame
<1>4. Goes(p, {"remove"}, {"dec"}) /\ poll'[p].moved = f
  BY <1>1, <1>2, RemoveOldestGoes DEF FleetInv
<1>5. /\ Registered(from)' = Registered(from) \ {f}
      /\ \A q \in Indices \ {from} : Registered(q)' = Registered(q)
  BY <1>3, WithoutWhere
<1>6. f \in Fds => f \in Registered(from)
  BY <1>2, OldestIsRegistered, NoSocketAssumption DEF FleetInv
<1>7. Cardinality(Clients') = Cardinality(Clients) - IF f \in Fds THEN 1 ELSE 0
  BY <1>5, <1>6, ClientGoes
<1>8. /\ Uncounted' = Uncounted
      /\ Movers' = IF f \in Fds THEN Movers \cup {p} ELSE Movers
      /\ p \notin Movers
  BY <1>4 DEF Goes, Movers, Uncounted, InTransit
<1>9. Cardinality(Movers') = Cardinality(Movers) + IF f \in Fds THEN 1 ELSE 0
  <2>1. Cardinality(Movers \cup {p}) = Cardinality(Movers) + 1
    BY <1>8, OwedType, FS_AddElement
  <2> QED BY <1>8, <2>1, OwedType
<1>10. AcceptorOwes' = AcceptorOwes
  BY <1>3 DEF AcceptorOwes
<1>11. Owed' = Owed
  BY <1>7, <1>8, <1>9, <1>10, OwedType DEF Owed, CountsType
<1>12. OwedIsCovered'
  BY <1>3, <1>11 DEF OwedIsCovered, LoadOf
<1> QED BY <1>12

\* decPriority for a client in the thread's hands: the count it owes to another load.
LEMMA DecMovedCovers ==
  ASSUME TypeOK, FleetInv, CountsType', OwedIsCovered, NEW p \in Indices, DecMoved(p)
  PROVE  OwedIsCovered'
<1>1. PICK from \in Indices : DecPriority(from)
  BY DEF DecMoved, FleetInv, ThreadsType, Thread, PollState
<1>2. /\ poll[p].pc = "dec" /\ poll' = [poll EXCEPT ![p].pc = "add"]
      /\ clientInfos' = clientInfos /\ main' = main
  BY DEF DecMoved, GoesOn, clientVars, callbackFrame
<1>3. Goes(p, {"dec"}, {"add"}) /\ poll'[p].moved = poll[p].moved
  BY <1>2, PcGoes DEF FleetInv, Counting
<1>4. Clients' = Clients /\ AcceptorOwes' = AcceptorOwes
  BY <1>2 DEF Clients, Registered, AcceptorOwes
<1>5. Movers' = Movers /\ Uncounted' = Uncounted \cup {p} /\ p \notin Uncounted
  BY <1>3 DEF Goes, Movers, Uncounted, InTransit
<1>6. Cardinality(Uncounted') = Cardinality(Uncounted) + 1
  BY <1>5, OwedType, FS_AddElement
<1>7. Owed' <= Owed + (-1)
  BY <1>4, <1>5, <1>6, OwedType DEF Owed, CountsType
<1> QED BY <1>1, <1>7, ShrunkByOne, OwedShifts

\* Add: from the thread's hands into a protocol.
LEMMA AddMovedCovers ==
  ASSUME TypeOK, FleetInv, CountsType', OwedIsCovered, NEW p \in Indices, AddMoved(p)
  PROVE  OwedIsCovered'
<1>1. PICK to \in Indices, f \in Sockets, flag \in BOOLEAN :
        to = poll[p].minIdx /\ f = poll[p].moved /\ flag = poll[p].flag
  BY DEF FleetInv, ThreadsType, Thread, PollState
<1>2. /\ poll[p].pc = "add" /\ poll' = [poll EXCEPT ![p].pc = "inc"]
      /\ clientInfos' = Inserted(to, f, flag) /\ ePollIn' = Watched(to, f)
      /\ sizes' = sizes /\ main' = main
  BY <1>1 DEF AddMoved, GoesOn, balancerVars, callbackFrame
<1>3. Goes(p, {"add"}, {"inc"}) /\ poll'[p].moved = poll[p].moved
  BY <1>2, PcGoes DEF FleetInv, Counting
<1>4. /\ Registered(to)' = Registered(to) \cup {f}
      /\ \A q \in Indices \ {to} : Registered(q)' = Registered(q)
  BY <1>2, InsertedWhere
<1>5. Cardinality(Clients') <= Cardinality(Clients) + IF f \in Fds THEN 1 ELSE 0
  BY <1>4, ClientComes
<1>6. /\ Uncounted' = Uncounted /\ Movers' = Movers \ {p}
      /\ p \in Movers <=> f \in Fds
  <2>1. Uncounted' = Uncounted
    BY <1>3 DEF Goes, Uncounted
  <2>2. Movers' = Movers \ {p}
    BY <1>3 DEF Goes, Movers, InTransit
  <2>3. p \in Movers <=> f \in Fds
    BY <1>1, <1>2 DEF Movers, InTransit
  <2> QED BY <2>1, <2>2, <2>3
<1>7. Cardinality(Movers') = Cardinality(Movers) - IF f \in Fds THEN 1 ELSE 0
  <2>1. Cardinality(Movers \ {p})
          = IF p \in Movers THEN Cardinality(Movers) - 1 ELSE Cardinality(Movers)
    BY OwedType, FS_RemoveElement
  <2> QED BY <1>6, <2>1, OwedType
<1>8. AcceptorOwes' = AcceptorOwes
  BY <1>2 DEF AcceptorOwes
<1>9. Owed' <= Owed + 0
  BY <1>5, <1>6, <1>7, <1>8, OwedType DEF Owed, CountsType
<1>10. /\ sizes' \in [Indices -> Nat]
       /\ Cardinality(LoadOf(sizes)') >= Cardinality(LoadOf(sizes)) + Weight * 0
  <2>1. Cardinality(LoadOf(sizes)) \in Nat
    BY LoadFinite DEF TypeOK
  <2>2. LoadOf(sizes)' = LoadOf(sizes)
    BY <1>2 DEF LoadOf
  <2> QED BY <1>2, <2>1, <2>2, WeightAssumption DEF TypeOK
<1> QED BY <1>9, <1>10, OwedShifts

\* incPriority for it: what was owed is counted.
LEMMA CountMovedCovers ==
  ASSUME TypeOK, FleetInv, CountsType', OwedIsCovered, NEW p \in Indices, CountMoved(p)
  PROVE  OwedIsCovered'
<1>1. PICK to \in Indices : sizes' = Increased(to)
  BY DEF CountMoved, IncPriorityMoved, FleetInv, ThreadsType, Thread, PollState
<1>2. clientInfos' = clientInfos /\ main' = main
  BY DEF CountMoved, StampMoved, callbackFrame
<1>3. Goes(p, {"inc"}, {"callback", "work"})
  BY CountMovedGoes DEF FleetInv
<1>4. Clients' = Clients /\ AcceptorOwes' = AcceptorOwes
  BY <1>2 DEF Clients, Registered, AcceptorOwes
<1>5. Movers' = Movers /\ Uncounted' = Uncounted \ {p} /\ p \in Uncounted
  BY <1>3 DEF Goes, Movers, Uncounted, InTransit
<1>6. Cardinality(Uncounted') = Cardinality(Uncounted) - 1
  BY <1>5, OwedType, FS_RemoveElement
<1>7. Owed' <= Owed + 1
  BY <1>4, <1>5, <1>6, OwedType DEF Owed, CountsType
<1>8. /\ sizes' \in [Indices -> Nat]
      /\ Cardinality(LoadOf(sizes)') >= Cardinality(LoadOf(sizes)) + Weight * 1
  <2>1. Cardinality(LoadOf(sizes)) \in Nat
    BY LoadFinite DEF TypeOK
  <2> QED BY <1>1, <2>1, LoadIncreased, WeightAssumption
<1> QED BY <1>7, <1>8, OwedShifts

\* The data path knows the same clients before and after, and leaves the loads alone.
LEMMA PollWaitFrame ==
  ASSUME NEW p, PollWait(p) PROVE UNCHANGED <<balancerVars, clientVars, main>>
  BY DEF PollWait

LEMMA PollCloseFrame ==
  ASSUME NEW p, PollClose(p) PROVE UNCHANGED <<balancerVars, clientVars, main>>
  BY DEF PollClose

LEMMA PollLoopFrame ==
  ASSUME FleetInv, NEW p \in Indices, PollLoop(p)
  PROVE  /\ UNCHANGED <<balancerVars, main>>
         /\ \A q \in Indices : Registered(q)' = Registered(q)
<1>1. UNCHANGED <<balancerVars, main>>
  BY DEF PollLoop
<1>2. PICK reset \in SUBSET (poll[p].in \cap Registered(p)) :
        clientInfos' = [clientInfos EXCEPT ![p] =
          [f \in Registered(p) |-> @[f] /\ f \notin reset]]
  BY PollLoopMeans DEF LoopDoes
<1>3. \A q \in Indices : Registered(q)' = Registered(q)
  BY <1>2 DEF FleetInv, ClientsType, Registered
<1> QED BY <1>1, <1>3

\* All other steps of a thread: it holds no client and owes no count.
LEMMA OtherStepsCover ==
  ASSUME TypeOK, FleetInv, OwedIsCovered, NEW p \in Indices,
         PollWait(p) \/ PollLoop(p) \/ PollClose(p) \/ Choosing(p) \/ Working(p)
  PROVE  OwedIsCovered'
<1>1. \/ Goes(p, {"wait"}, {"loop"}) \/ Goes(p, {"loop"}, {"work", "close"})
      \/ Goes(p, {"close"}, {"work", "closing"})
      \/ Goes(p, {"callback", "max", "min", "empty", "oldest"},
                 {"max", "min", "empty", "oldest", "remove", "work"})
      \/ Goes(p, {"work", "write"}, {"wait", "write"})
  BY PollWaitGoes, PollLoopGoes, PollCloseGoes, ChoosingGoes, WorkGoes
     DEF FleetInv, TypeOK, Working
<1>2. Goes(p, Quiet, Quiet)
  BY <1>1 DEF Goes, Quiet, Elsewhere
<1>3. /\ UNCHANGED <<balancerVars, main>>
      /\ ~ PollLoop(p) => UNCHANGED clientVars
  <2>1. CASE PollWait(p) \/ PollLoop(p) \/ PollClose(p)
    BY <2>1, PollWaitFrame, PollLoopFrame, PollCloseFrame
  <2>2. CASE Choosing(p)
    <3>1. UNCHANGED <<balancerVars, clientVars, callbackFrame>>
      BY <2>2 DEF Choosing, CallbackEnter, ReadMaxIndex, ReadMinIndex, CheckEmpty,
                  LookAtOldest
    <3> QED BY <3>1 DEF callbackFrame
  <2>3. CASE Working(p)
    BY <2>3 DEF Working, ExecuteAndGather, WriteReturns, WriteFails
  <2> QED BY <2>1, <2>2, <2>3
<1>4. \A q \in Indices : Registered(q)' = Registered(q)
  <2>1. CASE PollLoop(p)
    BY <2>1, PollLoopFrame
  <2>2. CASE ~ PollLoop(p)
    BY <1>3, <2>2 DEF clientVars, Registered
  <2> QED BY <2>1, <2>2
<1>5. sizes' = sizes /\ main' = main
  BY <1>3 DEF balancerVars
<1> QED BY <1>2, <1>4, <1>5, QuietCovers

LEMMA StepCovers ==
  ASSUME TypeOK, FleetInv, CountsType', OwedIsCovered, [FleetNext]_fleetVars
  PROVE  OwedIsCovered'
<1>1. CASE PeerStep \/ AcceptorPicks \/ ScanStep \/ HealthCloses \/ UNCHANGED fleetVars
  <2>1. sizes' = sizes /\ clientInfos' = clientInfos /\ poll' = poll
    BY <1>1 DEF PeerStep, PeerStalls, PeerCloses, Accept, AcceptorPicks, NextIndex,
                ScanStep, Scan, HealthCloses, healthFrame, clientVars, balancerVars,
                fleetVars
  <2>2. main'.pc = "inc" <=> main.pc = "inc"
    BY <1>1 DEF PeerStep, PeerStalls, PeerCloses, Accept, AcceptorPicks, ScanStep,
                HealthCloses, healthFrame, fleetVars, FleetInv, OthersType
  <2> QED BY <2>1, <2>2, FrameCovers DEF Registered
<1>2. ASSUME NEW old \in SUBSET Sockets, HealthChecks(old) PROVE OwedIsCovered'
  <2>1. PICK p \in Indices, warned \in SUBSET Sockets :
          clientInfos' = [clientInfos EXCEPT ![p] =
                            [f \in Registered(p) |-> @[f] \/ f \in warned]]
    <3>1. health.at \in Indices
      BY <1>2, CountAssumption DEF HealthChecks, FleetInv, OthersType, Indices
    <3> QED BY <1>2, <3>1 DEF HealthChecks
  <2>2. \A q \in Indices : Registered(q)' = Registered(q)
    BY <2>1 DEF FleetInv, ClientsType, Registered
  <2>3. UNCHANGED <<sizes, poll, main>>
    BY <1>2 DEF HealthChecks, healthFrame, balancerVars
  <2> QED BY <2>2, <2>3, FrameCovers
<1>3. CASE AcceptorInserts \/ AcceptorCounts
  BY <1>3, AcceptorInsertsCovers, AcceptorCountsCovers
<1>4. ASSUME NEW p \in Indices, PollStep(p) \/ WriteFails(p) PROVE OwedIsCovered'
  <2>1. CASE \E f \in Fds : CloseOne(p, f)
    BY <2>1, CloseOneCovers
  <2>2. CASE RemoveOldest(p) \/ DecMoved(p) \/ AddMoved(p) \/ CountMoved(p)
    BY <2>2, RemoveOldestCovers, DecMovedCovers, AddMovedCovers, CountMovedCovers
  <2>3. CASE PollWait(p) \/ PollLoop(p) \/ PollClose(p) \/ Choosing(p) \/ Working(p)
    BY <2>3, OtherStepsCover
  <2> QED BY <1>4, <2>1, <2>2, <2>3 DEF PollStep, CallbackStep, Choosing, Working
<1> QED BY <1>1, <1>2, <1>3, <1>4 DEF FleetNext, AcceptorStep, HealthStep, Dead

\* No client and no load at first.
LEMMA InitCovers == ASSUME FleetInit PROVE OwedIsCovered
<1>1. FleetInv /\ TypeOK
  BY FleetInitInv DEF IInv
<1>2. \A p \in Indices : Registered(p) = {} /\ poll[p].pc = "wait"
  BY DEF FleetInit, Registered, IdlePoll
<1>3. Clients = {} /\ Movers = {} /\ Uncounted = {}
  BY <1>2 DEF Clients, Movers, Uncounted, InTransit
<1>4. AcceptorOwes = 0
  BY DEF FleetInit, AcceptorOwes
<1>5. Owed = 0
  BY <1>3, <1>4, FS_EmptySet DEF Owed
<1>6. Cardinality(LoadOf(sizes)) \in Nat
  BY <1>1, LoadFinite DEF TypeOK
<1> QED BY <1>5, <1>6, WeightAssumption DEF OwedIsCovered

\* Moving clients about, closing them and accepting others, in whatever threads and
\* with decPriority refused or not, never leaves the balancer with less load than
\* there are clients: it may see a protocol too full, but not the fleet too empty.
THEOREM LoadsCoverClients == FleetSpec => []LoadCoversFleet
<1>1. TypeOK /\ FleetInv /\ OwedIsCovered => LoadCoversFleet
  <2> SUFFICES ASSUME TypeOK, FleetInv, OwedIsCovered
               PROVE  Weight * Cardinality(Clients)
                        <= Cardinality(LoadOf(sizes))
                             + Weight * (Cardinality(Uncounted) + AcceptorOwes)
    BY DEF LoadCoversFleet, Clients, LoadOf, Uncounted, AcceptorOwes
  <2> DEFINE c == Cardinality(Clients)
             m == Cardinality(Movers)
             u == Cardinality(Uncounted) + AcceptorOwes
             l == Cardinality(LoadOf(sizes))
  <2>1. c \in Nat /\ m \in Nat /\ u \in Nat /\ l \in Nat /\ Weight \in Nat
    BY OwedType, LoadFinite, WeightAssumption DEF TypeOK
  <2>2. Owed = c + m - u
    BY OwedType DEF Owed
  <2>3. Weight * Owed <= l
    BY DEF OwedIsCovered
  <2> HIDE DEF c, m, u, l
  <2>4. Weight * (c + m - u) = Weight * c + Weight * m - Weight * u
    BY <2>1
  <2>5. Weight * m \in Nat /\ Weight * c \in Nat /\ Weight * u \in Nat
    BY <2>1
  <2>6. Weight * c <= l + Weight * u
    BY <2>1, <2>2, <2>3, <2>4, <2>5
  <2> QED BY <2>6 DEF c, u, l
<1>2. IInv => TypeOK
  BY DEF IInv
<1> QED BY <1>1, <1>2, InitCovers, StepCovers, CountsTyped, FleetInvariance, PTL DEF FleetSpec
=============================================================================
