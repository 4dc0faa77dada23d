------------------------ MODULE ServerPackets_proofs ------------------------
(***************************************************************************)
(* For any number of descriptors, connections and packets: what the server  *)
(* counts covers its clients, a client's name is its own, replies keep the  *)
(* order of the requests, and, in the build with one thread that reads one  *)
(* packet at a time, they reach the client that asked.                      *)
(***************************************************************************)
EXTENDS ServerLearnProtocol_proofs

USE DEF kernelVars, pollSetVars, stampVars, queueVars, threadVars

(***************************************************************************)
(* Counts: events and load.                                                 *)
(***************************************************************************)
Counts == CapacityCovers /\ LoadCoversClients

\* The clients are finitely many, and a number.
LEMMA ClientsAreCounted ==
  ASSUME ClientType
  PROVE  IsFiniteSet(Registered) /\ Cardinality(Registered) \in Nat
<1>1. IsFiniteSet(Registered)
  BY FdsAssumption, FS_Subset DEF ClientType
<1> QED BY <1>1, FS_CardinalityType

\* Insert counts a client for the events at once, and for the load later.
LEMMA InsertCounts == ASSUME IInv, Counts, Insert PROVE Counts'
<1>1. main.child \notin Registered /\ main.child \in Fds
  BY DEF Insert, IInv, NoDescriptorLeaked, ChildValid
<1>2. Registered' = Registered \cup {main.child}
  BY DEF Insert, ClientsWith, Registered
<1>3. Cardinality(Registered') = Cardinality(Registered) + 1
  <2>1. IsFiniteSet(Registered)
    BY ClientsAreCounted DEF IInv
  <2> QED BY <1>1, <1>2, <2>1, FS_AddElement
<1>4. Cardinality(Registered) \in Nat /\ priority \in Nat
  BY ClientsAreCounted DEF IInv, PollSetType
<1>5. updateIssued' /\ priority' = priority /\ main.pc = "insert" /\ main'.pc = "inc"
  BY DEF Insert, IInv, MainType
<1>6. Cardinality(Registered) <= priority
  BY <1>4, <1>5 DEF Counts, LoadCoversClients
<1> QED BY <1>3, <1>4, <1>5, <1>6 DEF Counts, CapacityCovers, LoadCoversClients

\* decPriority takes from the load as many as were closed, and refuses only when
\* clients were closed that are still to be counted.
LEMMA PollCloseCounts == ASSUME IInv, Counts, PollClose PROVE Counts'
<1> DEFINE known == poll.terminate \cap Registered
           all == Cardinality(Registered)
           closed == Cardinality(known)
           coming == IF main.pc = "inc" THEN 1 ELSE 0
<1>1. Registered' = Registered \ known
  BY DEF PollClose, ClientsWithout, Registered
<1>2. /\ all \in Nat /\ closed \in Nat /\ closed <= all
      /\ Cardinality(Registered') = all - closed
  <2>1. IsFiniteSet(Registered) /\ all \in Nat
    BY ClientsAreCounted DEF IInv
  <2>2. Registered \cap known = known /\ known \subseteq Registered
    OBVIOUS
  <2>3. IsFiniteSet(known) /\ closed <= all
    BY <2>1, <2>2, FS_Subset
  <2>4. closed \in Nat
    BY <2>3, FS_CardinalityType
  <2>5. Cardinality(Registered \ known) = all - Cardinality(Registered \cap known)
    BY <2>1, <2>3, FS_Difference
  <2> QED BY <1>1, <2>1, <2>2, <2>3, <2>4, <2>5
<1>3. /\ priority' = IF closed <= priority THEN priority - closed ELSE 0
      /\ UNCHANGED <<updateIssued, pollSize, main>>
  BY DEF PollClose, DecPriority
<1>4. priority \in Nat /\ pollSize \in Nat /\ coming \in Nat
  BY DEF IInv, PollSetType
<1>5. all <= priority + coming /\ (~ updateIssued => all <= pollSize)
  BY DEF Counts, CapacityCovers, LoadCoversClients
<1>6. (~ updateIssued => all - closed <= pollSize) /\ all - closed <= priority' + coming
  <2> HIDE DEF all, closed, coming
  <2> QED BY <1>2, <1>3, <1>4, <1>5
<1>7. coming' = coming
  BY <1>3
<1> HIDE DEF known, all, closed
<1> QED BY <1>2, <1>3, <1>6, <1>7 DEF Counts, CapacityCovers, LoadCoversClients

\* Steps that change neither count, nor the clients.
LEMMA CountsFrame ==
  ASSUME Counts, UNCHANGED <<updateIssued, pollSize, priority>>,
         Registered' = Registered, (main'.pc = "inc") <=> (main.pc = "inc")
  PROVE  Counts'
  BY DEF Counts, CapacityCovers, LoadCoversClients

LEMMA CountsKept == IInv /\ Counts /\ [Next]_vars => Counts'
<1> SUFFICES ASSUME IInv, Counts, [Next]_vars PROVE Counts'
  OBVIOUS
<1>1. Cardinality(Registered) \in Nat /\ priority \in Nat /\ pollSize \in Nat
  BY ClientsAreCounted DEF IInv, PollSetType
<1>2. CASE Insert
  BY <1>2, InsertCounts
<1>3. CASE PollClose
  BY <1>3, PollCloseCounts
<1>4. CASE IncPriority
  <2>1. priority' = priority + 1 /\ main.pc = "inc" /\ main'.pc = "stamp"
        /\ UNCHANGED <<updateIssued, pollSize, clientInfos>>
    BY <1>4 DEF IncPriority, IInv, MainType
  <2> QED BY <1>1, <2>1 DEF Counts, CapacityCovers, LoadCoversClients, Registered
<1>5. CASE PollUpdate
  <2>1. UNCHANGED <<clientInfos, priority, main>> /\ pollSize' \in {pollSize, Extended}
        /\ (pollSize' = pollSize => ~ updateIssued \/ Extended = pollSize)
    BY <1>5 DEF PollUpdate
  <2> QED BY <1>1, <2>1 DEF Counts, CapacityCovers, LoadCoversClients, Registered, Extended
<1>6. CASE \E c \in Conns, f \in Fds : Accept(c, f)
  BY <1>6, CountsFrame DEF Accept, Registered
<1>7. CASE UpdateSingle
  BY <1>7, CountsFrame DEF UpdateSingle, Registered
<1>8. ASSUME UNCHANGED <<updateIssued, pollSize, priority, main>>, Registered' = Registered
      PROVE  Counts'
  BY <1>8, CountsFrame
<1>9. CASE PeerStep \/ UNCHANGED vars \/ \E f \in Fds : TimePasses(f)
  BY <1>8, <1>9 DEF PeerStep, PeerSend, PeerReceive, PeerClose, TimePasses, vars, Registered
<1>10. CASE PollStep /\ ~ PollUpdate /\ ~ PollClose
  BY <1>8, <1>10 DEF PollStep, PollWait, EventTerminates, EventReads, ReadPacket,
                     ReadFails, PollFinish, Registered
<1>11. CASE ExecStep
  BY <1>8, <1>11 DEF ExecStep, ExecTake, ExecRun, WriteGather, WriteSends, WriteFails,
                     Registered
<1>12. CASE HealthStep
  BY <1>8, <1>12 DEF HealthStep, HealthSelect, HealthCondemns, HealthSpares, HealthMark,
                     HealthWarn, HealthClose, Registered
<1> QED BY <1>2, <1>3, <1>4, <1>5, <1>6, <1>7, <1>9, <1>10, <1>11, <1>12
        DEF Next, AddStep, PollStep

LEMMA InitCounts == Init => Counts
<1> SUFFICES ASSUME Init PROVE Counts
  OBVIOUS
<1>1. Registered = {}
  BY DEF Init, Registered
<1>2. Cardinality(Registered) = 0
  BY <1>1, FS_EmptySet
<1> QED BY <1>2, SizesAssumption DEF Init, Counts, CapacityCovers, LoadCoversClients

\* pollInEvents has room for an event of every client whenever ClientInfos::Update
\* finds nothing to do.
THEOREM EventsHaveRoom == Spec => []CapacityCovers
<1>1. Counts => CapacityCovers
  BY DEF Counts
<1> QED BY <1>1, InitCounts, CountsKept, Invariance, PTL DEF Spec

\* The balancer counts each client but the one Add is about to count, although it
\* counts late and outside the lock that guards the clients.
THEOREM LoadIsCounted == Spec => []LoadCoversClients
<1>1. Counts => LoadCoversClients
  BY DEF Counts
<1> QED BY <1>1, InitCounts, CountsKept, Invariance, PTL DEF Spec

(***************************************************************************)
(* Names.                                                                   *)
(***************************************************************************)
\* What a peer sent is its own, and gives its own name, if any.
InboxOwn(c) == \A i \in 1 .. Len(conn[c].inbox) :
                 conn[c].inbox[i].from = c /\ conn[c].inbox[i].name \in {None, c}

Names == NameMatchesConnection /\ \A c \in Conns : InboxOwn(c)

\* A client keeps its name as long as it keeps its descriptor.
LEMMA NamesFrame ==
  ASSUME Names, Registered' \subseteq Registered,
         \A f \in Registered' : /\ clientInfos'[f].clientId = clientInfos[f].clientId
                                /\ fdOwner'[f] = fdOwner[f],
         \A c \in Conns : conn'[c].inbox = conn[c].inbox \/ conn'[c].inbox = <<>>
  PROVE  Names'
<1>1. NameMatchesConnection'
  BY DEF Names, NameMatchesConnection
<1>2. ASSUME NEW c \in Conns PROVE InboxOwn(c)'
  <2>1. CASE conn'[c].inbox = conn[c].inbox
    BY <2>1 DEF Names, InboxOwn
  <2>2. CASE conn'[c].inbox = <<>>
    <3>1. 1 .. Len(conn'[c].inbox) = {}
      BY <2>2
    <3> QED BY <3>1 DEF InboxOwn
  <2> QED BY <2>1, <2>2
<1> QED BY <1>1, <1>2 DEF Names

\* Sending adds a packet with the sender's name, or none.
LEMMA PeerSendNames ==
  ASSUME IInv, Names, NEW c \in Conns, NEW command \in PeerCommands, PeerSend(c, command)
  PROVE  Names'
<1> DEFINE message == [command |-> command, from |-> c, seq |-> conn[c].sent + 1,
                       ran |-> FALSE,
                       name |-> IF command = "ACID" THEN c ELSE None]
<1>1. conn \in [Conns -> Connection] /\ conn[c].inbox \in Seq(Message)
  BY DEF IInv, KernelType, Connection
<1>2. /\ conn'[c].inbox = Append(conn[c].inbox, message)
      /\ \A d \in Conns : d # c => conn'[d] = conn[d]
  BY <1>1 DEF PeerSend, Connection
<1>3. message.from = c /\ message.name \in {None, c}
  OBVIOUS
<1> HIDE DEF message
<1>4. ASSUME NEW d \in Conns PROVE InboxOwn(d)'
  <2>1. CASE d = c
    <3>1. ASSUME NEW i \in 1 .. Len(conn[c].inbox) + 1
          PROVE  /\ Append(conn[c].inbox, message)[i].from = c
                 /\ Append(conn[c].inbox, message)[i].name \in {None, c}
      <4>1. CASE i = Len(conn[c].inbox) + 1
        BY <1>1, <1>3, <4>1
      <4>2. CASE i # Len(conn[c].inbox) + 1
        <5>1. i \in 1 .. Len(conn[c].inbox)
          BY <1>1, <4>2
        <5> QED BY <1>1, <5>1 DEF Names, InboxOwn
      <4> QED BY <4>1, <4>2
    <3>2. Len(Append(conn[c].inbox, message)) = Len(conn[c].inbox) + 1
      BY <1>1
    <3> QED BY <1>2, <2>1, <3>1, <3>2 DEF InboxOwn
  <2>2. CASE d # c
    BY <1>2, <2>2 DEF Names, InboxOwn
  <2> QED BY <2>1, <2>2
<1>5. NameMatchesConnection'
  BY DEF PeerSend, Names, NameMatchesConnection, Registered
<1> QED BY <1>4, <1>5 DEF Names

\* A name is read from the connection behind the descriptor.
LEMMA ReadPacketNames == ASSUME IInv, Names, ReadPacket PROVE Names'
<1> DEFINE f == poll.reading
           c == fdOwner[f]
           message == Head(conn[c].inbox)
<1>1. /\ f \in Registered /\ f \in Fds /\ c \in Conns
      /\ conn \in [Conns -> Connection] /\ conn[c].inbox \in Seq(Message)
      /\ conn[c].inbox # <<>>
  BY ReadingOwned DEF ReadPacket, Reading, IInv, KernelType, Connection
<1>2. /\ conn'[c].inbox = Tail(conn[c].inbox)
      /\ \A d \in Conns : d # c => conn'[d] = conn[d]
  BY <1>1 DEF ReadPacket, Reading, Connection
<1>3. message.name \in {None, c}
  <2>1. 1 \in 1 .. Len(conn[c].inbox) /\ message = conn[c].inbox[1]
    BY <1>1
  <2> QED BY <1>1, <2>1 DEF Names, InboxOwn
<1>4. ASSUME NEW d \in Conns PROVE InboxOwn(d)'
  <2>1. CASE d = c
    <3>1. ASSUME NEW i \in 1 .. Len(Tail(conn[c].inbox))
          PROVE  /\ Tail(conn[c].inbox)[i].from = c
                 /\ Tail(conn[c].inbox)[i].name \in {None, c}
      <4>1. i + 1 \in 1 .. Len(conn[c].inbox) /\ Tail(conn[c].inbox)[i] = conn[c].inbox[i + 1]
        BY <1>1
      <4> QED BY <1>1, <4>1 DEF Names, InboxOwn
    <3> QED BY <1>2, <2>1, <3>1 DEF InboxOwn
  <2>2. CASE d # c
    BY <1>2, <2>2 DEF Names, InboxOwn
  <2> QED BY <2>1, <2>2
<1>5. NameMatchesConnection'
  <2>1. /\ clientInfos' = [clientInfos EXCEPT ![f] = ClientAfter(clientInfos[f], message)]
        /\ fdOwner' = fdOwner
    BY DEF ReadPacket, Reading
  <2>2. ClientAfter(clientInfos[f], message).clientId \in {clientInfos[f].clientId, message.name}
    BY <1>1 DEF ClientAfter, IInv, ClientType, ClientInfo
  <2>3. clientInfos[f].clientId \in {None, c}
    BY <1>1 DEF Names, NameMatchesConnection
  <2> HIDE DEF message
  <2> QED BY <1>1, <1>3, <2>1, <2>2, <2>3 DEF Names, NameMatchesConnection, IInv, ClientType, Registered
<1> QED BY <1>4, <1>5 DEF Names

\* insert starts a client without a name, whoever had the descriptor before.
LEMMA InsertNames == ASSUME IInv, Names, Insert PROVE Names'
<1>1. clientInfos' = ClientsWith(main.child) /\ UNCHANGED <<fdOwner, conn>>
  BY DEF Insert
<1>2. NameMatchesConnection'
  BY <1>1 DEF ClientsWith, NewClient, Names, NameMatchesConnection, Registered
<1> QED BY <1>1, <1>2 DEF Names, InboxOwn

\* close forgets the name with the client.
LEMMA PollCloseNames == ASSUME IInv, Names, PollClose PROVE Names'
<1> DEFINE known == poll.terminate \cap Registered
<1>1. /\ fdOwner' = OwnersAfterClose(known) /\ conn' = ConnsAfterClose(known)
      /\ clientInfos' = ClientsWithout(known)
  BY DEF PollClose
<1>2. \A c \in Conns : conn'[c].inbox \in {conn[c].inbox, <<>>}
  BY <1>1 DEF ConnsAfterClose, IInv, KernelType, Connection
<1>3. /\ Registered' = Registered \ known
      /\ \A f \in Registered' : clientInfos'[f] = clientInfos[f] /\ fdOwner'[f] = fdOwner[f]
  BY <1>1 DEF ClientsWithout, OwnersAfterClose, Registered, IInv, ClientType
<1> QED BY <1>2, <1>3, NamesFrame

\* Steps that change one connection but not what it was sent, and no client.
LEMMA ConnNames ==
  ASSUME IInv, Names, UNCHANGED <<fdOwner, clientInfos>>,
         \A c \in Conns : conn'[c].inbox = conn[c].inbox
  PROVE  Names'
  BY NamesFrame DEF Registered

LEMMA NamesKept == IInv /\ Names /\ [Next]_vars => Names'
<1> SUFFICES ASSUME IInv, Names, [Next]_vars PROVE Names'
  OBVIOUS
<1>1. conn \in [Conns -> Connection]
  BY DEF IInv, KernelType
<1>2. \A fds : \A c \in Conns : ShutDown(fds)[c].inbox = conn[c].inbox
  BY ShutDownConn DEF IInv
<1>3. CASE PeerStep
  <2>1. ASSUME NEW c \in Conns, PeerReceive(c) PROVE Names'
    BY <1>1, <2>1, ConnNames DEF PeerReceive, Connection
  <2>2. ASSUME NEW c \in Conns, PeerClose(c) PROVE Names'
    BY <1>1, <2>2, ConnNames DEF PeerClose, Connection
  <2> QED BY <1>3, <2>1, <2>2, PeerSendNames DEF PeerStep
<1>4. CASE \E c \in Conns, f \in Fds : Accept(c, f)
  <2>1. PICK c \in Conns, f \in Fds : Accept(c, f)
    BY <1>4
  <2>2. f \notin Registered
    BY <2>1, RegisteredOwned, ConnsAssumption DEF Accept, IInv
  <2>3. \A d \in Conns : conn'[d].inbox = conn[d].inbox
    BY <1>1, <2>1 DEF Accept, Connection
  <2>4. Registered' = Registered /\ clientInfos' = clientInfos
        /\ \A g \in Registered : fdOwner'[g] = fdOwner[g]
    BY <2>1, <2>2 DEF Accept, Registered, IInv, KernelType, ClientType
  <2> QED BY <2>3, <2>4, NamesFrame
<1>5. CASE PollStep
  <2>1. ASSUME ReadFails PROVE Names'
    <3>1. conn' = ShutDown({poll.reading}) /\ UNCHANGED fdOwner
          /\ clientInfos' = [clientInfos EXCEPT ![poll.reading].deadline = Hit(@)]
      BY <2>1 DEF ReadFails
    <3>2. Registered' = Registered
          /\ \A f \in Registered : clientInfos'[f].clientId = clientInfos[f].clientId
      BY <3>1 DEF Registered, IInv, ClientType, ClientInfo
    <3> QED BY <1>2, <3>1, <3>2, NamesFrame
  <2>2. ASSUME UNCHANGED <<fdOwner, conn, clientInfos>> PROVE Names'
    BY <2>2, ConnNames
  <2> QED BY <1>5, <2>1, <2>2, ReadPacketNames, PollCloseNames
          DEF PollStep, PollUpdate, PollWait, EventTerminates, EventReads, PollFinish
<1>6. CASE ExecStep
  <2>1. ASSUME WriteSends PROVE Names'
    <3>1. conn' = Delivered(Target, Head(exec.tempWriteList).message)
          /\ UNCHANGED <<fdOwner, clientInfos>>
      BY <2>1 DEF WriteSends
    <3>2. \A c \in Conns : conn'[c].inbox = conn[c].inbox
      BY <1>1, <3>1 DEF Delivered, Connection
    <3> QED BY <3>1, <3>2, ConnNames
  <2>2. ASSUME WriteFails PROVE Names'
    BY <1>2, <2>2, ConnNames DEF WriteFails
  <2>3. ASSUME UNCHANGED <<fdOwner, conn, clientInfos>> PROVE Names'
    BY <2>3, ConnNames
  <2> QED BY <1>6, <2>1, <2>2, <2>3 DEF ExecStep, ExecTake, ExecRun, WriteGather
<1>7. CASE HealthStep
  <2>1. ASSUME HealthMark PROVE Names'
    <3>1. UNCHANGED <<fdOwner, conn>>
          /\ clientInfos' = [clientInfos EXCEPT ![health.marking].terminateOnNextCycle = TRUE]
      BY <2>1 DEF HealthMark
    <3>2. Registered' = Registered
          /\ \A f \in Registered : clientInfos'[f].clientId = clientInfos[f].clientId
      BY <3>1 DEF Registered, IInv, ClientType, ClientInfo
    <3> QED BY <3>1, <3>2, NamesFrame
  <2>2. ASSUME UNCHANGED <<fdOwner, clientInfos>>,
               conn' = conn \/ \E fds \in SUBSET Fds : conn' = ShutDown(fds)
        PROVE  Names'
    BY <1>2, <2>2, ConnNames
  <2>3. ASSUME NEW f \in Fds, HealthCondemns(f) PROVE Names'
    BY <2>2, <2>3 DEF HealthCondemns
  <2>4. ASSUME HealthClose PROVE Names'
    <3>1. health.selected \in SUBSET Fds
      BY DEF IInv, HealthType
    <3> QED BY <2>2, <2>4, <3>1 DEF HealthClose
  <2>5. ASSUME UNCHANGED <<fdOwner, conn, clientInfos>> PROVE Names'
    BY <2>5, ConnNames
  <2> QED BY <1>7, <2>1, <2>3, <2>4, <2>5
          DEF HealthStep, HealthSelect, HealthSpares, HealthWarn
<1>8. ASSUME UNCHANGED <<fdOwner, conn, clientInfos>> PROVE Names'
  BY <1>8, ConnNames
<1>9. CASE UNCHANGED vars \/ (\E f \in Fds : TimePasses(f)) \/ IncPriority \/ UpdateSingle
  BY <1>8, <1>9 DEF vars, TimePasses, IncPriority, UpdateSingle
<1> QED BY <1>3, <1>4, <1>5, <1>6, <1>7, <1>9, InsertNames DEF Next, AddStep

LEMMA NamesAtStart == Init => Names
<1> SUFFICES ASSUME Init PROVE Names
  OBVIOUS
<1>1. Registered = {}
  BY DEF Init, Registered
<1>2. \A c \in Conns : conn[c].inbox = <<>>
  BY DEF Init
<1>3. \A c \in Conns : 1 .. Len(conn[c].inbox) = {}
  BY <1>2
<1> QED BY <1>1, <1>3 DEF Names, NameMatchesConnection, InboxOwn

\* ReadForSingleSocket sets a client's id to what came on the client's own connection,
\* and neither close nor insert leaves it to the next one, in any build. Packets are
\* whole: of one that its peer cut off by closing nothing is said.
THEOREM NamesAreOwn == Spec => []NameMatchesConnection
<1>1. Init => Names
  BY NamesAtStart
<1>2. Names => NameMatchesConnection
  BY DEF Names
<1> QED BY <1>1, <1>2, NamesKept, Invariance, PTL DEF Spec

(***************************************************************************)
(* Answers, in the build where one thread polls, executes and writes and    *)
(* takes one packet per read.                                               *)
(***************************************************************************)
Packets(list) == {list[i] : i \in 1 .. Len(list)}

LEMMA PacketsOfNone == Packets(<<>>) = {}
  BY DEF Packets

LEMMA PacketsAppended ==
  ASSUME NEW S, NEW s \in Seq(S), NEW e \in S
  PROVE  Packets(Append(s, e)) = Packets(s) \cup {e}
<1>1. /\ Len(Append(s, e)) = Len(s) + 1 /\ Len(s) \in Nat
      /\ Append(s, e)[Len(s) + 1] = e
      /\ \A i \in 1 .. Len(s) : Append(s, e)[i] = s[i]
  OBVIOUS
<1>2. 1 .. (Len(s) + 1) = (1 .. Len(s)) \cup {Len(s) + 1}
  BY <1>1
<1> QED BY <1>1, <1>2 DEF Packets

LEMMA PacketsJoined ==
  ASSUME NEW S, NEW s \in Seq(S), NEW t \in Seq(S)
  PROVE  Packets(s \o t) = Packets(s) \cup Packets(t)
<1>1. Len(s \o t) = Len(s) + Len(t) /\ Len(s) \in Nat /\ Len(t) \in Nat
  OBVIOUS
<1>2. \A i \in 1 .. Len(s) : (s \o t)[i] = s[i]
  OBVIOUS
<1>3. \A i \in 1 .. Len(t) : (s \o t)[Len(s) + i] = t[i]
  OBVIOUS
<1>4. ASSUME NEW x \in Packets(s \o t) PROVE x \in Packets(s) \cup Packets(t)
  <2>1. PICK i \in 1 .. Len(s \o t) : x = (s \o t)[i]
    BY DEF Packets
  <2>2. CASE i \in 1 .. Len(s)
    BY <1>2, <2>1, <2>2 DEF Packets
  <2>3. CASE i \notin 1 .. Len(s)
    <3>1. i - Len(s) \in 1 .. Len(t) /\ Len(s) + (i - Len(s)) = i
      BY <1>1, <2>1, <2>3
    <3>2. x = t[i - Len(s)]
      BY <1>3, <2>1, <3>1
    <3> QED BY <3>1, <3>2 DEF Packets
  <2> QED BY <2>2, <2>3
<1>5. ASSUME NEW i \in 1 .. Len(s) PROVE s[i] \in Packets(s \o t)
  <2>1. i \in 1 .. Len(s \o t)
    BY <1>1
  <2> QED BY <1>2, <2>1 DEF Packets
<1>6. ASSUME NEW i \in 1 .. Len(t) PROVE t[i] \in Packets(s \o t)
  <2>1. Len(s) + i \in 1 .. Len(s \o t)
    BY <1>1
  <2> QED BY <1>3, <2>1 DEF Packets
<1> QED BY <1>4, <1>5, <1>6 DEF Packets

LEMMA PacketsOfBatch ==
  ASSUME NEW S, NEW s \in Seq(S), s # <<>>
  PROVE  Head(s) \in Packets(s) /\ Packets(Tail(s)) \subseteq Packets(s)
<1>1. 1 \in 1 .. Len(s) /\ Head(s) = s[1]
  OBVIOUS
<1>2. ASSUME NEW i \in 1 .. Len(Tail(s))
      PROVE  i + 1 \in 1 .. Len(s) /\ Tail(s)[i] = s[i + 1]
  OBVIOUS
<1> QED BY <1>1, <1>2 DEF Packets

HeartbeatsOnly(list) == \A p \in Packets(list) : p.message.command = "HART"

\* A packet that is not a heartbeat belongs to a client that is still there; the polling
\* thread has dealt with that client in this round and does not close it.
Held(p) ==
  p.message.command # "HART" =>
    /\ p.socket \in Registered /\ fdOwner[p.socket] = p.message.from
    /\ poll.pc \in {"loop", "close", "work"}
    /\ poll.pc # "work" =>
         p.socket \notin poll.terminate \cup poll.in \cup poll.hup \cup {poll.reading}

InHand == Packets(poll.readList) \cup Packets(packetsToRead) \cup Packets(exec.tempList)
            \cup Packets(packetsToWrite) \cup Packets(exec.tempWriteList)

Served == \A p \in InHand : Held(p)

\* A socket is waiting for its turn, has its turn, or is to be closed.
Apart ==
  /\ poll.pc = "wait" => poll.terminate = {}
  /\ poll.pc = "loop" =>
       /\ poll.hup \cap (poll.in \cup {poll.reading}) = {}
       /\ poll.terminate \cap (poll.hup \cup poll.in \cup {poll.reading}) = {}

\* One list after the other is emptied; by the time the thread polls again only
\* heartbeats are left.
Stages ==
  /\ poll.pc # "loop" => poll.readList = <<>>
  /\ exec.pc # "take" => packetsToRead = <<>>
  /\ exec.pc # "run" => exec.tempList = <<>>
  /\ exec.pc # "send" => exec.tempWriteList = <<>>
  /\ exec.pc = "send" => HeartbeatsOnly(packetsToWrite)
  /\ HeartbeatsOnly(health.warnings)

RanOn(p) == p.message.command = "SEND" => p.message.ran

Ran == \A p \in Packets(packetsToWrite) : RanOn(p)

Rounds == Served /\ Apart /\ Stages /\ Ran

\* Other threads add clients, but close none and touch no packet.
LEMMA OthersKeepRounds ==
  ASSUME IInv, Rounds, UNCHANGED <<poll, exec, queueVars>>,
         Registered \subseteq Registered',
         \A f \in Registered : fdOwner'[f] = fdOwner[f],
         HeartbeatsOnly(health'.warnings)
  PROVE  Rounds'
<1>1. InHand' = InHand /\ \A p \in InHand : Held(p)'
  BY DEF Rounds, Served, InHand, Held
<1>2. Served' /\ Ran' /\ Apart'
  BY <1>1 DEF Rounds, Served, Ran, Apart
<1>3. Stages'
  BY DEF Rounds, Stages
<1> QED BY <1>2, <1>3 DEF Rounds

\* The polling thread gets on with its sockets; new packets are of one it has just read.
LEMMA PollingKeepsRounds ==
  ASSUME IInv, Rounds, UNCHANGED <<fdOwner, exec, health>>, Registered' = Registered,
         Apart', poll'.pc # "loop" => poll'.readList = <<>>,
         exec.pc # "take" => packetsToRead' = <<>>,
         exec.pc # "send",
         \A p \in InHand' : p \notin InHand => Held(p)',
         \A p \in InHand : Held(p) => Held(p)',
         Ran'
  PROVE  Rounds'
<1>1. Served'
  BY DEF Rounds, Served
<1>2. Stages'
  BY DEF Rounds, Stages
<1> QED BY <1>1, <1>2 DEF Rounds

\* The assumption on the build: one thread, one packet per read.
Plain == ~ SeparateExec /\ ~ MultiShot

\* While the thread polls it does not execute or write.
LEMMA PollingTurn ==
  ASSUME Plain, IInv, poll.pc # "work" PROVE exec.pc = "take"
  BY DEF Plain, IInv, TurnValid

\* The steps that only sort sockets.
LEMMA SortingKeepsRounds ==
  ASSUME Plain, IInv, Rounds,
         PollUpdate \/ PollWait \/ \E f \in Fds : EventTerminates(f) \/ EventReads(f)
  PROVE  Rounds'
<1>1. exec.pc = "take" /\ poll.pc \in {"update", "wait", "loop"}
  BY PollingTurn DEF PollUpdate, PollWait, EventTerminates, EventReads
<1>2. /\ UNCHANGED <<fdOwner, exec, health, clientInfos, queueVars>>
      /\ Registered' = Registered
  BY DEF PollUpdate, PollWait, EventTerminates, EventReads, Registered
<1>3. poll.hup \subseteq Fds /\ poll.in \subseteq Fds /\ None \notin Fds
      /\ Registered \subseteq Fds
  BY FdsAssumption DEF IInv, PollType, ClientType
<1>4. poll'.readList = poll.readList
  BY DEF PollUpdate, PollWait, EventTerminates, EventReads, IInv, PollType
<1>5. poll.pc # "loop" => poll.reading = None /\ poll.hup = {} /\ poll.in = {}
  BY DEF IInv, EventsValid
<1>6. InHand' = InHand /\ Ran'
  BY <1>2, <1>4 DEF InHand, Rounds, Ran
<1>7. CASE PollUpdate
  <2>1. poll'.pc = "wait" /\ poll'.terminate = {} /\ poll.pc = "update"
    BY <1>7 DEF PollUpdate, IInv, PollType
  <2>2. Apart' /\ \A p \in InHand : Held(p) => Held(p)'
    BY <2>1 DEF Apart, Held
  <2>3. poll'.readList = <<>>
    BY <1>4, <2>1 DEF Rounds, Stages
  <2> QED BY <1>1, <1>2, <1>6, <2>2, <2>3, PollingKeepsRounds
<1>8. CASE PollWait
  <2>1. PICK got : poll' = [poll EXCEPT !.pc = IF got = {} THEN AfterPoll ELSE "loop",
                                        !.hup = {f \in got : HungUp(f)},
                                        !.in = {f \in got : ~ HungUp(f)}]
                   /\ got \subseteq Fds
    BY <1>8 DEF PollWait, IInv, PollSetType
  <2>2. /\ poll'.hup \cap poll'.in = {} /\ poll'.hup \subseteq Fds
        /\ poll'.reading = None /\ poll'.terminate = {} /\ poll.pc = "wait"
    BY <1>5, <1>8, <2>1 DEF PollWait, IInv, PollType, Rounds, Apart
  <2>3. Apart'
    <3>1. poll'.pc # "wait"
      BY <2>1 DEF AfterPoll, IInv, PollType
    <3> QED BY <1>3, <2>2, <3>1 DEF Apart
  <2>4. \A p \in InHand : Held(p) => Held(p)'
    BY <2>2 DEF Held
  <2>5. poll'.readList = <<>>
    BY <1>4, <2>2 DEF Rounds, Stages
  <2> QED BY <1>1, <1>2, <1>6, <2>3, <2>4, <2>5, PollingKeepsRounds
<1>9. ASSUME NEW f \in Fds, EventTerminates(f) PROVE Rounds'
  <2>1. /\ f \in poll.hup \cup poll.in /\ poll.reading = None /\ poll.pc = "loop"
        /\ poll'.pc = poll.pc /\ poll'.reading = None
        /\ poll'.hup = poll.hup \ {f} /\ poll'.in = poll.in \ {f}
        /\ poll'.terminate = poll.terminate \cup {f}
    BY <1>9 DEF EventTerminates, IInv, PollType
  <2>2. Apart'
    BY <1>3, <2>1 DEF Rounds, Apart
  <2>3. \A p \in InHand : Held(p) => Held(p)'
    BY <1>2, <2>1 DEF Held
  <2> QED BY <1>1, <1>2, <1>6, <2>1, <2>2, <2>3, PollingKeepsRounds
<1>10. ASSUME NEW f \in Fds, EventReads(f) PROVE Rounds'
  <2>1. /\ f \in poll.in /\ poll.reading = None /\ poll.pc = "loop"
        /\ poll'.pc = poll.pc /\ poll'.reading = f
        /\ poll'.hup = poll.hup /\ poll'.in = poll.in \ {f}
        /\ poll'.terminate = poll.terminate
    BY <1>10 DEF EventReads, IInv, PollType
  <2>2. Apart'
    BY <2>1 DEF Rounds, Apart
  <2>3. \A p \in InHand : Held(p) => Held(p)'
    BY <1>2, <2>1 DEF Held
  <2> QED BY <1>1, <1>2, <1>6, <2>1, <2>2, <2>3, PollingKeepsRounds
<1> QED BY <1>7, <1>8, <1>9, <1>10

\* ReadForSingleSocket, which reads from each socket once per round.
LEMMA ReadPacketKeepsRounds ==
  ASSUME Plain, IInv, Names, Rounds, ReadPacket PROVE Rounds'
<1> DEFINE f == poll.reading
           c == fdOwner[f]
           message == Head(conn[c].inbox)
           requests == Requests(f, message)
           answers == SetupAnswers(f, message)
<1>1. /\ f \in Registered /\ f \in Fds /\ c \in Conns /\ poll.pc = "loop"
      /\ f # None /\ Reading = conn[c]
      /\ conn[c].inbox \in Seq(Message) /\ conn[c].inbox # <<>>
  BY ReadingOwned DEF ReadPacket, Reading, IInv, KernelType, Connection
<1>2. exec.pc = "take"
  BY <1>1, PollingTurn
<1>3. /\ UNCHANGED <<fdOwner, exec, health, packetsToRead>>
      /\ packetsToWrite' = packetsToWrite \o answers
      /\ clientInfos' = [clientInfos EXCEPT ![f] = ClientAfter(@, message)]
  BY <1>1 DEF ReadPacket, Spliced
<1>4. Registered' = Registered
  BY <1>3 DEF Registered, IInv, ClientType
<1>5. message \in Message /\ message.from = c
  <2>1. 1 \in 1 .. Len(conn[c].inbox) /\ message = conn[c].inbox[1]
    BY <1>1
  <2> QED BY <1>1, <2>1 DEF Names, InboxOwn
<1>6. /\ poll'.pc = "loop" /\ poll'.reading = None /\ poll'.terminate = poll.terminate
      /\ poll'.hup = poll.hup /\ poll'.in = poll.in
      /\ poll'.readList = poll.readList \o requests
  BY <1>1 DEF Plain, ReadPacket, IInv, PollType
<1>7. f \notin poll.terminate \cup poll.in \cup poll.hup
  BY <1>1 DEF Rounds, Apart, IInv, EventsValid
<1>8. Apart'
  <2>1. None \notin poll.terminate \cup poll.hup \cup poll.in
    BY FdsAssumption DEF IInv, PollType
  <2>2. poll.hup \cap poll.in = {} /\ poll.terminate \cap (poll.hup \cup poll.in) = {}
    BY <1>1 DEF Rounds, Apart
  <2> QED BY <1>6, <2>1, <2>2 DEF Apart
<1>9. ASSUME NEW p, p.socket = f, p.message.from = c PROVE Held(p)'
  BY <1>1, <1>3, <1>4, <1>6, <1>7, <1>9 DEF Held
<1> HIDE DEF message
<1>10. /\ requests \in Seq(NetworkPacket)
       /\ \A p \in Packets(requests) : p.socket = f /\ p.message.from = c
  <2> DEFINE packet == [socket |-> f, message |-> message]
  <2>1. packet \in NetworkPacket /\ packet.socket = f /\ packet.message.from = c
    BY <1>1, <1>5 DEF NetworkPacket
  <2> HIDE DEF packet
  <2>2. Packets(<<packet>>) = {packet}
    BY DEF Packets
  <2>3. requests \in {<<>>, <<packet>>}
    BY DEF Requests, packet
  <2> HIDE DEF requests
  <2>4. <<>> \in Seq(NetworkPacket) /\ <<packet>> \in Seq(NetworkPacket)
    BY <2>1
  <2> QED BY <2>1, <2>2, <2>3, <2>4, PacketsOfNone
<1>11. /\ answers \in Seq(NetworkPacket)
       /\ \A p \in Packets(answers) : p.socket = f /\ p.message.from = c /\ RanOn(p)
  <2>1. ASSUME NEW command \in {"SYNC", "JOIN"}
        PROVE  /\ <<ServerPacket(f, command)>> \in Seq(NetworkPacket)
               /\ \A p \in Packets(<<ServerPacket(f, command)>>) :
                    p.socket = f /\ p.message.from = c /\ RanOn(p)
    <3> DEFINE packet == ServerPacket(f, command)
    <3>1. packet \in NetworkPacket
      BY <1>1, ServerPacketType DEF IInv, Commands
    <3>2. packet.socket = f /\ packet.message.from = c /\ RanOn(packet)
      BY DEF ServerPacket, RanOn
    <3> HIDE DEF packet
    <3>3. Packets(<<packet>>) = {packet}
      BY DEF Packets
    <3> QED BY <3>1, <3>2, <3>3 DEF packet
  <2>2. answers \in {<<>>, <<ServerPacket(f, "SYNC")>>, <<ServerPacket(f, "JOIN")>>}
    BY DEF SetupAnswers
  <2> HIDE DEF answers
  <2>3. <<>> \in Seq(NetworkPacket)
    OBVIOUS
  <2> QED BY <2>1, <2>2, <2>3, PacketsOfNone
<1> HIDE DEF requests, answers
<1>12. /\ Packets(poll'.readList) = Packets(poll.readList) \cup Packets(requests)
       /\ Packets(packetsToWrite') = Packets(packetsToWrite) \cup Packets(answers)
  BY <1>3, <1>6, <1>10, <1>11, PacketsJoined DEF IInv, PollType, QueueType
<1>13. InHand' = InHand \cup Packets(requests) \cup Packets(answers)
  BY <1>3, <1>12 DEF InHand
<1>14. Ran'
  BY <1>11, <1>12 DEF Rounds, Ran, RanOn
<1>15. \A p \in InHand : Held(p) => Held(p)'
  BY <1>1, <1>3, <1>4, <1>6, FdsAssumption DEF Held, IInv, ClientType
<1>16. \A p \in InHand' : p \notin InHand => Held(p)'
  BY <1>9, <1>10, <1>11, <1>13
<1>17. exec.pc # "take" => packetsToRead' = <<>>
  BY <1>2
<1> QED BY <1>2, <1>3, <1>4, <1>6, <1>8, <1>14, <1>15, <1>16, <1>17, PollingKeepsRounds

\* A socket that failed has given no packet in this round.
LEMMA ReadFailsKeepsRounds ==
  ASSUME Plain, IInv, Rounds, ReadFails PROVE Rounds'
<1> DEFINE f == poll.reading
<1>1. f \in Registered /\ f \in Fds /\ poll.pc = "loop" /\ exec.pc = "take"
  <2>1. poll.pc = "loop" /\ f # None
    BY DEF ReadFails
  <2> QED BY <2>1, ReadingOwned, PollingTurn
<1>2. /\ UNCHANGED <<fdOwner, exec, health, queueVars>>
      /\ clientInfos' = [clientInfos EXCEPT ![f].deadline = Hit(@)]
  BY DEF ReadFails
<1>3. Registered' = Registered
  BY <1>2 DEF Registered, IInv, ClientType
<1>4. /\ poll'.pc = "loop" /\ poll'.reading = None /\ poll'.terminate = poll.terminate \cup {f}
      /\ poll'.hup = poll.hup /\ poll'.in = poll.in /\ poll'.readList = poll.readList
  BY DEF ReadFails, IInv, PollType
<1>5. f \notin poll.in \cup poll.hup
  BY <1>1, FdsAssumption DEF Rounds, Apart, IInv, EventsValid
<1>6. Apart'
  <2>1. None \notin poll.terminate \cup poll.hup \cup poll.in \cup {f}
    BY <1>1, FdsAssumption DEF IInv, PollType
  <2>2. poll.hup \cap poll.in = {} /\ poll.terminate \cap (poll.hup \cup poll.in) = {}
    BY <1>1 DEF Rounds, Apart
  <2> QED BY <1>4, <1>5, <2>1, <2>2 DEF Apart
<1>7. InHand' = InHand /\ Ran'
  BY <1>2, <1>4 DEF InHand, Rounds, Ran
<1>8. \A p \in InHand : Held(p) => Held(p)'
  BY <1>1, <1>2, <1>3, <1>4, FdsAssumption DEF Held, IInv, ClientType
<1> QED BY <1>1, <1>2, <1>3, <1>4, <1>6, <1>7, <1>8, PollingKeepsRounds

\* The packets of a round go to Execute.
LEMMA PollFinishKeepsRounds ==
  ASSUME Plain, IInv, Rounds, PollFinish PROVE Rounds'
<1>1. /\ poll.pc = "loop" /\ poll.reading = None /\ poll.hup = {} /\ poll.in = {}
      /\ packetsToRead' = packetsToRead \o poll.readList
      /\ UNCHANGED <<fdOwner, exec, health, clientInfos, packetsToWrite>>
  BY DEF PollFinish, Spliced
<1>2. exec.pc = "take" /\ Registered' = Registered
  BY <1>1, PollingTurn DEF Registered
<1>3. /\ poll'.pc \in {"close", "work"} /\ poll'.reading = None /\ poll'.readList = <<>>
      /\ poll'.hup = {} /\ poll'.in = {} /\ poll'.terminate = poll.terminate
  BY <1>1 DEF Plain, PollFinish, AfterPoll, IInv, PollType
<1>4. Packets(packetsToRead') = Packets(packetsToRead) \cup Packets(poll.readList)
  BY <1>1, PacketsJoined DEF IInv, PollType, QueueType
<1>5. InHand' = InHand /\ Ran'
  BY <1>1, <1>3, <1>4, PacketsOfNone DEF InHand, Rounds, Ran
<1>6. Apart' /\ \A p \in InHand : Held(p) => Held(p)'
  BY <1>1, <1>2, <1>3 DEF Apart, Held
<1>7. exec.pc # "take" => packetsToRead' = <<>>
  BY <1>2
<1> QED BY <1>1, <1>2, <1>3, <1>5, <1>6, <1>7, PollingKeepsRounds

\* What is closed has no packet in any list.
LEMMA PollCloseKeepsRounds ==
  ASSUME Plain, IInv, Rounds, PollClose PROVE Rounds'
<1>1. /\ poll.pc = "close" /\ UNCHANGED <<exec, health, queueVars>>
      /\ fdOwner' = OwnersAfterClose(poll.terminate \cap Registered)
      /\ clientInfos' = ClientsWithout(poll.terminate \cap Registered)
      /\ poll' = [poll EXCEPT !.pc = "work"]
  BY DEF Plain, PollClose, AfterPoll
<1>2. exec.pc = "take" /\ poll.readList = <<>>
  BY <1>1, PollingTurn DEF Rounds, Stages
<1>3. poll'.pc = "work" /\ poll'.readList = poll.readList
  BY <1>1 DEF IInv, PollType
<1>4. InHand' = InHand
  BY <1>1, <1>3 DEF InHand
<1>5. Served'
  <2>1. Registered' = Registered \ poll.terminate
    BY <1>1 DEF ClientsWithout, Registered
  <2>2. \A f \in Registered \ poll.terminate : fdOwner'[f] = fdOwner[f]
    BY <1>1 DEF OwnersAfterClose, IInv, ClientType
  <2>3. ASSUME NEW p \in InHand PROVE Held(p)'
    <3>1. Held(p)
      BY DEF Rounds, Served
    <3> QED BY <1>1, <1>3, <2>1, <2>2, <3>1 DEF Held
  <2> QED BY <1>4, <2>3 DEF Served
<1>6. Ran' /\ Apart' /\ Stages'
  BY <1>1, <1>2, <1>3 DEF Rounds, Ran, Apart, Stages
<1> QED BY <1>5, <1>6 DEF Rounds

(***************************************************************************)
(* Execute and Write, by the polling thread.                                *)
(***************************************************************************)
\* While the clients and the thread stay where they are, so do the packets' clients.
LEMMA ExecutingServes ==
  ASSUME IInv, Rounds, poll.pc = "work", poll'.pc = "work", UNCHANGED <<fdOwner, clientInfos>>,
         NEW p \in InHand
  PROVE  Held(p)'
  BY DEF Rounds, Served, Held, Registered

\* Execute takes what was read.
LEMMA ExecTakeKeepsRounds ==
  ASSUME Plain, IInv, Rounds, ExecTake PROVE Rounds'
<1>1. /\ poll.pc = "work" /\ exec.pc = "take" /\ packetsToRead' = <<>>
      /\ UNCHANGED <<fdOwner, clientInfos, packetsToWrite, poll, health>>
      /\ exec'.tempList = packetsToRead /\ exec'.tempWriteList = exec.tempWriteList
      /\ exec'.pc = IF packetsToRead = <<>> THEN "gather" ELSE "run"
  BY DEF Plain, ExecTake, MayExecute, IInv, ExecType
<1>2. InHand' \subseteq InHand
  BY <1>1, PacketsOfNone DEF InHand
<1>3. Served'
  BY <1>1, <1>2, ExecutingServes DEF Served
<1>4. Ran' /\ Apart' /\ Stages'
  BY <1>1 DEF Rounds, Ran, Apart, Stages
<1> QED BY <1>3, <1>4 DEF Rounds

\* The callback runs on every packet, since its client is there.
LEMMA ExecRunKeepsRounds ==
  ASSUME Plain, IInv, Rounds, ExecRun PROVE Rounds'
<1> DEFINE called == [i \in DOMAIN exec.tempList |-> Called(exec.tempList[i])]
<1>1. /\ exec.pc = "run" /\ UNCHANGED <<fdOwner, clientInfos, packetsToRead, poll, health>>
      /\ packetsToWrite' \in {packetsToWrite, packetsToWrite \o called}
      /\ exec'.pc = "gather" /\ exec'.tempList = <<>>
      /\ exec'.tempWriteList = exec.tempWriteList
  BY DEF ExecRun, Spliced, IInv, ExecType
<1>2. poll.pc = "work"
  BY <1>1 DEF Plain, IInv, TurnValid
<1>3. /\ exec.tempList \in Seq(NetworkPacket) /\ called \in Seq(NetworkPacket)
      /\ \A q \in Packets(called) : \E p \in Packets(exec.tempList) : q = Called(p)
  <2>1. exec.tempList \in Seq(NetworkPacket)
    BY DEF IInv, ExecType
  <2>2. called = [i \in 1 .. Len(exec.tempList) |-> Called(exec.tempList[i])]
    BY <2>1
  <2>3. \A i \in 1 .. Len(exec.tempList) : Called(exec.tempList[i]) \in NetworkPacket
    BY <2>1, CalledType DEF IInv
  <2>4. called \in Seq(NetworkPacket) /\ Len(called) = Len(exec.tempList)
    BY <2>1, <2>2, <2>3
  <2>5. \A i \in 1 .. Len(exec.tempList) : called[i] = Called(exec.tempList[i])
    BY <2>2
  <2> HIDE DEF called
  <2> QED BY <2>1, <2>4, <2>5 DEF Packets
<1> HIDE DEF called
<1>4. ASSUME NEW q \in Packets(called) PROVE Held(q)' /\ RanOn(q)
  <2>1. PICK p \in Packets(exec.tempList) : q = Called(p)
    BY <1>3
  <2>2. p \in NetworkPacket
    BY <1>3 DEF Packets
  <2>3. p.message \in Message
    BY <2>2 DEF NetworkPacket
  <2>4. Held(p)
    BY DEF Rounds, Served, InHand
  <2>5. CASE p.socket \notin Registered
    <3>1. q = p /\ p.message.command = "HART"
      BY <2>1, <2>4, <2>5 DEF Called, Held
    <3> QED BY <3>1 DEF Held, RanOn
  <2>6. CASE p.socket \in Registered
    <3>1. /\ q.socket = p.socket /\ q.message.ran = TRUE
          /\ q.message.command = p.message.command /\ q.message.from = p.message.from
      BY <2>1, <2>2, <2>3, <2>6 DEF Called, NetworkPacket, Message
    <3> QED BY <1>1, <1>2, <2>4, <3>1 DEF Held, RanOn, Registered
  <2> QED BY <2>5, <2>6
<1>5. Packets(packetsToWrite') \subseteq Packets(packetsToWrite) \cup Packets(called)
  <2>1. packetsToWrite \in Seq(NetworkPacket)
    BY DEF IInv, QueueType
  <2>2. Packets(packetsToWrite \o called) = Packets(packetsToWrite) \cup Packets(called)
    BY <1>3, <2>1, PacketsJoined
  <2> QED BY <1>1, <2>2
<1>6. Ran'
  BY <1>4, <1>5 DEF Rounds, Ran, RanOn
<1>7. InHand' \subseteq InHand \cup Packets(called)
  BY <1>1, <1>5, PacketsOfNone DEF InHand
<1>8. Served'
  <2>1. \A p \in InHand : Held(p)'
    BY <1>1, <1>2, ExecutingServes
  <2> QED BY <1>4, <1>7, <2>1 DEF Served
<1>9. Apart' /\ Stages'
  BY <1>1, <1>2 DEF Rounds, Apart, Stages
<1> QED BY <1>6, <1>8, <1>9 DEF Rounds

\* Write moves on: the thread keeps its turn, or has nothing left but heartbeats.
LEMMA WritingKeepsRounds ==
  ASSUME Plain, IInv, Rounds, UNCHANGED <<fdOwner, clientInfos, packetsToRead, health>>,
         NEW pc \in {"take", "send"}, exec'.pc = pc, poll' = PollAfterWrite(pc),
         exec.pc \in {"gather", "send"}, exec'.tempList = exec.tempList,
         pc = "take" => exec'.tempWriteList = <<>>,
         HeartbeatsOnly(packetsToWrite'), InHand' \subseteq InHand,
         Packets(packetsToWrite') \subseteq Packets(packetsToWrite)
  PROVE  Rounds'
<1>1. /\ poll.pc = "work" /\ poll.readList = <<>> /\ packetsToRead = <<>>
      /\ exec.tempList = <<>>
  BY DEF Plain, IInv, TurnValid, Rounds, Stages
<1>2. /\ poll'.pc = IF pc = "take" THEN "update" ELSE "work"
      /\ poll'.readList = <<>>
  BY <1>1 DEF Plain, PollAfterWrite, IInv, PollType
<1>3. Ran' /\ Apart'
  BY <1>2 DEF Rounds, Ran, Apart
<1>4. HeartbeatsOnly(packetsToWrite)' /\ HeartbeatsOnly(health.warnings)'
  BY DEF HeartbeatsOnly, Rounds, Stages
<1>5. Stages'
  BY <1>1, <1>2, <1>4 DEF Stages
<1>6. Served'
  <2>1. CASE pc = "send"
    BY <1>1, <1>2, <2>1, ExecutingServes DEF Served
  <2>2. CASE pc = "take"
    <3>1. InHand' = Packets(packetsToWrite')
      BY <1>1, <1>2, <2>2, PacketsOfNone DEF InHand
    <3> QED BY <3>1 DEF Served, Held, HeartbeatsOnly
  <2> QED BY <2>1, <2>2
<1> QED BY <1>3, <1>5, <1>6 DEF Rounds

LEMMA WriteGatherKeepsRounds ==
  ASSUME Plain, IInv, Rounds, WriteGather PROVE Rounds'
<1> DEFINE pc == IF packetsToWrite = <<>> THEN "take" ELSE "send"
<1>1. /\ exec.pc = "gather" /\ exec'.pc = pc /\ poll' = PollAfterWrite(pc)
      /\ exec'.tempList = exec.tempList /\ exec'.tempWriteList = packetsToWrite
      /\ packetsToWrite' = <<>>
      /\ UNCHANGED <<fdOwner, clientInfos, packetsToRead, health>>
  BY DEF WriteGather, IInv, ExecType
<1>2. pc \in {"take", "send"} /\ (pc = "take" => packetsToWrite = <<>>)
  OBVIOUS
<1> HIDE DEF pc
<1>3. poll'.readList = poll.readList
  BY <1>1 DEF PollAfterWrite, IInv, PollType
<1>4. /\ InHand' \subseteq InHand /\ HeartbeatsOnly(packetsToWrite')
      /\ Packets(packetsToWrite') \subseteq Packets(packetsToWrite)
  BY <1>1, <1>3, PacketsOfNone DEF InHand, HeartbeatsOnly
<1> QED BY <1>1, <1>2, <1>4, WritingKeepsRounds

LEMMA WriteSendsKeepsRounds ==
  ASSUME Plain, IInv, Rounds, WriteSends PROVE Rounds'
<1> DEFINE rest == Tail(exec.tempWriteList)
           pc == IF rest = <<>> THEN "take" ELSE "send"
<1>1. /\ exec.pc = "send" /\ exec'.pc = pc /\ poll' = PollAfterWrite(pc)
      /\ exec'.tempList = exec.tempList /\ exec'.tempWriteList = rest
      /\ UNCHANGED <<fdOwner, clientInfos, packetsToRead, packetsToWrite, health>>
  BY DEF WriteSends, IInv, ExecType
<1>2. pc \in {"take", "send"} /\ (pc = "take" => rest = <<>>)
  OBVIOUS
<1>3. Packets(rest) \subseteq Packets(exec.tempWriteList)
  BY <1>1, PacketsOfBatch DEF IInv, ExecType, SendValid
<1> HIDE DEF rest, pc
<1>4. poll'.readList = poll.readList
  BY <1>1 DEF PollAfterWrite, IInv, PollType
<1>5. InHand' \subseteq InHand
  BY <1>1, <1>3, <1>4 DEF InHand
<1>6. HeartbeatsOnly(packetsToWrite')
  BY <1>1 DEF HeartbeatsOnly, Rounds, Stages
<1> QED BY <1>1, <1>2, <1>5, <1>6, WritingKeepsRounds

LEMMA WriteFailsKeepsRounds ==
  ASSUME Plain, IInv, Rounds, WriteFails PROVE Rounds'
<1>1. /\ exec.pc = "send" /\ exec'.pc = "take" /\ poll' = PollAfterWrite("take")
      /\ exec'.tempList = exec.tempList /\ exec'.tempWriteList = <<>>
      /\ UNCHANGED <<fdOwner, clientInfos, packetsToRead, packetsToWrite, health>>
  BY DEF WriteFails, IInv, ExecType
<1>2. poll'.readList = poll.readList
  BY <1>1 DEF PollAfterWrite, IInv, PollType
<1>3. InHand' \subseteq InHand
  BY <1>1, <1>2, PacketsOfNone DEF InHand
<1>4. HeartbeatsOnly(packetsToWrite')
  BY <1>1 DEF HeartbeatsOnly, Rounds, Stages
<1> QED BY <1>1, <1>3, <1>4, WritingKeepsRounds

\* The health check puts nothing but heartbeats among the packets to write.
LEMMA HealthMarkKeepsRounds ==
  ASSUME IInv, Rounds, HealthMark PROVE Rounds'
<1> DEFINE heartbeat == ServerPacket(health.marking, "HART")
<1>1. /\ UNCHANGED <<fdOwner, poll, exec, queueVars>>
      /\ Registered' = Registered
      /\ health'.warnings = Append(health.warnings, heartbeat)
  BY DEF HealthMark, Registered, IInv, HealthType, ClientType
<1>2. heartbeat.message.command = "HART" /\ heartbeat \in NetworkPacket
  <2>1. health.marking \in Fds
    BY RegisteredOwned DEF HealthMark, IInv, MarkValid
  <2> QED BY <2>1, ServerPacketType DEF IInv, Commands, ServerPacket
<1> HIDE DEF heartbeat
<1>3. health.warnings \in Seq(NetworkPacket)
  BY DEF IInv, HealthType
<1>4. Packets(health'.warnings) = Packets(health.warnings) \cup {heartbeat}
  BY <1>1, <1>2, <1>3, PacketsAppended
<1>5. HeartbeatsOnly(health'.warnings)
  BY <1>2, <1>4 DEF HeartbeatsOnly, Rounds, Stages
<1> QED BY <1>1, <1>5, OthersKeepRounds

LEMMA HealthWarnKeepsRounds ==
  ASSUME IInv, Rounds, HealthWarn PROVE Rounds'
<1>1. /\ UNCHANGED <<fdOwner, clientInfos, poll, exec, packetsToRead>>
      /\ packetsToWrite' = packetsToWrite \o health.warnings /\ health'.warnings = <<>>
  BY DEF HealthWarn, Spliced, IInv, HealthType
<1>2. Packets(packetsToWrite') = Packets(packetsToWrite) \cup Packets(health.warnings)
  BY <1>1, PacketsJoined DEF IInv, QueueType, HealthType
<1>3. \A p \in Packets(health.warnings) : p.message.command = "HART"
  BY DEF Rounds, Stages, HeartbeatsOnly
<1>4. InHand' = InHand \cup Packets(health.warnings)
  BY <1>1, <1>2 DEF InHand
<1>5. Served'
  <2>1. ASSUME NEW p \in InHand PROVE Held(p)'
    BY <1>1 DEF Rounds, Served, Held, Registered
  <2> QED BY <1>3, <1>4, <2>1 DEF Served, Held
<1>6. Ran' /\ Apart'
  BY <1>1, <1>2, <1>3 DEF Rounds, Ran, RanOn, Apart
<1>7. Stages'
  BY <1>1, <1>2, <1>3, PacketsOfNone DEF Rounds, Stages, HeartbeatsOnly
<1> QED BY <1>5, <1>6, <1>7 DEF Rounds

LEMMA RoundsKept == Plain /\ IInv /\ Names /\ Rounds /\ [Next]_vars => Rounds'
<1> SUFFICES ASSUME Plain, IInv, Names, Rounds, [Next]_vars PROVE Rounds'
  OBVIOUS
<1>1. HeartbeatsOnly(health.warnings)
  BY DEF Rounds, Stages
<1>2. ASSUME UNCHANGED <<fdOwner, clientInfos, poll, exec, queueVars>>,
             health'.warnings = health.warnings
      PROVE  Rounds'
  BY <1>1, <1>2, OthersKeepRounds DEF Registered
<1>3. CASE \E c \in Conns, f \in Fds : Accept(c, f)
  <2>1. PICK c \in Conns, f \in Fds : Accept(c, f)
    BY <1>3
  <2>2. f \notin Registered
    BY <2>1, RegisteredOwned, ConnsAssumption DEF Accept, IInv
  <2>3. Registered' = Registered /\ \A g \in Registered : fdOwner'[g] = fdOwner[g]
    BY <2>1, <2>2 DEF Accept, Registered, IInv, KernelType, ClientType
  <2> QED BY <1>1, <2>1, <2>3, OthersKeepRounds DEF Accept
<1>4. CASE Insert
  <2>1. Registered \subseteq Registered'
    BY <1>4 DEF Insert, ClientsWith, Registered
  <2> QED BY <1>1, <1>4, <2>1, OthersKeepRounds DEF Insert
<1>5. CASE PeerStep \/ IncPriority \/ UpdateSingle \/ UNCHANGED vars
           \/ \E f \in Fds : TimePasses(f)
  BY <1>2, <1>5 DEF PeerStep, PeerSend, PeerReceive, PeerClose, IncPriority, UpdateSingle,
                    vars, TimePasses
<1>6. CASE PollStep
  BY <1>6, SortingKeepsRounds, ReadPacketKeepsRounds, ReadFailsKeepsRounds,
     PollFinishKeepsRounds, PollCloseKeepsRounds DEF PollStep
<1>7. CASE ExecStep
  BY <1>7, ExecTakeKeepsRounds, ExecRunKeepsRounds, WriteGatherKeepsRounds,
     WriteSendsKeepsRounds, WriteFailsKeepsRounds DEF ExecStep
<1>8. CASE HealthStep
  <2>1. ASSUME HealthSelect \/ HealthClose
               \/ \E f \in Fds : HealthCondemns(f) \/ HealthSpares(f)
        PROVE  Rounds'
    BY <1>2, <2>1 DEF HealthSelect, HealthClose, HealthCondemns, HealthSpares, IInv, HealthType
  <2> QED BY <1>8, <2>1, HealthMarkKeepsRounds, HealthWarnKeepsRounds DEF HealthStep
<1> QED BY <1>3, <1>4, <1>5, <1>6, <1>7, <1>8 DEF Next, AddStep

(***************************************************************************)
(* What reaches a peer.                                                     *)
(***************************************************************************)
\* Only Write adds to what a peer receives, and it sends a packet of the peer's.
LEMMA AnswersKept ==
  Plain /\ IInv /\ Rounds /\ AnswersOwnRequests /\ [Next]_vars => AnswersOwnRequests'
<1> SUFFICES ASSUME Plain, IInv, Rounds, AnswersOwnRequests, [Next]_vars
             PROVE  AnswersOwnRequests'
  OBVIOUS
<1>1. conn \in [Conns -> Connection]
  BY DEF IInv, KernelType
<1>2. ASSUME \A c \in Conns : conn'[c].outbox = conn[c].outbox PROVE AnswersOwnRequests'
  BY <1>2 DEF AnswersOwnRequests
<1>3. \A fds : \A c \in Conns : ShutDown(fds)[c].outbox = conn[c].outbox
  BY <1>1 DEF ShutDown, Connection
<1>4. \A fds : \A c \in Conns : ConnsAfterClose(fds)[c].outbox = conn[c].outbox
  BY <1>1 DEF ConnsAfterClose, Connection
<1>5. CASE WriteSends
  <2> DEFINE packet == Head(exec.tempWriteList)
             c == Target
             outbox == Append(conn[c].outbox, packet.message)
  <2>1. packet \in NetworkPacket /\ packet \in InHand
    BY <1>5, PacketsOfBatch DEF WriteSends, IInv, SendValid, ExecType, InHand
  <2>2. c \in Conns /\ c = fdOwner[packet.socket]
    BY <1>5, <2>1 DEF WriteSends, Target, IInv, KernelType, NetworkPacket
  <2>3. packet.message.command # "HART" => packet.message.from = c
    BY <2>1, <2>2 DEF Rounds, Served, Held
  <2>4. /\ conn'[c].outbox \in {conn[c].outbox, outbox}
        /\ \A d \in Conns : d # c => conn'[d] = conn[d]
    BY <1>1, <1>5, <2>2 DEF WriteSends, Delivered, Connection
  <2>5. conn[c].outbox \in Seq(Message)
    BY <1>1, <2>2 DEF Connection
  <2> HIDE DEF packet, c
  <2>6. ASSUME NEW i \in DOMAIN outbox, outbox[i].command # "HART"
        PROVE  outbox[i].from = c
    <3>1. CASE i = Len(conn[c].outbox) + 1
      BY <2>3, <2>5, <2>6, <3>1
    <3>2. CASE i # Len(conn[c].outbox) + 1
      <4>1. i \in DOMAIN conn[c].outbox /\ outbox[i] = conn[c].outbox[i]
        BY <2>5, <2>6, <3>2
      <4> QED BY <2>2, <2>6, <4>1 DEF AnswersOwnRequests
    <3> QED BY <3>1, <3>2
  <2> HIDE DEF outbox
  <2> QED BY <2>2, <2>4, <2>6 DEF AnswersOwnRequests
<1>6. CASE PeerStep \/ \E c \in Conns, f \in Fds : Accept(c, f)
  <2>1. ASSUME NEW c \in Conns, NEW command, PeerSend(c, command) PROVE AnswersOwnRequests'
    BY <1>1, <1>2, <2>1 DEF PeerSend, Connection
  <2>2. ASSUME NEW c \in Conns, PeerReceive(c) PROVE AnswersOwnRequests'
    BY <1>1, <1>2, <2>2 DEF PeerReceive, Connection
  <2>3. ASSUME NEW c \in Conns, PeerClose(c) PROVE AnswersOwnRequests'
    BY <1>1, <1>2, <2>3 DEF PeerClose, Connection
  <2>4. ASSUME NEW c \in Conns, NEW f \in Fds, Accept(c, f) PROVE AnswersOwnRequests'
    BY <1>1, <1>2, <2>4 DEF Accept, Connection
  <2> QED BY <1>6, <2>1, <2>2, <2>3, <2>4 DEF PeerStep
<1>7. CASE ReadPacket
  <2>1. \A c \in Conns : conn'[c].outbox = conn[c].outbox
    BY <1>1, <1>7 DEF ReadPacket, Reading, Connection
  <2> QED BY <1>2, <2>1
<1>8. CASE PollClose
  BY <1>2, <1>4, <1>8 DEF PollClose
<1>9. ASSUME conn' = conn \/ \E fds \in SUBSET Fds : conn' = ShutDown(fds)
      PROVE  AnswersOwnRequests'
  BY <1>2, <1>3, <1>9
<1>10. CASE PollStep
  <2>1. ASSUME ReadFails PROVE AnswersOwnRequests'
    <3>1. conn' = ShutDown({poll.reading}) /\ {poll.reading} \in SUBSET Fds
      BY <2>1, ReadingOwned DEF ReadFails
    <3> QED BY <1>9, <3>1
  <2> QED BY <1>7, <1>8, <1>9, <1>10, <2>1
          DEF PollStep, PollUpdate, PollWait, EventTerminates, EventReads, PollFinish
<1>11. CASE ExecStep
  <2>1. ASSUME WriteFails PROVE AnswersOwnRequests'
    <3>1. PICK f : conn' = ShutDown({f})
      BY <2>1 DEF WriteFails
    <3> QED BY <1>2, <1>3, <3>1
  <2> QED BY <1>5, <1>9, <1>11, <2>1 DEF ExecStep, ExecTake, ExecRun, WriteGather
<1>12. CASE HealthStep
  <2>1. health.selected \in SUBSET Fds
    BY DEF IInv, HealthType
  <2> QED BY <1>9, <1>12, <2>1 DEF HealthStep, HealthSelect, HealthCondemns, HealthSpares,
                                   HealthMark, HealthWarn, HealthClose
<1>13. CASE AddStep \/ UNCHANGED vars \/ \E f \in Fds : TimePasses(f)
  BY <1>9, <1>13 DEF AddStep, Insert, IncPriority, UpdateSingle, vars, TimePasses
<1> QED BY <1>6, <1>10, <1>11, <1>12, <1>13 DEF Next

LEMMA InitRounds == Init => Rounds /\ AnswersOwnRequests
<1> SUFFICES ASSUME Init PROVE Rounds /\ AnswersOwnRequests
  OBVIOUS
<1>1. InHand = {} /\ HeartbeatsOnly(health.warnings) /\ Packets(packetsToWrite) = {}
  BY PacketsOfNone DEF Init, InHand, HeartbeatsOnly
<1>2. Rounds
  BY <1>1 DEF Init, Rounds, Served, Apart, Stages, Ran
<1>3. \A c \in Conns : conn[c].outbox = <<>>
  BY DEF Init
<1>4. \A c \in Conns : DOMAIN conn[c].outbox = {}
  BY <1>3
<1> QED BY <1>2, <1>4 DEF AnswersOwnRequests

LEMMA RoundsHold == ASSUME Plain PROVE Spec => [](Names /\ Rounds /\ AnswersOwnRequests)
<1>1. Init => Names
  BY NamesAtStart
<1>2. IInv /\ Names /\ Rounds /\ AnswersOwnRequests /\ [Next]_vars =>
        Names' /\ Rounds' /\ AnswersOwnRequests'
  BY NamesKept, RoundsKept, AnswersKept
<1> QED BY <1>1, <1>2, InitRounds, Invariance, PTL DEF Spec

\* In the build with one thread and one packet per read, what Execute and the set-up
\* produce reaches the connection that asked for it, though packets carry a descriptor
\* only and descriptors are reused.
THEOREM AnswersReachTheirPeers == ASSUME Plain PROVE Spec => []AnswersOwnRequests
<1> QED BY RoundsHold, PTL

\* In that build the callback ran on every request before it is written back, for no
\* client is closed while a packet of it waits for Execute.
THEOREM CallbackRanFirst == ASSUME Plain PROVE Spec => []CallbackRanOnEverything
<1>1. IInv /\ Rounds => CallbackRanOnEverything
  <2> SUFFICES ASSUME IInv, Rounds PROVE CallbackRanOnEverything
    OBVIOUS
  <2>1. DOMAIN packetsToWrite = 1 .. Len(packetsToWrite)
    BY DEF IInv, QueueType
  <2> QED BY <2>1 DEF Rounds, Ran, RanOn, Packets, CallbackRanOnEverything
<1> QED BY <1>1, RoundsHold, Invariance, PTL

(***************************************************************************)
(* The order of replies, in every build. A request has a ticket: who sent   *)
(* it, and as which of its packets. On its way a request goes from list to  *)
(* list, and those in later lists never overtake those in earlier ones.     *)
(***************************************************************************)
Ticket(message) == [from |-> message.from, seq |-> message.seq]

Before(first, second) == first.from = second.from => first.seq < second.seq

InFront(A, B) == \A first \in A, second \in B : Before(first, second)

Tickets(list) ==
  {Ticket(p.message) : p \in {q \in Packets(list) : q.message.command = "SEND"}}

InOrder(list) ==
  \A i, j \in 1 .. Len(list) :
    i < j /\ list[i].message.command = "SEND" /\ list[j].message.command = "SEND"
      => Before(Ticket(list[i].message), Ticket(list[j].message))

\* What peers have received, what was sent and not read yet, and what may still be sent.
Replied == {Ticket(message) : message \in UNION
              {{m \in {conn[c].outbox[i] : i \in 1 .. Len(conn[c].outbox)} :
                  m.command = "SEND"} : c \in Conns}}

Waiting == UNION {{[from |-> c, seq |-> conn[c].inbox[i].seq] :
                     i \in 1 .. Len(conn[c].inbox)} : c \in Conns}

Coming == UNION {{[from |-> c, seq |-> n] : n \in {k \in Nat : conn[c].sent < k}} :
                   c \in Conns}

InLine(replied, sending, writing, running, toRun, listed, waiting, coming) ==
  /\ InFront(replied, sending \cup writing \cup running \cup toRun \cup listed
                        \cup waiting \cup coming)
  /\ InFront(sending, writing \cup running \cup toRun \cup listed \cup waiting \cup coming)
  /\ InFront(writing, running \cup toRun \cup listed \cup waiting \cup coming)
  /\ InFront(running, toRun \cup listed \cup waiting \cup coming)
  /\ InFront(toRun, listed \cup waiting \cup coming)
  /\ InFront(listed, waiting \cup coming)
  /\ InFront(waiting, coming)

Line == InLine(Replied, Tickets(exec.tempWriteList), Tickets(packetsToWrite),
               Tickets(exec.tempList), Tickets(packetsToRead), Tickets(poll.readList),
               Waiting, Coming)

ListsInOrder ==
  /\ InOrder(exec.tempWriteList) /\ InOrder(packetsToWrite) /\ InOrder(exec.tempList)
  /\ InOrder(packetsToRead) /\ InOrder(poll.readList)

InboxInOrder ==
  \A c \in Conns : \A i, j \in 1 .. Len(conn[c].inbox) :
    i < j => conn[c].inbox[i].seq < conn[c].inbox[j].seq

OneByOne == /\ RepliesInOrder /\ InboxInOrder /\ ListsInOrder /\ Line
            /\ HeartbeatsOnly(health.warnings)

(***************************************************************************)
(* Lists in order.                                                          *)
(***************************************************************************)
LEMMA TicketOf ==
  ASSUME NEW list, NEW i \in 1 .. Len(list), list[i].message.command = "SEND"
  PROVE  Ticket(list[i].message) \in Tickets(list)
BY DEF Tickets, Packets

LEMMA NoTickets ==
  ASSUME NEW list, \A p \in Packets(list) : p.message.command # "SEND"
  PROVE  Tickets(list) = {} /\ InOrder(list)
BY DEF Tickets, InOrder, Packets

LEMMA OrderOfNone == Tickets(<<>>) = {} /\ InOrder(<<>>)
BY NoTickets, PacketsOfNone

LEMMA OrderJoined ==
  ASSUME NEW s \in Seq(NetworkPacket), NEW t \in Seq(NetworkPacket),
         InOrder(s), InOrder(t), InFront(Tickets(s), Tickets(t))
  PROVE  InOrder(s \o t) /\ Tickets(s \o t) = Tickets(s) \cup Tickets(t)
<1>1. Tickets(s \o t) = Tickets(s) \cup Tickets(t)
  <2>1. Packets(s \o t) = Packets(s) \cup Packets(t)
    BY PacketsJoined
  <2> QED BY <2>1 DEF Tickets
<1> DEFINE joined == s \o t
           m == Len(s)
           n == Len(t)
<1>2. m \in Nat /\ n \in Nat
  OBVIOUS
<1>3. Len(joined) = m + n
  OBVIOUS
<1>4. /\ \A i \in 1 .. m : joined[i] = s[i]
      /\ \A i \in 1 .. n : joined[m + i] = t[i]
  OBVIOUS
<1> HIDE DEF joined
<1>5. ASSUME NEW i \in 1 .. Len(joined), NEW j \in 1 .. Len(joined), i < j,
             joined[i].message.command = "SEND", joined[j].message.command = "SEND"
      PROVE  Before(Ticket(joined[i].message), Ticket(joined[j].message))
  <2> HIDE DEF m, n
  <2>1. CASE j \in 1 .. m
    <3>1. i \in 1 .. m
      BY <1>2, <1>5, <2>1
    <3> QED BY <1>4, <1>5, <2>1, <3>1 DEF InOrder, m
  <2>2. CASE i \notin 1 .. m
    <3>1. i - m \in 1 .. n /\ j - m \in 1 .. n /\ i - m < j - m
          /\ m + (i - m) = i /\ m + (j - m) = j
      BY <1>2, <1>3, <1>5, <2>2
    <3>2. joined[i] = t[i - m] /\ joined[j] = t[j - m]
      BY <1>4, <3>1
    <3> QED BY <1>5, <3>1, <3>2 DEF InOrder, n
  <2>3. CASE i \in 1 .. m /\ j \notin 1 .. m
    <3>1. j - m \in 1 .. n /\ m + (j - m) = j
      BY <1>2, <1>3, <1>5, <2>3
    <3>2. joined[i] = s[i] /\ joined[j] = t[j - m]
      BY <1>4, <2>3, <3>1
    <3>3. /\ Ticket(joined[i].message) \in Tickets(s)
          /\ Ticket(joined[j].message) \in Tickets(t)
      BY <1>5, <2>3, <3>1, <3>2, TicketOf DEF m, n
    <3> QED BY <3>3 DEF InFront
  <2> QED BY <2>1, <2>2, <2>3
<1> QED BY <1>1, <1>5 DEF InOrder, joined

LEMMA OrderOfRest ==
  ASSUME NEW s \in Seq(NetworkPacket), s # <<>>, InOrder(s)
  PROVE  /\ InOrder(Tail(s)) /\ Tickets(Tail(s)) \subseteq Tickets(s)
         /\ Head(s).message.command = "SEND" =>
              /\ Ticket(Head(s).message) \in Tickets(s)
              /\ InFront({Ticket(Head(s).message)}, Tickets(Tail(s)))
<1> DEFINE rest == Tail(s)
<1>1. 1 \in 1 .. Len(s) /\ Head(s) = s[1]
  OBVIOUS
<1>2. ASSUME NEW i \in 1 .. Len(rest)
      PROVE  i + 1 \in 1 .. Len(s) /\ rest[i] = s[i + 1] /\ i \in Nat /\ 1 < i + 1
  OBVIOUS
<1>3. Packets(rest) \subseteq Packets(s)
  BY PacketsOfBatch
<1> HIDE DEF rest
<1>4. InOrder(rest)
  <2>1. ASSUME NEW i \in 1 .. Len(rest), NEW j \in 1 .. Len(rest), i < j
        PROVE  i + 1 < j + 1
    BY <1>2, <2>1
  <2> QED BY <1>2, <2>1 DEF InOrder
<1>5. Tickets(rest) \subseteq Tickets(s)
  BY <1>3 DEF Tickets
<1>6. ASSUME s[1].message.command = "SEND"
      PROVE  InFront({Ticket(s[1].message)}, Tickets(rest))
  <2>1. ASSUME NEW second \in Tickets(rest)
        PROVE  Before(Ticket(s[1].message), second)
    <3>1. PICK i \in 1 .. Len(rest) : /\ rest[i].message.command = "SEND"
                                      /\ second = Ticket(rest[i].message)
      BY <2>1 DEF Tickets, Packets
    <3> QED BY <1>1, <1>2, <1>6, <3>1 DEF InOrder
  <2> QED BY <2>1 DEF InFront
<1> QED BY <1>1, <1>4, <1>5, <1>6, TicketOf DEF rest

LEMMA CalledTicket ==
  ASSUME NEW p \in NetworkPacket
  PROVE  /\ Called(p).message.command = p.message.command
         /\ Ticket(Called(p).message) = Ticket(p.message)
<1>1. p.message \in Message
  BY DEF NetworkPacket
<1>2. CASE p.socket \in Registered
  <2>1. Called(p) = [p EXCEPT !.message.ran = TRUE,
                              !.message.name = clientInfos[p.socket].clientId]
    BY <1>2 DEF Called
  <2>2. Called(p).message = [p.message EXCEPT !.ran = TRUE,
                                              !.name = clientInfos[p.socket].clientId]
    BY <2>1 DEF NetworkPacket
  <2>3. /\ Called(p).message.command = p.message.command
        /\ Called(p).message.from = p.message.from
        /\ Called(p).message.seq = p.message.seq
    BY <1>1, <2>2 DEF Message
  <2> QED BY <2>3 DEF Ticket
<1>3. CASE p.socket \notin Registered
  BY <1>3 DEF Called
<1> QED BY <1>2, <1>3

\* The callback answers in place.
LEMMA OrderOfCalled ==
  ASSUME IInv, InOrder(exec.tempList), NEW called,
         called = [i \in DOMAIN exec.tempList |-> Called(exec.tempList[i])]
  PROVE  /\ called \in Seq(NetworkPacket) /\ InOrder(called)
         /\ Tickets(called) = Tickets(exec.tempList)
<1> DEFINE list == exec.tempList
<1>1. list \in Seq(NetworkPacket)
  BY DEF IInv, ExecType
<1>2. called = [i \in 1 .. Len(list) |-> Called(list[i])]
  BY <1>1
<1>3. \A i \in 1 .. Len(list) : Called(list[i]) \in NetworkPacket
  BY <1>1, CalledType DEF IInv
<1>4. called \in Seq(NetworkPacket) /\ Len(called) = Len(list)
  BY <1>1, <1>2, <1>3
<1>5. ASSUME NEW i \in 1 .. Len(list)
      PROVE  /\ called[i].message.command = list[i].message.command
             /\ Ticket(called[i].message) = Ticket(list[i].message)
  <2>1. list[i] \in NetworkPacket
    BY <1>1
  <2>2. called[i] = Called(list[i])
    BY <1>2
  <2> QED BY <2>1, <2>2, CalledTicket
<1> HIDE DEF list
<1>6. InOrder(called)
  <2> SUFFICES ASSUME NEW i \in 1 .. Len(list), NEW j \in 1 .. Len(list), i < j,
                      called[i].message.command = "SEND", called[j].message.command = "SEND"
               PROVE  Before(Ticket(called[i].message), Ticket(called[j].message))
    BY <1>4 DEF InOrder
  <2>1. list[i].message.command = "SEND" /\ list[j].message.command = "SEND"
    BY <1>5
  <2>2. Before(Ticket(list[i].message), Ticket(list[j].message))
    BY <2>1 DEF InOrder, list
  <2> QED BY <1>5, <2>2
<1>7. ASSUME NEW ticket
      PROVE  ticket \in Tickets(called) <=> ticket \in Tickets(list)
  <2> DEFINE Of(s) == \E i \in 1 .. Len(s) : /\ s[i].message.command = "SEND"
                                             /\ ticket = Ticket(s[i].message)
  <2>1. /\ ticket \in Tickets(called) <=> Of(called)
        /\ ticket \in Tickets(list) <=> Of(list)
    BY DEF Tickets, Packets
  <2>2. Of(called) <=> Of(list)
    BY <1>4, <1>5
  <2> QED BY <2>1, <2>2
<1>8. Tickets(called) = Tickets(list)
  BY <1>7
<1> QED BY <1>4, <1>6, <1>8 DEF list

(***************************************************************************)
(* The line.                                                                *)
(***************************************************************************)
\* Requests may drop out of the line.
LEMMA FewerInLine ==
  ASSUME NEW replied, NEW sending, NEW writing, NEW running, NEW toRun, NEW listed,
         NEW waiting, NEW coming,
         InLine(replied, sending, writing, running, toRun, listed, waiting, coming),
         NEW sending2 \in SUBSET sending, NEW writing2 \in SUBSET writing,
         NEW running2 \in SUBSET running, NEW toRun2 \in SUBSET toRun,
         NEW listed2 \in SUBSET listed, NEW waiting2 \in SUBSET waiting,
         NEW coming2 \in SUBSET coming
  PROVE  InLine(replied, sending2, writing2, running2, toRun2, listed2, waiting2, coming2)
BY DEF InLine, InFront

\* What a connection carries and may carry, when only its inbox may be emptied.
LEMMA ConnLine ==
  ASSUME IInv, RepliesInOrder, InboxInOrder,
         \A c \in Conns : /\ conn'[c].outbox = conn[c].outbox
                          /\ conn'[c].inbox \in {conn[c].inbox, <<>>}
                          /\ conn'[c].sent = conn[c].sent
  PROVE  /\ RepliesInOrder' /\ InboxInOrder'
         /\ Replied' = Replied /\ Waiting' \subseteq Waiting /\ Coming' = Coming
<1>1. 1 .. Len(<<>>) = {}
  OBVIOUS
<1>2. RepliesInOrder'
  BY DEF RepliesInOrder
<1>3. InboxInOrder'
  <2> SUFFICES ASSUME NEW c \in Conns, NEW i \in 1 .. Len(conn'[c].inbox),
                      NEW j \in 1 .. Len(conn'[c].inbox), i < j
               PROVE  conn'[c].inbox[i].seq < conn'[c].inbox[j].seq
    BY DEF InboxInOrder
  <2>1. conn'[c].inbox = conn[c].inbox
    BY <1>1
  <2> QED BY <2>1 DEF InboxInOrder
<1>4. Replied' = Replied
  BY DEF Replied
<1>5. Waiting' \subseteq Waiting
  <2> SUFFICES ASSUME NEW ticket \in Waiting' PROVE ticket \in Waiting
    OBVIOUS
  <2>1. PICK c \in Conns : ticket \in {[from |-> c, seq |-> conn'[c].inbox[i].seq] :
                                         i \in 1 .. Len(conn'[c].inbox)}
    BY DEF Waiting
  <2>2. conn'[c].inbox = conn[c].inbox
    BY <1>1, <2>1
  <2> QED BY <2>1, <2>2 DEF Waiting
<1>6. Coming' = Coming
  BY DEF Coming
<1> QED BY <1>2, <1>3, <1>4, <1>5, <1>6

\* Steps that change no list but those given.
LEMMA LineFrame ==
  ASSUME IInv, OneByOne, HeartbeatsOnly(health'.warnings), UNCHANGED queueVars,
         poll'.readList = poll.readList, exec'.tempList = exec.tempList,
         exec'.tempWriteList = exec.tempWriteList,
         \A c \in Conns : /\ conn'[c].outbox = conn[c].outbox
                          /\ conn'[c].inbox \in {conn[c].inbox, <<>>}
                          /\ conn'[c].sent = conn[c].sent
  PROVE  OneByOne'
<1>1. /\ RepliesInOrder' /\ InboxInOrder'
      /\ Replied' = Replied /\ Waiting' \subseteq Waiting /\ Coming' = Coming
  BY ConnLine DEF OneByOne
<1>2. Line'
  BY <1>1, FewerInLine DEF OneByOne, Line
<1> QED BY <1>1, <1>2 DEF OneByOne, ListsInOrder

\* A peer sends: what was coming waits now.
LEMMA PeerSendInLine ==
  ASSUME IInv, OneByOne, NEW c \in Conns, NEW command \in PeerCommands, PeerSend(c, command)
  PROVE  OneByOne'
<1> DEFINE message == [command |-> command, from |-> c, seq |-> conn[c].sent + 1,
                       ran |-> FALSE,
                       name |-> IF command = "ACID" THEN c ELSE None]
           ticket == [from |-> c, seq |-> conn[c].sent + 1]
           n == Len(conn[c].inbox)
<1>1. /\ conn \in [Conns -> Connection] /\ conn[c].inbox \in Seq(Message)
      /\ conn[c].sent \in Nat /\ MaxSend \in Nat
  BY SizesAssumption DEF IInv, KernelType, Connection
<1>2. /\ conn'[c].inbox = Append(conn[c].inbox, message)
      /\ conn'[c].sent = conn[c].sent + 1 /\ conn'[c].outbox = conn[c].outbox
      /\ \A d \in Conns : d # c => conn'[d] = conn[d]
      /\ UNCHANGED <<poll, exec, health, queueVars>>
  BY <1>1 DEF PeerSend, Connection
<1>3. message.seq = conn[c].sent + 1 /\ ticket.from = c /\ ticket.seq = conn[c].sent + 1
  OBVIOUS
<1> HIDE DEF message
<1>4. /\ n \in Nat /\ Append(conn[c].inbox, message)[n + 1] = message
      /\ \A i \in 1 .. n : Append(conn[c].inbox, message)[i] = conn[c].inbox[i]
  BY <1>1
<1>5. Len(conn'[c].inbox) = n + 1
  BY <1>1, <1>2
<1>6. ticket \in Coming
  BY <1>1 DEF Coming
<1>7. \A d \in Conns : \A i \in 1 .. Len(conn[d].inbox) :
        [from |-> d, seq |-> conn[d].inbox[i].seq] \in Waiting
  BY DEF Waiting
<1>8. \A i \in 1 .. n : conn[c].inbox[i].seq < conn[c].sent + 1
  BY <1>3, <1>6, <1>7 DEF OneByOne, Line, InLine, InFront, Before
<1> HIDE DEF ticket
<1>9. Waiting' \subseteq Waiting \cup {ticket}
  <2> SUFFICES ASSUME NEW new \in Waiting' PROVE new \in Waiting \cup {ticket}
    OBVIOUS
  <2>0. PICK d \in Conns : new \in {[from |-> d, seq |-> conn'[d].inbox[i].seq] :
                                     i \in 1 .. Len(conn'[d].inbox)}
    BY DEF Waiting
  <2>1. PICK i \in 1 .. Len(conn'[d].inbox) :
          new = [from |-> d, seq |-> conn'[d].inbox[i].seq]
    BY <2>0
  <2>2. CASE d # c
    BY <1>2, <1>7, <2>1, <2>2
  <2>3. CASE d = c
    <3>1. CASE i = n + 1
      BY <1>2, <1>3, <1>4, <2>1, <2>3, <3>1 DEF ticket
    <3>2. CASE i \in 1 .. n
      BY <1>2, <1>4, <1>7, <2>1, <2>3, <3>2
    <3>3. i \in 1 .. n + 1
      BY <1>5, <2>1, <2>3
    <3> QED BY <1>4, <3>1, <3>2, <3>3
  <2> QED BY <2>2, <2>3
<1>10. Coming' \subseteq Coming /\ InFront({ticket}, Coming')
  <2>1. ASSUME NEW new \in Coming'
        PROVE  new \in Coming /\ (new.from = c => ticket.seq < new.seq)
    <3>1. PICK d \in Conns, k \in Nat : new = [from |-> d, seq |-> k] /\ conn'[d].sent < k
      BY DEF Coming
    <3>2. CASE d = c
      <4>1. conn[c].sent + 1 < k /\ conn[c].sent < k
        BY <1>1, <1>2, <3>1, <3>2
      <4> QED BY <3>1, <3>2, <4>1 DEF Coming, ticket
    <3>3. CASE d # c
      BY <1>2, <3>1, <3>3 DEF Coming
    <3> QED BY <3>2, <3>3
  <2> QED BY <1>3, <2>1 DEF InFront, Before, ticket
<1>11. Replied' = Replied
  <2>1. \A d \in Conns : conn'[d].outbox = conn[d].outbox
    BY <1>2
  <2> QED BY <2>1 DEF Replied
<1>12. Line'
  <2>1. \A A : InFront(A, Coming) => InFront(A, {ticket})
    BY <1>6 DEF InFront
  <2> QED BY <1>2, <1>6, <1>9, <1>10, <1>11 DEF OneByOne, Line, InLine, InFront
<1>13. InboxInOrder'
  <2> SUFFICES ASSUME NEW d \in Conns, NEW i \in 1 .. Len(conn'[d].inbox),
                      NEW j \in 1 .. Len(conn'[d].inbox), i < j
               PROVE  conn'[d].inbox[i].seq < conn'[d].inbox[j].seq
    BY DEF InboxInOrder
  <2>1. CASE d # c
    <3>1. conn'[d].inbox = conn[d].inbox
      BY <1>2, <2>1
    <3> QED BY <3>1 DEF OneByOne, InboxInOrder
  <2>2. CASE d = c
    <3>1. i \in 1 .. n /\ j \in 1 .. n + 1
      BY <1>4, <1>5, <2>2
    <3>2. conn'[c].inbox[i] = conn[c].inbox[i]
      BY <1>2, <1>4, <3>1
    <3>3. CASE j = n + 1
      <4>1. conn'[c].inbox[j] = message
        BY <1>2, <1>4, <3>3
      <4> QED BY <1>3, <1>8, <2>2, <3>1, <3>2, <4>1
    <3>4. CASE j # n + 1
      <4>1. j \in 1 .. n /\ conn'[c].inbox[j] = conn[c].inbox[j]
        BY <1>2, <1>4, <3>1, <3>4
      <4> QED BY <2>2, <3>1, <3>2, <4>1 DEF OneByOne, InboxInOrder
    <3> QED BY <3>3, <3>4
  <2> QED BY <2>1, <2>2
<1>14. RepliesInOrder'
  <2>1. \A d \in Conns : conn'[d].outbox = conn[d].outbox
    BY <1>2
  <2> QED BY <2>1 DEF OneByOne, RepliesInOrder
<1> QED BY <1>2, <1>12, <1>13, <1>14 DEF OneByOne, ListsInOrder

\* ReadForSingleSocket: what waited in front goes to the end of readList.
LEMMA ReadPacketInLine ==
  ASSUME IInv, Names, OneByOne, ReadPacket PROVE OneByOne'
<1> DEFINE f == poll.reading
           c == fdOwner[f]
           inbox == conn[c].inbox
           message == Head(inbox)
           requests == Requests(f, message)
           answers == SetupAnswers(f, message)
           ticket == [from |-> c, seq |-> message.seq]
<1>1. /\ f \in Registered /\ f \in Fds /\ c \in Conns
      /\ f # None /\ Reading = conn[c]
      /\ inbox \in Seq(Message) /\ inbox # <<>>
      /\ conn \in [Conns -> Connection]
  BY ReadingOwned DEF ReadPacket, Reading, IInv, KernelType, Connection
<1>2. /\ UNCHANGED <<exec, health, packetsToRead>>
      /\ packetsToWrite' = packetsToWrite \o answers
      /\ poll'.readList = poll.readList \o requests
  BY <1>1 DEF ReadPacket, Spliced, IInv, PollType
<1>3. /\ conn'[c].inbox = Tail(inbox) /\ conn'[c].sent = conn[c].sent
      /\ conn'[c].outbox = conn[c].outbox
      /\ \A d \in Conns : d # c => conn'[d] = conn[d]
  BY <1>1 DEF ReadPacket, Connection
<1>4. /\ 1 \in 1 .. Len(inbox) /\ message = inbox[1]
      /\ \A i \in 1 .. Len(Tail(inbox)) :
           /\ i + 1 \in 1 .. Len(inbox) /\ Tail(inbox)[i] = inbox[i + 1]
           /\ i \in Nat /\ 1 < i + 1
  BY <1>1
<1>5. message \in Message /\ message.from = c
  BY <1>1, <1>4 DEF Names, InboxOwn
<1>6. ticket \in Waiting
  BY <1>1, <1>4 DEF Waiting
<1> HIDE DEF f, c, message, inbox
<1>7. ASSUME NEW new \in Waiting' PROVE new \in Waiting /\ Before(ticket, new)
  <2>1. PICK d \in Conns : new \in {[from |-> d, seq |-> conn'[d].inbox[i].seq] :
                                     i \in 1 .. Len(conn'[d].inbox)}
    BY DEF Waiting
  <2>2. PICK i \in 1 .. Len(conn'[d].inbox) :
          new = [from |-> d, seq |-> conn'[d].inbox[i].seq]
    BY <2>1
  <2>3. CASE d # c
    <3>1. conn'[d] = conn[d]
      BY <1>3, <2>3
    <3> QED BY <2>2, <2>3, <3>1 DEF Waiting, Before
  <2>4. CASE d = c
    <3>1. /\ i + 1 \in 1 .. Len(inbox) /\ conn'[d].inbox[i] = inbox[i + 1] /\ 1 < i + 1
      BY <1>3, <1>4, <2>4
    <3>2. new \in Waiting
      BY <1>1, <2>2, <2>4, <3>1 DEF Waiting, inbox
    <3>3. inbox[1].seq < inbox[i + 1].seq
      BY <1>1, <1>4, <3>1 DEF OneByOne, InboxInOrder, inbox
    <3> QED BY <1>4, <2>2, <2>4, <3>1, <3>2, <3>3 DEF Before
  <2> QED BY <2>3, <2>4
<1>8. /\ requests \in Seq(NetworkPacket) /\ InOrder(requests)
      /\ Tickets(requests) \subseteq {ticket}
  <2> DEFINE packet == [socket |-> f, message |-> message]
  <2>1. packet \in NetworkPacket /\ packet.message = message /\ Ticket(message) = ticket
    BY <1>1, <1>5 DEF NetworkPacket, Ticket
  <2>2. requests \in {<<>>, <<packet>>}
    BY DEF Requests
  <2> HIDE DEF packet, requests, ticket
  <2>3. Packets(<<packet>>) = {packet} /\ InOrder(<<packet>>)
    <3>1. Len(<<packet>>) = 1 /\ <<packet>>[1] = packet
      OBVIOUS
    <3>2. \A i \in 1 .. 1 : i = 1
      OBVIOUS
    <3> QED BY <3>1, <3>2 DEF Packets, InOrder
  <2>4. Tickets(<<packet>>) \subseteq {ticket}
    BY <2>1, <2>3 DEF Tickets
  <2>5. <<>> \in Seq(NetworkPacket) /\ <<packet>> \in Seq(NetworkPacket)
    BY <2>1
  <2> QED BY <2>2, <2>3, <2>4, <2>5, OrderOfNone
<1>9. answers \in Seq(NetworkPacket) /\ Tickets(answers) = {} /\ InOrder(answers)
  <2>1. ASSUME NEW command \in {"SYNC", "JOIN"}
        PROVE  /\ <<ServerPacket(f, command)>> \in Seq(NetworkPacket)
               /\ Tickets(<<ServerPacket(f, command)>>) = {}
               /\ InOrder(<<ServerPacket(f, command)>>)
    <3> DEFINE packet == ServerPacket(f, command)
    <3>1. packet \in NetworkPacket
      BY <1>1, ServerPacketType DEF IInv, Commands
    <3>2. packet.message.command # "SEND"
      BY DEF ServerPacket
    <3> HIDE DEF packet
    <3>3. Packets(<<packet>>) = {packet} /\ <<packet>> \in Seq(NetworkPacket)
      BY <3>1 DEF Packets
    <3> QED BY <3>2, <3>3, NoTickets DEF packet
  <2>2. answers \in {<<>>, <<ServerPacket(f, "SYNC")>>, <<ServerPacket(f, "JOIN")>>}
    BY DEF SetupAnswers
  <2> HIDE DEF answers
  <2>3. <<>> \in Seq(NetworkPacket)
    OBVIOUS
  <2> QED BY <2>1, <2>2, <2>3, OrderOfNone
<1> HIDE DEF requests, answers, ticket
<1>10. \A A : InFront(A, Waiting) => InFront(A, {ticket})
  BY <1>6 DEF InFront
<1>11. InFront(Tickets(poll.readList), Tickets(requests))
  BY <1>6, <1>8 DEF OneByOne, Line, InLine, InFront
<1>12. /\ InOrder(poll'.readList)
       /\ Tickets(poll'.readList) = Tickets(poll.readList) \cup Tickets(requests)
  BY <1>2, <1>8, <1>11, OrderJoined DEF OneByOne, ListsInOrder, IInv, PollType
<1>13. InOrder(packetsToWrite') /\ Tickets(packetsToWrite') = Tickets(packetsToWrite)
  <2>1. InFront(Tickets(packetsToWrite), Tickets(answers))
    BY <1>9 DEF InFront
  <2>2. packetsToWrite \in Seq(NetworkPacket) /\ InOrder(packetsToWrite)
    BY DEF OneByOne, ListsInOrder, IInv, QueueType
  <2>3. /\ InOrder(packetsToWrite \o answers)
        /\ Tickets(packetsToWrite \o answers) = Tickets(packetsToWrite) \cup Tickets(answers)
    BY <1>9, <2>1, <2>2, OrderJoined
  <2> QED BY <1>2, <1>9, <2>3
<1>14. \A d \in Conns : /\ conn'[d].outbox = conn[d].outbox
                        /\ conn'[d].sent = conn[d].sent
  BY <1>3
<1>15. Replied' = Replied /\ Coming' = Coming
  BY <1>14 DEF Replied, Coming
<1>16. Waiting' \subseteq Waiting /\ InFront({ticket}, Waiting')
  BY <1>7 DEF InFront
<1>17. Line'
  BY <1>2, <1>6, <1>8, <1>12, <1>13, <1>15, <1>16 DEF OneByOne, Line, InLine, InFront
<1>18. InboxInOrder'
  <2> SUFFICES ASSUME NEW d \in Conns, NEW i \in 1 .. Len(conn'[d].inbox),
                      NEW j \in 1 .. Len(conn'[d].inbox), i < j
               PROVE  conn'[d].inbox[i].seq < conn'[d].inbox[j].seq
    BY DEF InboxInOrder
  <2>1. CASE d # c
    <3>1. conn'[d].inbox = conn[d].inbox
      BY <1>3, <2>1
    <3> QED BY <3>1 DEF OneByOne, InboxInOrder
  <2>2. CASE d = c
    <3>1. /\ i + 1 \in 1 .. Len(inbox) /\ conn'[d].inbox[i] = inbox[i + 1]
          /\ j + 1 \in 1 .. Len(inbox) /\ conn'[d].inbox[j] = inbox[j + 1]
          /\ i + 1 < j + 1
      <4>1. conn'[d].inbox = Tail(inbox)
        BY <1>3, <2>2
      <4> QED BY <1>4, <4>1
    <3>2. inbox[i + 1].seq < inbox[j + 1].seq
      BY <1>1, <3>1 DEF OneByOne, InboxInOrder, inbox
    <3> QED BY <3>1, <3>2
  <2> QED BY <2>1, <2>2
<1>19. RepliesInOrder'
  BY <1>14 DEF OneByOne, RepliesInOrder
<1> QED BY <1>2, <1>12, <1>13, <1>17, <1>18, <1>19 DEF OneByOne, ListsInOrder

\* The splices: what leaves one list enters the next, at its end.
LEMMA PollFinishInLine == ASSUME IInv, OneByOne, PollFinish PROVE OneByOne'
<1>1. /\ packetsToRead' = packetsToRead \o poll.readList /\ poll'.readList = <<>>
      /\ UNCHANGED <<conn, packetsToWrite, exec, health>>
  BY DEF PollFinish, Spliced, IInv, PollType
<1>2. InFront(Tickets(packetsToRead), Tickets(poll.readList))
  BY DEF OneByOne, Line, InLine, InFront
<1>3. /\ InOrder(packetsToRead')
      /\ Tickets(packetsToRead') = Tickets(packetsToRead) \cup Tickets(poll.readList)
  BY <1>1, <1>2, OrderJoined DEF OneByOne, ListsInOrder, IInv, QueueType, PollType
<1>4. RepliesInOrder' /\ InboxInOrder' /\ UNCHANGED <<Replied, Waiting, Coming>>
  BY <1>1 DEF OneByOne, RepliesInOrder, InboxInOrder, Replied, Waiting, Coming
<1>5. Tickets(poll'.readList) = {} /\ InOrder(poll'.readList)
  BY <1>1, OrderOfNone
<1>6. Line'
  BY <1>1, <1>3, <1>4, <1>5 DEF OneByOne, Line, InLine, InFront
<1> QED BY <1>1, <1>3, <1>4, <1>5, <1>6 DEF OneByOne, ListsInOrder

LEMMA ExecTakeInLine == ASSUME IInv, OneByOne, ExecTake PROVE OneByOne'
<1>1. /\ packetsToRead' = <<>> /\ exec'.tempList = packetsToRead
      /\ exec'.tempWriteList = exec.tempWriteList
      /\ UNCHANGED <<conn, packetsToWrite, poll, health>>
  BY DEF ExecTake, IInv, ExecType
<1>2. RepliesInOrder' /\ InboxInOrder' /\ UNCHANGED <<Replied, Waiting, Coming>>
  BY <1>1 DEF OneByOne, RepliesInOrder, InboxInOrder, Replied, Waiting, Coming
<1>3. Tickets(packetsToRead') = {} /\ InOrder(packetsToRead')
  BY <1>1, OrderOfNone
<1>4. Line'
  BY <1>1, <1>2, <1>3 DEF OneByOne, Line, InLine, InFront
<1> QED BY <1>1, <1>2, <1>3, <1>4 DEF OneByOne, ListsInOrder

LEMMA ExecRunInLine == ASSUME IInv, OneByOne, ExecRun PROVE OneByOne'
<1> DEFINE called == [i \in DOMAIN exec.tempList |-> Called(exec.tempList[i])]
<1>1. /\ packetsToWrite' \in {packetsToWrite, packetsToWrite \o called}
      /\ exec'.tempList = <<>> /\ exec'.tempWriteList = exec.tempWriteList
      /\ UNCHANGED <<conn, packetsToRead, poll, health>>
  BY DEF ExecRun, Spliced, IInv, ExecType
<1>2. /\ called \in Seq(NetworkPacket) /\ InOrder(called)
      /\ Tickets(called) = Tickets(exec.tempList)
  BY OrderOfCalled DEF OneByOne, ListsInOrder
<1> HIDE DEF called
<1>3. InFront(Tickets(packetsToWrite), Tickets(called))
  BY <1>2 DEF OneByOne, Line, InLine, InFront
<1>4. /\ InOrder(packetsToWrite')
      /\ Tickets(packetsToWrite') \subseteq Tickets(packetsToWrite) \cup Tickets(exec.tempList)
  BY <1>1, <1>2, <1>3, OrderJoined DEF OneByOne, ListsInOrder, IInv, QueueType
<1>5. RepliesInOrder' /\ InboxInOrder' /\ UNCHANGED <<Replied, Waiting, Coming>>
  BY <1>1 DEF OneByOne, RepliesInOrder, InboxInOrder, Replied, Waiting, Coming
<1>6. Tickets(exec'.tempList) = {} /\ InOrder(exec'.tempList)
  BY <1>1, OrderOfNone
<1>7. Line'
  BY <1>1, <1>4, <1>5, <1>6 DEF OneByOne, Line, InLine, InFront
<1> QED BY <1>1, <1>4, <1>5, <1>6, <1>7 DEF OneByOne, ListsInOrder

LEMMA WriteGatherInLine == ASSUME IInv, OneByOne, WriteGather PROVE OneByOne'
<1>1. /\ packetsToWrite' = <<>> /\ exec'.tempWriteList = packetsToWrite
      /\ exec'.tempList = exec.tempList /\ poll'.readList = poll.readList
      /\ UNCHANGED <<conn, packetsToRead, health>>
  BY DEF WriteGather, PollAfterWrite, IInv, ExecType, PollType
<1>2. RepliesInOrder' /\ InboxInOrder' /\ UNCHANGED <<Replied, Waiting, Coming>>
  BY <1>1 DEF OneByOne, RepliesInOrder, InboxInOrder, Replied, Waiting, Coming
<1>3. Tickets(packetsToWrite') = {} /\ InOrder(packetsToWrite')
  BY <1>1, OrderOfNone
<1>4. Line'
  BY <1>1, <1>2, <1>3 DEF OneByOne, Line, InLine, InFront
<1> QED BY <1>1, <1>2, <1>3, <1>4 DEF OneByOne, ListsInOrder

\* Write sends what is in front of its batch.
LEMMA WriteSendsInLine == ASSUME IInv, OneByOne, WriteSends PROVE OneByOne'
<1> DEFINE packet == Head(exec.tempWriteList)
           rest == Tail(exec.tempWriteList)
           c == Target
           outbox == conn[c].outbox
           message == packet.message
           n == Len(outbox)
<1>1. /\ exec.tempWriteList \in Seq(NetworkPacket) /\ exec.tempWriteList # <<>>
      /\ conn \in [Conns -> Connection]
  BY DEF WriteSends, IInv, SendValid, ExecType, KernelType
<1>2. packet \in NetworkPacket
  BY <1>1
<1>3. message \in Message /\ c \in Conns
  BY <1>2 DEF WriteSends, Target, NetworkPacket, IInv, KernelType
<1>4. /\ exec'.tempWriteList = rest /\ exec'.tempList = exec.tempList
      /\ poll'.readList = poll.readList
      /\ UNCHANGED <<packetsToRead, packetsToWrite, health>>
      /\ conn' = Delivered(c, message)
  BY DEF WriteSends, PollAfterWrite, IInv, ExecType, PollType
<1>5. /\ InOrder(rest) /\ Tickets(rest) \subseteq Tickets(exec.tempWriteList)
      /\ message.command = "SEND" =>
           /\ Ticket(message) \in Tickets(exec.tempWriteList)
           /\ InFront({Ticket(message)}, Tickets(rest))
  BY <1>1, OrderOfRest DEF OneByOne, ListsInOrder
<1>6. outbox \in Seq(Message)
  BY <1>1, <1>3 DEF Connection
<1> HIDE DEF packet, rest, c, message
<1>7. /\ \A d \in Conns : conn'[d].inbox = conn[d].inbox /\ conn'[d].sent = conn[d].sent
      /\ \A d \in Conns : d # c => conn'[d].outbox = conn[d].outbox
      /\ conn'[c].outbox \in {outbox, Append(outbox, message)}
  BY <1>1, <1>3, <1>4 DEF Delivered, Connection
<1>8. /\ n \in Nat /\ \A i \in 1 .. n : Append(outbox, message)[i] = outbox[i]
      /\ Append(outbox, message)[n + 1] = message
  BY <1>3, <1>6
<1>9. Len(Append(outbox, message)) = n + 1 /\ DOMAIN Append(outbox, message) = 1 .. n + 1
      /\ DOMAIN outbox = 1 .. n
  BY <1>3, <1>6
<1>10. \A d \in Conns : \A i \in 1 .. Len(conn[d].outbox) :
         conn[d].outbox[i].command = "SEND" => Ticket(conn[d].outbox[i]) \in Replied
  BY DEF Replied
<1>11. ASSUME NEW new \in Replied'
       PROVE  new \in Replied \/ (message.command = "SEND" /\ new = Ticket(message))
  <2>1. PICK d \in Conns : \E i \in 1 .. Len(conn'[d].outbox) :
          new = Ticket(conn'[d].outbox[i]) /\ conn'[d].outbox[i].command = "SEND"
    BY DEF Replied
  <2>2. PICK i \in 1 .. Len(conn'[d].outbox) :
          new = Ticket(conn'[d].outbox[i]) /\ conn'[d].outbox[i].command = "SEND"
    BY <2>1
  <2>3. CASE conn'[d].outbox = conn[d].outbox
    BY <1>10, <2>2, <2>3
  <2>4. CASE d = c /\ conn'[c].outbox = Append(outbox, message)
    <3>1. i \in 1 .. n + 1
      BY <1>9, <2>2, <2>4
    <3>2. CASE i = n + 1
      BY <1>8, <2>2, <2>4, <3>2
    <3>3. CASE i \in 1 .. n
      BY <1>8, <1>10, <2>2, <2>4, <3>3
    <3> QED BY <1>8, <3>1, <3>2, <3>3
  <2> QED BY <1>7, <2>3, <2>4
<1>12. RepliesInOrder'
  <2> SUFFICES ASSUME NEW d \in Conns, NEW i \in DOMAIN conn'[d].outbox,
                      NEW j \in DOMAIN conn'[d].outbox, i < j,
                      conn'[d].outbox[i].command = "SEND",
                      conn'[d].outbox[j].command = "SEND",
                      conn'[d].outbox[i].from = conn'[d].outbox[j].from
               PROVE  conn'[d].outbox[i].seq < conn'[d].outbox[j].seq
    BY DEF RepliesInOrder
  <2>1. CASE conn'[d].outbox = conn[d].outbox
    BY <2>1 DEF OneByOne, RepliesInOrder
  <2>2. CASE d = c /\ conn'[c].outbox = Append(outbox, message)
    <3>1. i \in 1 .. n /\ j \in 1 .. n + 1 /\ conn'[d].outbox[i] = outbox[i]
      BY <1>8, <1>9, <2>2
    <3>2. CASE j = n + 1
      <4>1. conn'[d].outbox[j] = message
        BY <1>8, <2>2, <3>2
      <4>2. Ticket(outbox[i]) \in Replied
        BY <1>3, <1>10, <3>1
      <4>3. Before(Ticket(outbox[i]), Ticket(message))
        BY <1>5, <4>1, <4>2 DEF OneByOne, Line, InLine, InFront
      <4> QED BY <3>1, <4>1, <4>3 DEF Before, Ticket
    <3>3. CASE j # n + 1
      <4>1. j \in 1 .. n /\ conn'[d].outbox[j] = outbox[j]
        BY <1>8, <2>2, <3>1, <3>3
      <4> QED BY <1>3, <1>9, <3>1, <4>1 DEF OneByOne, RepliesInOrder
    <3> QED BY <3>2, <3>3
  <2> QED BY <1>7, <2>1, <2>2
<1>13. InboxInOrder' /\ Waiting' = Waiting /\ Coming' = Coming
  BY <1>7 DEF OneByOne, InboxInOrder, Waiting, Coming
<1>14. Line'
  <2>1. CASE message.command = "SEND"
    <3> DEFINE ticket == Ticket(message)
    <3>1. /\ Replied' \subseteq Replied \cup {ticket}
          /\ ticket \in Tickets(exec.tempWriteList) /\ InFront({ticket}, Tickets(rest))
      BY <1>5, <1>11, <2>1
    <3> HIDE DEF ticket
    <3> QED BY <1>4, <1>5, <1>13, <3>1 DEF OneByOne, Line, InLine, InFront
  <2>2. CASE message.command # "SEND"
    <3>1. Replied' \subseteq Replied
      BY <1>11, <2>2
    <3> QED BY <1>4, <1>5, <1>13, <3>1 DEF OneByOne, Line, InLine, InFront
  <2> QED BY <2>1, <2>2
<1> QED BY <1>4, <1>5, <1>12, <1>13, <1>14 DEF OneByOne, ListsInOrder

\* A batch that fails leaves the line.
LEMMA WriteFailsInLine == ASSUME IInv, OneByOne, WriteFails PROVE OneByOne'
<1>1. /\ exec'.tempWriteList = <<>> /\ exec'.tempList = exec.tempList
      /\ poll'.readList = poll.readList
      /\ UNCHANGED <<queueVars, health>>
  BY DEF WriteFails, PollAfterWrite, IInv, ExecType, PollType
<1>2. PICK f : conn' = ShutDown({f})
  BY DEF WriteFails
<1>3. \A c \in Conns : /\ conn'[c].outbox = conn[c].outbox
                       /\ conn'[c].inbox \in {conn[c].inbox, <<>>}
                       /\ conn'[c].sent = conn[c].sent
  BY <1>2 DEF ShutDown, IInv, KernelType, Connection
<1>4. /\ RepliesInOrder' /\ InboxInOrder'
      /\ Replied' = Replied /\ Waiting' \subseteq Waiting /\ Coming' = Coming
  BY <1>3, ConnLine DEF OneByOne
<1>5. Tickets(exec'.tempWriteList) = {} /\ InOrder(exec'.tempWriteList)
  BY <1>1, OrderOfNone
<1>6. Line'
  BY <1>1, <1>4, <1>5, FewerInLine DEF OneByOne, Line
<1> QED BY <1>1, <1>4, <1>5, <1>6 DEF OneByOne, ListsInOrder

\* A heartbeat has no ticket.
LEMMA HealthMarkInLine == ASSUME IInv, OneByOne, HealthMark PROVE OneByOne'
<1> DEFINE heartbeat == ServerPacket(health.marking, "HART")
<1>1. /\ UNCHANGED <<conn, poll, exec, queueVars>>
      /\ health'.warnings = Append(health.warnings, heartbeat)
  BY DEF HealthMark, IInv, HealthType
<1>2. heartbeat.message.command = "HART" /\ heartbeat \in NetworkPacket
  <2>1. health.marking \in Fds
    BY RegisteredOwned DEF HealthMark, IInv, MarkValid
  <2> QED BY <2>1, ServerPacketType DEF IInv, Commands, ServerPacket
<1> HIDE DEF heartbeat
<1>3. health.warnings \in Seq(NetworkPacket)
  BY DEF IInv, HealthType
<1>4. Packets(health'.warnings) = Packets(health.warnings) \cup {heartbeat}
  BY <1>1, <1>2, <1>3, PacketsAppended
<1>5. HeartbeatsOnly(health'.warnings)
  BY <1>2, <1>4 DEF HeartbeatsOnly, OneByOne
<1> QED BY <1>1, <1>5, LineFrame

LEMMA HealthWarnInLine == ASSUME IInv, OneByOne, HealthWarn PROVE OneByOne'
<1>1. /\ packetsToWrite' = packetsToWrite \o health.warnings /\ health'.warnings = <<>>
      /\ UNCHANGED <<conn, poll, exec, packetsToRead>>
      /\ packetsToWrite \in Seq(NetworkPacket) /\ health.warnings \in Seq(NetworkPacket)
  BY DEF HealthWarn, Spliced, IInv, HealthType, QueueType
<1>2. Tickets(health.warnings) = {} /\ InOrder(health.warnings)
  BY NoTickets DEF OneByOne, HeartbeatsOnly
<1>3. InFront(Tickets(packetsToWrite), Tickets(health.warnings))
  BY <1>2 DEF InFront
<1>4. /\ InOrder(packetsToWrite')
      /\ Tickets(packetsToWrite') = Tickets(packetsToWrite) \cup Tickets(health.warnings)
  BY <1>1, <1>2, <1>3, OrderJoined DEF OneByOne, ListsInOrder
<1>5. Tickets(packetsToWrite') = Tickets(packetsToWrite)
  BY <1>2, <1>4
<1>6. RepliesInOrder' /\ InboxInOrder' /\ UNCHANGED <<Replied, Waiting, Coming>>
  <2>1. conn' = conn
    BY DEF HealthWarn
  <2> QED BY <2>1 DEF OneByOne, RepliesInOrder, InboxInOrder, Replied, Waiting, Coming
<1>7. Line'
  BY <1>1, <1>5, <1>6 DEF OneByOne, Line
<1>8. HeartbeatsOnly(health'.warnings)
  BY <1>1, PacketsOfNone DEF HeartbeatsOnly
<1> QED BY <1>1, <1>4, <1>6, <1>7, <1>8 DEF OneByOne, ListsInOrder

LEMMA InLineKept == IInv /\ Names /\ OneByOne /\ [Next]_vars => OneByOne'
<1> SUFFICES ASSUME IInv, Names, OneByOne, [Next]_vars PROVE OneByOne'
  OBVIOUS
<1> DEFINE Same(c) == /\ conn'[c].outbox = conn[c].outbox
                      /\ conn'[c].inbox \in {conn[c].inbox, <<>>}
                      /\ conn'[c].sent = conn[c].sent
           ListsKept == /\ UNCHANGED queueVars /\ poll'.readList = poll.readList
                        /\ exec'.tempList = exec.tempList
                        /\ exec'.tempWriteList = exec.tempWriteList
                        /\ health'.warnings = health.warnings
<1>1. conn \in [Conns -> Connection]
  BY DEF IInv, KernelType
<1>2. ASSUME ListsKept, \A c \in Conns : Same(c) PROVE OneByOne'
  BY <1>2, LineFrame DEF OneByOne
<1>3. ASSUME ListsKept, conn' = conn \/ \E fds : conn' = ShutDown(fds) PROVE OneByOne'
  <2>1. ASSUME NEW c \in Conns PROVE Same(c)
    <3>1. \A fds : ShutDown(fds)[c] \in {conn[c], [conn[c] EXCEPT !.shut = TRUE]}
      BY DEF ShutDown
    <3>2. conn'[c] \in {conn[c], [conn[c] EXCEPT !.shut = TRUE]}
      BY <1>3, <3>1
    <3> QED BY <1>1, <3>2 DEF Connection
  <2> QED BY <1>2, <1>3, <2>1
<1>4. CASE PeerStep \/ \E c \in Conns, f \in Fds : Accept(c, f)
  <2>1. ASSUME NEW c \in Conns, PeerReceive(c) \/ PeerClose(c) \/ \E f \in Fds : Accept(c, f)
        PROVE  OneByOne'
    <3>1. ListsKept
      BY <2>1 DEF PeerReceive, PeerClose, Accept
    <3>2. conn' \in {[conn EXCEPT ![c].unread = 0], [conn EXCEPT ![c].peer = "closed"],
                     [conn EXCEPT ![c].peer = "open"]}
      BY <2>1 DEF PeerReceive, PeerClose, Accept
    <3>3. ASSUME NEW d \in Conns PROVE Same(d)
      <4>1. conn'[d] \in {conn[d], [conn[d] EXCEPT !.unread = 0],
                           [conn[d] EXCEPT !.peer = "closed"],
                           [conn[d] EXCEPT !.peer = "open"]}
        BY <1>1, <3>2
      <4> QED BY <1>1, <4>1 DEF Connection
    <3> QED BY <1>2, <3>1, <3>3
  <2> QED BY <1>4, <2>1, PeerSendInLine DEF PeerStep
<1>5. CASE AddStep \/ UNCHANGED vars \/ \E f \in Fds : TimePasses(f)
  BY <1>3, <1>5 DEF AddStep, Insert, IncPriority, UpdateSingle, vars, TimePasses
<1>6. CASE PollStep
  <2>1. ASSUME PollUpdate \/ PollWait \/ \E f \in Fds : EventTerminates(f) \/ EventReads(f)
        PROVE  OneByOne'
    BY <1>3, <2>1 DEF PollUpdate, PollWait, EventTerminates, EventReads, IInv, PollType
  <2>2. ASSUME ReadFails PROVE OneByOne'
    BY <1>3, <2>2 DEF ReadFails, IInv, PollType
  <2>3. ASSUME PollClose PROVE OneByOne'
    <3>1. ListsKept
      BY <2>3 DEF PollClose, IInv, PollType
    <3>2. \A c \in Conns : Same(c)
      BY <1>1, <2>3 DEF PollClose, ConnsAfterClose, Connection
    <3> QED BY <1>2, <3>1, <3>2
  <2> QED BY <1>6, <2>1, <2>2, <2>3, ReadPacketInLine, PollFinishInLine DEF PollStep
<1>7. CASE ExecStep
  BY <1>7, ExecTakeInLine, ExecRunInLine, WriteGatherInLine, WriteSendsInLine,
     WriteFailsInLine DEF ExecStep
<1>8. CASE HealthStep
  <2>1. ASSUME HealthSelect \/ HealthClose
               \/ \E f \in Fds : HealthCondemns(f) \/ HealthSpares(f)
        PROVE  OneByOne'
    <3>1. ListsKept
      BY <2>1 DEF HealthSelect, HealthClose, HealthCondemns, HealthSpares, IInv, HealthType
    <3>2. conn' = conn \/ \E fds : conn' = ShutDown(fds)
      BY <2>1 DEF HealthSelect, HealthClose, HealthCondemns, HealthSpares
    <3> QED BY <1>3, <3>1, <3>2
  <2> QED BY <1>8, <2>1, HealthMarkInLine, HealthWarnInLine DEF HealthStep
<1> QED BY <1>4, <1>5, <1>6, <1>7, <1>8 DEF Next

LEMMA InitInLine == Init => OneByOne
<1> SUFFICES ASSUME Init PROVE OneByOne
  OBVIOUS
<1>1. /\ \A c \in Conns : conn[c].inbox = <<>> /\ conn[c].outbox = <<>>
      /\ packetsToRead = <<>> /\ packetsToWrite = <<>> /\ poll.readList = <<>>
      /\ exec.tempList = <<>> /\ exec.tempWriteList = <<>> /\ health.warnings = <<>>
  BY DEF Init
<1>2. 1 .. Len(<<>>) = {} /\ DOMAIN <<>> = {}
  OBVIOUS
<1>3. RepliesInOrder /\ InboxInOrder
  BY <1>1, <1>2 DEF RepliesInOrder, InboxInOrder
<1>4. Replied = {} /\ Waiting = {}
  BY <1>1, <1>2 DEF Replied, Waiting
<1>5. ListsInOrder /\ HeartbeatsOnly(health.warnings)
  BY <1>1, OrderOfNone, PacketsOfNone DEF ListsInOrder, HeartbeatsOnly
<1>6. Line
  BY <1>1, <1>4, OrderOfNone DEF Line, InLine, InFront
<1> QED BY <1>3, <1>4, <1>5, <1>6 DEF OneByOne

\* In every build the replies to a client keep the order of its requests, through
\* readList, packetsToRead, tempList, packetsToWrite and tempWriteList, whatever
\* is dropped on the way.
THEOREM RepliesOrdered == Spec => []RepliesInOrder
<1>1. OneByOne => RepliesInOrder
  BY DEF OneByOne
<1> QED BY <1>1, InitInLine, InLineKept, NamesAtStart, NamesKept, Invariance, PTL DEF Spec
=============================================================================
