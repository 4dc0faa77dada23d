--------------------- MODULE ServerLearnProtocol_proofs ---------------------
(***************************************************************************)
(* For any number of descriptors, connections and packets, and for every    *)
(* build of the server: types, descriptors, and what may be closed.         *)
(***************************************************************************)
EXTENDS ServerLearnProtocol, FiniteSetTheorems, SequenceTheorems, TLAPS

(***************************************************************************)
(* The inductive invariant. NoDescriptorLeaked speaks of the map and the     *)
(* kernel; that a step keeps it, and keeps the types, rests on what the      *)
(* threads remember between two steps still being true.                      *)
(***************************************************************************)
KernelType == /\ fdOwner \in [Fds -> Conns \cup {None}]
              /\ conn \in [Conns -> Connection]

ClientType == Registered \subseteq Fds /\ clientInfos \in [Registered -> ClientInfo]

PollSetType == /\ ePollIn \subseteq Fds /\ updateIssued \in BOOLEAN
               /\ pollSize \in Nat /\ priority \in Nat
               /\ stamped \subseteq Fds /\ expired \subseteq Fds

QueueType == /\ packetsToRead \in Seq(NetworkPacket)
             /\ packetsToWrite \in Seq(NetworkPacket)

PollType ==
  poll \in [pc : {"update", "wait", "loop", "close", "work"},
            hup : SUBSET Fds, in : SUBSET Fds, reading : Fds \cup {None},
            readList : Seq(NetworkPacket), readAt : SUBSET Fds,
            terminate : SUBSET Fds]

ExecType == exec \in [pc : {"take", "run", "gather", "send"},
                      tempList : Seq(NetworkPacket),
                      tempWriteList : Seq(NetworkPacket)]

HealthType == health \in [pc : {"sleep", "filter", "mark", "close"},
                          pending : SUBSET Fds, selected : SUBSET Fds,
                          marking : Fds \cup {None},
                          warnings : Seq(NetworkPacket)]

MainType == main \in [pc : {"accept", "insert", "inc", "stamp"},
                      child : Fds \cup {None}]

\* The events of one Wait stay true until the loop has dealt with them: nobody
\* else reads from a socket or closes it.
EventsValid ==
  /\ poll.pc # "loop" => poll.hup = {} /\ poll.in = {} /\ poll.reading = None
  /\ poll.hup \subseteq Registered /\ \A f \in poll.hup : HungUp(f)
  /\ poll.in \subseteq Registered /\ \A f \in poll.in : HasInput(f)
  /\ poll.reading # None => /\ poll.reading \in Registered \ poll.in
                            /\ HasInput(poll.reading)

\* What is about to be closed is a client whose connection is over.
Over(f) == HungUp(f) \/ clientInfos[f].deadline = DeadlineMaxCount

TerminateValid ==
  poll.pc \in {"wait", "loop", "close"} =>
    poll.terminate \subseteq Registered /\ \A f \in poll.terminate : Over(f)

\* A connection behind a descriptor was accepted and not closed.
OwnedOpen ==
  \A f \in Fds : fdOwner[f] # None => conn[fdOwner[f]].peer \in {"open", "closed"}

\* A polling thread that executes and writes does nothing else meanwhile.
TurnValid == exec.pc # "take" /\ ~ SeparateExec => poll.pc = "work"

SendValid == exec.pc = "send" => exec.tempWriteList # <<>>

MarkValid == health.pc = "mark" => health.marking \in Registered

ChildValid == main.pc # "accept" => main.child \in Fds

IInv == /\ KernelType /\ ClientType /\ PollSetType /\ QueueType
        /\ PollType /\ ExecType /\ HealthType /\ MainType
        /\ NoDescriptorLeaked /\ OwnedOpen
        /\ EventsValid /\ TerminateValid
        /\ TurnValid /\ SendValid /\ MarkValid /\ ChildValid

USE DEF kernelVars, pollSetVars, stampVars, queueVars, threadVars

(***************************************************************************)
(* What a step leaves alone stays as it was.                                *)
(***************************************************************************)
LEMMA Frames ==
  /\ KernelType /\ UNCHANGED kernelVars => KernelType'
  /\ ClientType /\ UNCHANGED clientInfos => ClientType'
  /\ PollSetType /\ UNCHANGED <<pollSetVars, priority, stampVars>> => PollSetType'
  /\ QueueType /\ UNCHANGED queueVars => QueueType'
  /\ PollType /\ UNCHANGED poll => PollType'
  /\ ExecType /\ UNCHANGED exec => ExecType'
  /\ HealthType /\ UNCHANGED health => HealthType'
  /\ MainType /\ UNCHANGED main => MainType'
  /\ SendValid /\ UNCHANGED exec => SendValid'
  /\ ChildValid /\ UNCHANGED main => ChildValid'
  /\ TurnValid /\ UNCHANGED exec /\ (UNCHANGED poll \/ poll.pc # "work") => TurnValid'
  /\ MarkValid /\ UNCHANGED <<health, clientInfos>> => MarkValid'
<1>1. KernelType /\ UNCHANGED kernelVars => KernelType'
  BY DEF KernelType
<1>2. ClientType /\ UNCHANGED clientInfos => ClientType'
  BY DEF ClientType, Registered
<1>3. PollSetType /\ UNCHANGED <<pollSetVars, priority, stampVars>> => PollSetType'
  BY DEF PollSetType
<1>4. QueueType /\ UNCHANGED queueVars => QueueType'
  BY DEF QueueType
<1>5. PollType /\ UNCHANGED poll => PollType'
  BY DEF PollType
<1>6. ExecType /\ UNCHANGED exec => ExecType'
  BY DEF ExecType
<1>7. HealthType /\ UNCHANGED health => HealthType'
  BY DEF HealthType
<1>8. MainType /\ UNCHANGED main => MainType'
  BY DEF MainType
<1>9. SendValid /\ UNCHANGED exec => SendValid'
  BY DEF SendValid
<1>10. ChildValid /\ UNCHANGED main => ChildValid'
  BY DEF ChildValid
<1>11. MarkValid /\ UNCHANGED <<health, clientInfos>> => MarkValid'
  BY DEF MarkValid, Registered
<1>12. TurnValid /\ UNCHANGED exec /\ (UNCHANGED poll \/ poll.pc # "work") => TurnValid'
  BY DEF TurnValid
<1>. QED BY <1>1, <1>2, <1>3, <1>4, <1>5, <1>6, <1>7, <1>8, <1>9, <1>10, <1>11,
            <1>12

\* A step that leaves fdOwner, ePollIn, main and the set of clients alone leaks no
\* descriptor.
LEMMA DescriptorFrame ==
  ASSUME NoDescriptorLeaked, UNCHANGED <<fdOwner, ePollIn, main>>,
         Registered' = Registered
  PROVE  NoDescriptorLeaked'
  BY DEF NoDescriptorLeaked

\* What the threads remember of a connection stays true when nothing is written.
LEMMA EventFrame ==
  ASSUME EventsValid, TerminateValid, OwnedOpen,
         UNCHANGED <<fdOwner, conn, clientInfos, poll>>
  PROVE  EventsValid' /\ TerminateValid' /\ OwnedOpen'
<1>1. EventsValid' /\ TerminateValid'
  BY DEF EventsValid, TerminateValid, Registered, HungUp, HasInput, Over
<1>2. OwnedOpen'
  BY DEF OwnedOpen
<1>. QED BY <1>1, <1>2

(***************************************************************************)
(* A registered descriptor has a connection, and what the polling thread     *)
(* knows of a connection stays true while conn only grows.                   *)
(***************************************************************************)
LEMMA RegisteredOwned ==
  ASSUME KernelType, ClientType, NoDescriptorLeaked, NEW f \in Registered
  PROVE  f \in Fds /\ fdOwner[f] \in Conns
<1>1. f \in Fds
  BY DEF ClientType
<1>2. f \in {g \in Fds : fdOwner[g] # None}
  BY DEF NoDescriptorLeaked
<1>. QED BY <1>1, <1>2 DEF KernelType

Grows(c) == /\ conn[c].peer = "closed" => conn'[c].peer = "closed"
            /\ conn[c].shut => conn'[c].shut
            /\ conn[c].inbox # <<>> => conn'[c].inbox # <<>>
            /\ conn[c].peer \in {"open", "closed"} =>
                 conn'[c].peer \in {"open", "closed"}

\* Connections that only grow stay open or closed by their peer.
LEMMA OwnedFrame ==
  ASSUME KernelType, OwnedOpen, UNCHANGED fdOwner, \A c \in Conns : Grows(c)
  PROVE  OwnedOpen'
  BY DEF KernelType, OwnedOpen, Grows

\* Events and terminations found by one Wait stay valid while connections only grow.
LEMMA GrowingFrame ==
  ASSUME KernelType, ClientType, NoDescriptorLeaked, EventsValid, TerminateValid,
         UNCHANGED <<clientInfos, poll>>,
         \A f \in Registered : fdOwner'[f] = fdOwner[f],
         \A c \in Conns : Grows(c)
  PROVE  EventsValid' /\ TerminateValid'
<1>1. \A f \in Registered : HungUp(f) => HungUp(f)'
  BY RegisteredOwned DEF HungUp, Grows
<1>2. \A f \in Registered : HasInput(f) => HasInput(f)'
  BY RegisteredOwned DEF HasInput, Grows
<1>3. Registered' = Registered
  BY DEF Registered
<1>4. EventsValid'
  BY <1>1, <1>2, <1>3 DEF EventsValid
<1>5. TerminateValid'
  BY <1>1, <1>3 DEF TerminateValid, Over
<1>. QED BY <1>4, <1>5

\* shutdown(2) sets a flag of a connection and nothing else.
LEMMA ShutDownConn ==
  ASSUME KernelType, NEW fds
  PROVE  /\ ShutDown(fds) \in [Conns -> Connection]
         /\ \A c \in Conns : /\ ShutDown(fds)[c].peer = conn[c].peer
                             /\ ShutDown(fds)[c].inbox = conn[c].inbox
                             /\ conn[c].shut => ShutDown(fds)[c].shut
<1>1. ASSUME NEW c \in Conns
      PROVE  [conn[c] EXCEPT !.shut = TRUE] \in Connection
  BY DEF KernelType, Connection
<1>2. ShutDown(fds) \in [Conns -> Connection]
  BY <1>1 DEF ShutDown, KernelType
<1>3. ASSUME NEW c \in Conns
      PROVE  /\ ShutDown(fds)[c].peer = conn[c].peer
             /\ ShutDown(fds)[c].inbox = conn[c].inbox
             /\ conn[c].shut => ShutDown(fds)[c].shut
  BY DEF ShutDown, KernelType, Connection
<1>. QED BY <1>2, <1>3

(***************************************************************************)
(* Peers, time and the acceptor.                                            *)
(***************************************************************************)
\* A packet a client sends only adds to an inbox.
LEMMA PeerSendKeeps ==
  ASSUME IInv, NEW c \in Conns, NEW command \in PeerCommands, PeerSend(c, command)
  PROVE  IInv'
<1> DEFINE message == [command |-> command, from |-> c, seq |-> conn[c].sent + 1,
                       ran |-> FALSE,
                       name |-> IF command = "ACID" THEN c ELSE None]
           sent == conn[c].sent + 1
           inbox == Append(conn[c].inbox, message)
           updated == [conn[c] EXCEPT !.sent = sent, !.inbox = inbox]
<1>1. conn[c] \in Connection
  BY DEF IInv, KernelType
<1>2. message \in Message
  BY <1>1, CommandsAssumption, SizesAssumption
     DEF PeerSend, Message, Commands, Connection
<1>3. inbox \in Seq(Message) /\ inbox # <<>>
  BY <1>1, <1>2 DEF Connection
<1>4. sent \in 0 .. MaxSend
  BY <1>1, SizesAssumption DEF PeerSend, Connection
<1>5. conn' = [conn EXCEPT ![c] = updated]
  BY <1>1 DEF PeerSend, IInv, KernelType
<1> HIDE DEF message, sent, inbox
<1>6. updated \in Connection
  BY <1>1, <1>3, <1>4 DEF Connection
<1>7. KernelType'
  BY <1>6, <1>5 DEF PeerSend, IInv, KernelType
<1>8. updated.inbox # <<>> /\ updated.peer = conn[c].peer /\ updated.shut = conn[c].shut
  BY <1>1, <1>3 DEF Connection
<1>9. \A d \in Conns : Grows(d)
  BY <1>5, <1>8 DEF Grows, IInv, KernelType
<1>10. EventsValid' /\ TerminateValid' /\ OwnedOpen'
  BY <1>9, GrowingFrame, OwnedFrame DEF PeerSend, IInv
<1>11. NoDescriptorLeaked'
  BY DescriptorFrame DEF PeerSend, IInv, Registered
<1>. QED BY <1>7, <1>10, <1>11, Frames DEF PeerSend, IInv

\* A client that reads its answers changes unread alone.
LEMMA PeerReceiveKeeps ==
  ASSUME IInv, NEW c \in Conns, PeerReceive(c)
  PROVE  IInv'
<1> DEFINE updated == [conn[c] EXCEPT !.unread = 0]
<1>1. conn[c] \in Connection
  BY DEF IInv, KernelType
<1>2. updated \in Connection
  BY <1>1, SizesAssumption DEF Connection
<1>3. conn' = [conn EXCEPT ![c] = updated]
  BY DEF PeerReceive
<1>4. KernelType'
  BY <1>2, <1>3 DEF PeerReceive, IInv, KernelType
<1>5. \A d \in Conns : Grows(d)
  BY <1>1, <1>3 DEF Grows, IInv, KernelType, Connection
<1>6. EventsValid' /\ TerminateValid' /\ OwnedOpen'
  BY <1>5, GrowingFrame, OwnedFrame DEF PeerReceive, IInv
<1>7. NoDescriptorLeaked'
  BY DescriptorFrame DEF PeerReceive, IInv, Registered
<1>. QED BY <1>4, <1>6, <1>7, Frames DEF PeerReceive, IInv

\* A client that closes makes its connection hung up, which is what ends it.
LEMMA PeerCloseKeeps ==
  ASSUME IInv, NEW c \in Conns, PeerClose(c)
  PROVE  IInv'
<1> DEFINE updated == [conn[c] EXCEPT !.peer = "closed"]
<1>1. conn[c] \in Connection
  BY DEF IInv, KernelType
<1>2. updated \in Connection
  BY <1>1 DEF Connection
<1>3. conn' = [conn EXCEPT ![c] = updated]
  BY DEF PeerClose
<1>4. KernelType'
  BY <1>2, <1>3 DEF PeerClose, IInv, KernelType
<1>5. \A d \in Conns : Grows(d)
  BY <1>1, <1>3 DEF Grows, IInv, KernelType, Connection
<1>6. EventsValid' /\ TerminateValid' /\ OwnedOpen'
  BY <1>5, GrowingFrame, OwnedFrame DEF PeerClose, IInv
<1>7. NoDescriptorLeaked'
  BY DescriptorFrame DEF PeerClose, IInv, Registered
<1>. QED BY <1>4, <1>6, <1>7, Frames DEF PeerClose, IInv

\* Time changes what is expired alone.
LEMMA TimePassesKeeps ==
  ASSUME IInv, NEW f \in Fds, TimePasses(f)
  PROVE  IInv'
<1>1. PollSetType'
  BY DEF TimePasses, IInv, PollSetType
<1>2. NoDescriptorLeaked'
  BY DescriptorFrame DEF TimePasses, IInv, Registered
<1>3. EventsValid' /\ TerminateValid' /\ OwnedOpen'
  BY EventFrame DEF TimePasses, IInv
<1>. QED BY <1>1, <1>2, <1>3, Frames DEF TimePasses, IInv

\* accept hands out a descriptor that is behind no client.
LEMMA AcceptKeeps ==
  ASSUME IInv, NEW c \in Conns, NEW f \in Fds, Accept(c, f)
  PROVE  IInv'
<1> DEFINE updated == [conn[c] EXCEPT !.peer = "open"]
<1>1. conn[c] \in Connection
  BY DEF IInv, KernelType
<1>2. updated \in Connection
  BY <1>1 DEF Connection
<1>3. conn' = [conn EXCEPT ![c] = updated] /\ fdOwner' = [fdOwner EXCEPT ![f] = c]
  BY DEF Accept
<1>4. KernelType'
  BY <1>2, <1>3 DEF IInv, KernelType
<1>5. \A d \in Conns : Grows(d)
  BY <1>1, <1>3 DEF Accept, Grows, IInv, KernelType, Connection
<1>6. f \notin Registered
  BY RegisteredOwned, ConnsAssumption DEF Accept, IInv
<1>7. \A g \in Registered : fdOwner'[g] = fdOwner[g]
  BY <1>3, <1>6 DEF IInv, KernelType, ClientType
<1>8. EventsValid' /\ TerminateValid'
  BY <1>5, <1>7, GrowingFrame DEF Accept, IInv
<1>9. MainType' /\ ChildValid'
  BY DEF Accept, MainType, ChildValid
<1>10. NoDescriptorLeaked'
  <2>1. \A g \in Fds : fdOwner[g] # c
    BY ConnsAssumption DEF IInv, OwnedOpen, Accept
  <2>. QED BY <1>3, <1>6, <2>1, ConnsAssumption
          DEF Accept, IInv, KernelType, NoDescriptorLeaked, Registered
<1>11. OwnedOpen'
  BY <1>1, <1>3, <1>5 DEF IInv, KernelType, OwnedOpen, Grows, Connection
<1>. QED BY <1>4, <1>8, <1>9, <1>10, <1>11, Frames DEF Accept, IInv

\* ClientInfos::insert turns the acceptor's descriptor into a client.
LEMMA InsertKeeps ==
  ASSUME IInv, Insert
  PROVE  IInv'
<1> DEFINE f == main.child
<1>1. f \in Fds /\ f \notin Registered /\ fdOwner[f] # None
  BY DEF Insert, IInv, ChildValid, NoDescriptorLeaked
<1>2. Registered' = Registered \cup {f}
  BY DEF Insert, ClientsWith, Registered
<1>3. NewClient \in ClientInfo
  BY SizesAssumption DEF NewClient, ClientInfo
<1>4. \A g \in Registered : clientInfos'[g] = clientInfos[g]
  BY DEF Insert, ClientsWith, Registered
<1>5. ClientType'
  <2>1. clientInfos' = [g \in Registered \cup {f} |->
                          IF g \in Registered THEN clientInfos[g] ELSE NewClient]
    BY DEF Insert, ClientsWith
  <2>2. ASSUME NEW g \in Registered \cup {f}
        PROVE  clientInfos'[g] \in ClientInfo
    BY <1>3, <2>1 DEF IInv, ClientType
  <2>. QED BY <1>1, <1>2, <2>1, <2>2 DEF IInv, ClientType
<1>6. PollSetType' /\ MainType' /\ ChildValid'
  BY <1>1 DEF Insert, IInv, PollSetType, MainType, ChildValid
<1>7. NoDescriptorLeaked'
  BY <1>1, <1>2 DEF Insert, IInv, NoDescriptorLeaked, MainType
<1>8. EventsValid' /\ TerminateValid' /\ OwnedOpen'
  <2>1. EventsValid'
    BY <1>2 DEF Insert, IInv, EventsValid, HungUp, HasInput
  <2>2. TerminateValid'
    BY <1>2, <1>4 DEF Insert, IInv, TerminateValid, Over, HungUp
  <2>. QED BY <2>1, <2>2 DEF Insert, IInv, OwnedOpen
<1>9. MarkValid'
  BY <1>2 DEF Insert, IInv, MarkValid
<1>. QED BY <1>5, <1>6, <1>7, <1>8, <1>9, Frames DEF Insert, IInv

\* balancer.incPriority of Add changes the load alone.
LEMMA IncPriorityKeeps ==
  ASSUME IInv, IncPriority
  PROVE  IInv'
<1>1. PollSetType' /\ MainType' /\ ChildValid'
  BY DEF IncPriority, IInv, PollSetType, MainType, ChildValid
<1>2. NoDescriptorLeaked'
  BY DEF IncPriority, IInv, NoDescriptorLeaked, MainType, Registered
<1>3. EventsValid' /\ TerminateValid' /\ OwnedOpen'
  BY EventFrame DEF IncPriority, IInv
<1>. QED BY <1>1, <1>2, <1>3, Frames DEF IncPriority, IInv

\* updateSingle of Add stamps the acceptor's descriptor.
LEMMA UpdateSingleKeeps ==
  ASSUME IInv, UpdateSingle
  PROVE  IInv'
<1>1. PollSetType' /\ MainType' /\ ChildValid'
  BY DEF UpdateSingle, IInv, PollSetType, MainType, ChildValid
<1>2. NoDescriptorLeaked'
  BY DEF UpdateSingle, IInv, NoDescriptorLeaked, MainType, Registered
<1>3. EventsValid' /\ TerminateValid' /\ OwnedOpen'
  BY EventFrame DEF UpdateSingle, IInv
<1>. QED BY <1>1, <1>2, <1>3, Frames DEF UpdateSingle, IInv

(***************************************************************************)
(* The polling thread.                                                      *)
(***************************************************************************)
\* ClientInfos::Update grows pollInEvents and forgets the sockets to terminate.
LEMMA PollUpdateKeeps ==
  ASSUME IInv, PollUpdate
  PROVE  IInv'
<1>1. Cardinality(Registered) \in Nat
  <2>1. IsFiniteSet(Registered)
    BY FdsAssumption, FS_Subset DEF IInv, ClientType
  <2>. QED BY <2>1, FS_CardinalityType
<1>2. PollSetType'
  <2>1. pollSize' \in Nat
    BY <1>1 DEF PollUpdate, Extended, IInv, PollSetType
  <2>. QED BY <2>1 DEF PollUpdate, IInv, PollSetType
<1>3. PollType'
  BY DEF PollUpdate, IInv, PollType
<1>4. /\ poll'.terminate = {} /\ poll'.pc = "wait" /\ poll'.reading = poll.reading
      /\ poll'.hup = poll.hup /\ poll'.in = poll.in
  BY DEF PollUpdate, IInv, PollType
<1>5. EventsValid' /\ TerminateValid' /\ OwnedOpen'
  <2>1. EventsValid'
    BY <1>4 DEF PollUpdate, IInv, EventsValid, Registered
  <2>2. TerminateValid'
    BY <1>4 DEF TerminateValid
  <2>. QED BY <2>1, <2>2 DEF PollUpdate, IInv, OwnedOpen
<1>6. NoDescriptorLeaked'
  BY DescriptorFrame DEF PollUpdate, IInv, Registered
<1>. QED BY <1>2, <1>3, <1>6, <1>5, Frames DEF PollUpdate, IInv

\* ePollIn.Wait returns events of clients, and they are true.
LEMMA PollWaitKeeps ==
  ASSUME IInv, PollWait
  PROVE  IInv'
<1>1. PICK got \in SUBSET {f \in ePollIn : HungUp(f) \/ HasInput(f)} :
        poll' = [poll EXCEPT !.pc = IF got = {} THEN AfterPoll ELSE "loop",
                             !.hup = {f \in got : HungUp(f)},
                             !.in = {f \in got : ~ HungUp(f)}]
  BY DEF PollWait
<1>2. got \subseteq Fds /\ got \subseteq Registered
  BY DEF IInv, PollSetType, NoDescriptorLeaked
<1>3. AfterPoll \in {"update", "work"}
  BY DEF AfterPoll
<1>4. PollType'
  BY <1>1, <1>2, <1>3 DEF IInv, PollType
<1>5. /\ poll'.hup = {f \in got : HungUp(f)} /\ poll'.in = {f \in got : ~ HungUp(f)}
      /\ poll'.pc = (IF got = {} THEN AfterPoll ELSE "loop")
      /\ poll'.reading = poll.reading /\ poll'.terminate = poll.terminate
  BY <1>1 DEF IInv, PollType
<1>6. EventsValid'
  BY <1>2, <1>3, <1>5
     DEF PollWait, IInv, EventsValid, Registered, HungUp, HasInput
<1>7. TerminateValid'
  BY <1>3, <1>5 DEF PollWait, IInv, TerminateValid, Registered, Over, HungUp
<1>8. NoDescriptorLeaked' /\ OwnedOpen'
  BY DescriptorFrame DEF PollWait, IInv, Registered, OwnedOpen
<1>. QED BY <1>4, <1>6, <1>7, <1>8, Frames DEF PollWait, IInv

\* OnReadPoll adds to the sockets to terminate one whose connection is over.
LEMMA EventTerminatesKeeps ==
  ASSUME IInv, NEW f \in Fds, EventTerminates(f)
  PROVE  IInv'
<1>1. PollType'
  BY DEF EventTerminates, IInv, PollType
<1>2. f \in Registered /\ Over(f)
  BY DEF EventTerminates, MustTerminate, MayBreach, IInv, EventsValid, Over
<1>3. /\ poll'.pc = poll.pc /\ poll'.reading = poll.reading
      /\ poll'.hup = poll.hup \ {f} /\ poll'.in = poll.in \ {f}
      /\ poll'.terminate = poll.terminate \cup {f}
  BY DEF EventTerminates, IInv, PollType
<1>4. EventsValid'
  BY <1>3 DEF EventTerminates, IInv, EventsValid, Registered, HungUp, HasInput
<1>5. TerminateValid'
  BY <1>2, <1>3 DEF EventTerminates, IInv, TerminateValid, Registered, Over, HungUp
<1>6. NoDescriptorLeaked' /\ OwnedOpen'
  BY DescriptorFrame DEF EventTerminates, IInv, Registered, OwnedOpen
<1>. QED BY <1>1, <1>4, <1>5, <1>6, Frames DEF EventTerminates, IInv

\* OnReadPoll starts reading from a client that has input.
LEMMA EventReadsKeeps ==
  ASSUME IInv, NEW f \in Fds, EventReads(f)
  PROVE  IInv'
<1>1. PollType'
  BY DEF EventReads, IInv, PollType
<1>2. /\ poll'.pc = poll.pc /\ poll'.reading = f
      /\ poll'.hup = poll.hup /\ poll'.in = poll.in \ {f}
      /\ poll'.terminate = poll.terminate
  BY DEF EventReads, IInv, PollType
<1>3. EventsValid'
  BY <1>2 DEF EventReads, IInv, EventsValid, Registered, HungUp, HasInput
<1>4. TerminateValid'
  BY <1>2 DEF EventReads, IInv, TerminateValid, Registered, Over, HungUp
<1>5. NoDescriptorLeaked' /\ OwnedOpen'
  BY DescriptorFrame DEF EventReads, IInv, Registered, OwnedOpen
<1>. QED BY <1>1, <1>3, <1>4, <1>5, Frames DEF EventReads, IInv

\* The end of OnReadPoll has dealt with every event.
LEMMA PollFinishKeeps ==
  ASSUME IInv, PollFinish
  PROVE  IInv'
<1>1. QueueType' /\ PollSetType'
  <2>1. QueueType'
    BY DEF PollFinish, Spliced, IInv, QueueType, PollType
  <2>2. PollSetType'
    BY DEF PollFinish, IInv, PollSetType, PollType
  <2>. QED BY <2>1, <2>2
<1>2. AfterPoll \in {"update", "work"}
  BY DEF AfterPoll
<1>3. PollType'
  <2> DEFINE pc == IF poll.terminate = {} THEN AfterPoll ELSE "close"
  <2>1. pc \in {"update", "wait", "loop", "close", "work"}
    BY <1>2
  <2>2. poll' = [poll EXCEPT !.pc = pc, !.readList = <<>>, !.readAt = {}]
    BY DEF PollFinish
  <2>3. <<>> \in Seq(NetworkPacket)
    OBVIOUS
  <2> HIDE DEF pc
  <2>. QED BY <2>1, <2>2, <2>3 DEF IInv, PollType
<1>4. /\ poll'.reading = poll.reading /\ poll'.terminate = poll.terminate
      /\ poll'.hup = poll.hup /\ poll'.in = poll.in
  BY DEF PollFinish, IInv, PollType
<1>5. EventsValid'
  BY <1>4 DEF PollFinish, IInv, EventsValid, Registered
<1>6. TerminateValid'
  BY <1>4 DEF PollFinish, IInv, TerminateValid, Registered, Over, HungUp
<1>7. NoDescriptorLeaked' /\ OwnedOpen'
  BY DescriptorFrame DEF PollFinish, IInv, Registered, OwnedOpen
<1>. QED BY <1>1, <1>3, <1>5, <1>6, <1>7, Frames DEF PollFinish, IInv

\* What the reading thread is reading from: a client with input.
LEMMA ReadingOwned ==
  ASSUME IInv, poll.pc = "loop", poll.reading # None
  PROVE  /\ poll.reading \in Registered /\ poll.reading \in Fds
         /\ fdOwner[poll.reading] \in Conns
         /\ Reading \in Connection /\ Reading.inbox # <<>>
<1>1. poll.reading \in Registered /\ HasInput(poll.reading)
  BY DEF IInv, EventsValid
<1>2. poll.reading \in Fds /\ fdOwner[poll.reading] \in Conns
  BY <1>1, RegisteredOwned DEF IInv
<1>. QED BY <1>1, <1>2 DEF IInv, KernelType, Reading, HasInput

\* A packet the server makes for one of its descriptors is a packet.
LEMMA ServerPacketType ==
  ASSUME KernelType, NEW f \in Fds, NEW command \in Commands
  PROVE  ServerPacket(f, command) \in NetworkPacket
<1>1. fdOwner[f] \in Conns \cup {None} /\ 0 \in 0 .. MaxSend
  BY SizesAssumption DEF KernelType
<1>. QED BY <1>1 DEF ServerPacket, NetworkPacket, Message

\* A sequence of more than one element has a tail that is not empty.
LEMMA TailNonEmpty ==
  ASSUME NEW S, NEW s \in Seq(S), Len(s) > 1
  PROVE  Tail(s) # <<>>
<1>1. s # <<>>
  OBVIOUS
<1>2. Tail(s) \in Seq(S) /\ Len(Tail(s)) = Len(s) - 1 /\ Len(s) \in Nat
  BY <1>1, HeadTailProperties, LenProperties
<1>3. Len(Tail(s)) # 0
  BY <1>2
<1>4. Len(<<>>) = 0
  OBVIOUS
<1>. QED BY <1>3, <1>4, Zenon

\* A client stays a client after one of its packets.
LEMMA ClientAfterType ==
  ASSUME NEW client \in ClientInfo, NEW message \in Message
  PROVE  /\ ClientAfter(client, message) \in ClientInfo
         /\ client.deadline = DeadlineMaxCount =>
              ClientAfter(client, message).deadline = DeadlineMaxCount
<1>1. Hit(client.deadline) \in 1 .. DeadlineMaxCount
  BY SizesAssumption DEF ClientInfo, Hit
<1>2. message.name \in Conns \cup {None} /\ client.clientId \in Conns \cup {None}
  BY DEF Message, ClientInfo
<1>3. (client.terminateOnNextCycle /\ message.command \notin {"BLNK", "SEND"}) \in BOOLEAN
  OBVIOUS
<1>4. ClientAfter(client, message) \in ClientInfo
  BY <1>1, <1>2, <1>3 DEF ClientAfter, ClientInfo
<1>5. client.deadline = DeadlineMaxCount =>
        ClientAfter(client, message).deadline = DeadlineMaxCount
  BY SizesAssumption DEF ClientAfter, Hit, ClientInfo
<1>. QED BY <1>4, <1>5

\* A turn of ReadForSingleSocket takes one packet of the client it reads from.
LEMMA ReadPacketKeeps ==
  ASSUME IInv, ReadPacket
  PROVE  IInv'
<1> DEFINE f == poll.reading
           c == fdOwner[f]
           message == Head(Reading.inbox)
           inbox == Tail(Reading.inbox)
<1>1. /\ f \in Registered /\ f \in Fds /\ c \in Conns /\ poll.pc = "loop"
      /\ Reading \in Connection /\ Reading.inbox # <<>> /\ Reading = conn[c]
  BY ReadingOwned DEF ReadPacket, Reading
<1>2. message \in Message /\ inbox \in Seq(Message)
  BY <1>1 DEF Connection
<1>3. conn' = [conn EXCEPT ![c] = [conn[c] EXCEPT !.inbox = inbox]]
  BY <1>1 DEF ReadPacket
<1>4. clientInfos' = [clientInfos EXCEPT ![f] = ClientAfter(clientInfos[f], message)]
  BY DEF ReadPacket
<1>5. packetsToWrite' = packetsToWrite \o SetupAnswers(f, message)
  BY DEF ReadPacket, Spliced
<1>6. PICK next \in {f, None} :
        /\ next = f => Len(Reading.inbox) > 1
        /\ poll' = [poll EXCEPT !.reading = next, !.readAt = poll.readAt \cup {f},
                                !.readList = poll.readList \o Requests(f, message)]
  BY <1>1, FdsAssumption DEF ReadPacket
<1>7. next = f => inbox # <<>>
  <2>1. Reading.inbox \in Seq(Message)
    BY <1>1 DEF Connection
  <2>. QED BY <1>6, <2>1, TailNonEmpty
<1> HIDE DEF message, inbox
<1>8. KernelType'
  <2>1. [conn[c] EXCEPT !.inbox = inbox] \in Connection
    BY <1>1, <1>2 DEF Connection
  <2>. QED BY <1>1, <1>3, <2>1 DEF ReadPacket, IInv, KernelType
<1>9. ClientType' /\ Registered' = Registered
  BY <1>1, <1>2, <1>4, ClientAfterType DEF IInv, ClientType, Registered
<1>10. QueueType'
  <2>1. SetupAnswers(f, message) \in Seq(NetworkPacket)
    <3>1. /\ ServerPacket(f, "SYNC") \in NetworkPacket
          /\ ServerPacket(f, "JOIN") \in NetworkPacket
      BY <1>1, ServerPacketType DEF IInv, Commands
    <3>. QED BY <3>1 DEF SetupAnswers
  <2>2. packetsToRead' = packetsToRead
    BY DEF ReadPacket
  <2>. QED BY <1>5, <2>1, <2>2 DEF IInv, QueueType
<1>11. PollType'
  <2>1. Requests(f, message) \in Seq(NetworkPacket)
    <3>1. [socket |-> f, message |-> message] \in NetworkPacket
      BY <1>1, <1>2 DEF NetworkPacket
    <3>. QED BY <3>1 DEF Requests
  <2>2. /\ next \in Fds \cup {None} /\ poll.readAt \cup {f} \in SUBSET Fds
        /\ poll.readList \o Requests(f, message) \in Seq(NetworkPacket)
    BY <1>1, <1>6, <2>1 DEF IInv, PollType
  <2>. QED BY <1>6, <2>2 DEF IInv, PollType
<1>12. /\ poll'.pc = poll.pc /\ poll'.terminate = poll.terminate
       /\ poll'.hup = poll.hup /\ poll'.in = poll.in /\ poll'.reading = next
  BY <1>6 DEF IInv, PollType
<1>13. /\ conn'[c].inbox = inbox
       /\ \A d \in Conns : /\ d # c => conn'[d] = conn[d]
                           /\ conn'[d].peer = conn[d].peer
                           /\ conn'[d].shut = conn[d].shut
  BY <1>1, <1>3 DEF IInv, KernelType, Connection
<1>14. \A g \in Registered : /\ fdOwner'[g] = fdOwner[g] /\ fdOwner[g] \in Conns
                             /\ g # f => fdOwner[g] # c
  BY <1>1, RegisteredOwned, ConnsAssumption
     DEF ReadPacket, IInv, NoDescriptorLeaked, ClientType
<1>15. \A g \in Registered : /\ HungUp(g) => HungUp(g)'
                             /\ g # f /\ HasInput(g) => HasInput(g)'
  BY <1>13, <1>14 DEF HungUp, HasInput
<1>16. EventsValid'
  <2>1. \A g \in {f} : HasInput(g)' <=> inbox # <<>>
    BY <1>1, <1>13, <1>14 DEF HasInput
  <2>. QED BY <1>1, <1>6, <1>7, <1>9, <1>12, <1>15, <2>1, FdsAssumption
          DEF IInv, EventsValid
<1>17. TerminateValid'
  <2>1. \A g \in Registered : Over(g) => Over(g)'
    <3>1. \A g \in Registered : clientInfos[g].deadline = DeadlineMaxCount =>
                                  clientInfos'[g].deadline = DeadlineMaxCount
      BY <1>1, <1>2, <1>4, ClientAfterType DEF IInv, ClientType, Registered
    <3>. QED BY <1>15, <3>1 DEF Over
  <2>. QED BY <1>9, <1>12, <2>1 DEF IInv, TerminateValid
<1>18. NoDescriptorLeaked' /\ OwnedOpen'
  <2>1. OwnedOpen'
    BY <1>13 DEF ReadPacket, IInv, OwnedOpen, KernelType
  <2>. QED BY <1>9, <2>1, DescriptorFrame DEF ReadPacket, IInv
<1>19. PollSetType' /\ MarkValid'
  BY <1>9 DEF ReadPacket, IInv, PollSetType, MarkValid
<1>. QED BY <1>8, <1>9, <1>10, <1>11, <1>16, <1>17, <1>18, <1>19, Frames
        DEF ReadPacket, IInv

\* A failed read shuts the socket down, which justifies its termination.
LEMMA ReadFailsKeeps ==
  ASSUME IInv, ReadFails
  PROVE  IInv'
<1> DEFINE f == poll.reading
<1>1. f \in Registered /\ f \in Fds /\ fdOwner[f] \in Conns /\ poll.pc = "loop"
  BY ReadingOwned DEF ReadFails
<1>2. /\ conn' = ShutDown({f})
      /\ clientInfos' = [clientInfos EXCEPT ![f].deadline = Hit(@)]
      /\ poll' = [poll EXCEPT !.reading = None, !.readAt = @ \ {f},
                              !.terminate = @ \cup {f}]
  BY DEF ReadFails
<1>3. KernelType' /\ \A c \in Conns : Grows(c)
  BY <1>2, ShutDownConn DEF ReadFails, IInv, KernelType, Grows
<1>4. ClientType' /\ Registered' = Registered
  <2>1. Hit(clientInfos[f].deadline) \in 1 .. DeadlineMaxCount
    BY <1>1, SizesAssumption DEF IInv, ClientType, ClientInfo, Hit
  <2>2. [clientInfos[f] EXCEPT !.deadline = Hit(@)] \in ClientInfo
    BY <1>1, <2>1 DEF IInv, ClientType, ClientInfo
  <2>. QED BY <1>1, <1>2, <2>2 DEF IInv, ClientType, Registered
<1>5. PollType'
  BY <1>1, <1>2 DEF IInv, PollType
<1>6. /\ poll'.pc = poll.pc /\ poll'.terminate = poll.terminate \cup {f}
      /\ poll'.hup = poll.hup /\ poll'.in = poll.in /\ poll'.reading = None
  BY <1>2 DEF IInv, PollType
<1>7. \A g \in Registered : /\ HungUp(g) => HungUp(g)'
                            /\ HasInput(g) => HasInput(g)'
                            /\ Over(g) => Over(g)'
  <2>1. \A g \in Registered : fdOwner'[g] = fdOwner[g] /\ fdOwner[g] \in Conns
    BY RegisteredOwned DEF ReadFails, IInv
  <2>2. \A g \in Registered : clientInfos[g].deadline = DeadlineMaxCount =>
                                clientInfos'[g].deadline = DeadlineMaxCount
    BY <1>1, <1>2, SizesAssumption DEF IInv, ClientType, ClientInfo, Registered, Hit
  <2>3. \A g \in Registered : /\ HungUp(g) => HungUp(g)'
                              /\ HasInput(g) => HasInput(g)'
    BY <1>3, <2>1 DEF HungUp, HasInput, Grows
  <2>. QED BY <2>2, <2>3 DEF Over
<1>8. EventsValid'
  BY <1>1, <1>4, <1>6, <1>7 DEF IInv, EventsValid
<1>9. TerminateValid'
  <2>1. \A g \in {f} : Over(g)'
    <3>1. conn'[fdOwner[f]].shut = TRUE
      BY <1>1, <1>2 DEF ShutDown, IInv, KernelType, Connection
    <3>. QED BY <3>1 DEF ReadFails, Over, HungUp
  <2>. QED BY <1>1, <1>4, <1>6, <1>7, <2>1 DEF IInv, TerminateValid
<1>10. NoDescriptorLeaked' /\ OwnedOpen'
  BY <1>3, <1>4, DescriptorFrame, OwnedFrame DEF ReadFails, IInv
<1>11. MarkValid'
  BY <1>4 DEF ReadFails, IInv, MarkValid
<1>. QED BY <1>3, <1>4, <1>5, <1>8, <1>9, <1>10, <1>11, Frames DEF ReadFails, IInv

\* Connections keep their shape when descriptors of theirs are closed, and those
\* behind other descriptors keep their state.
LEMMA ConnsAfterCloseType ==
  ASSUME KernelType, NEW fds
  PROVE  /\ ConnsAfterClose(fds) \in [Conns -> Connection]
         /\ \A c \in Conns : (\A f \in fds : fdOwner[f] # c) =>
              ConnsAfterClose(fds)[c] = conn[c]
<1>1. ASSUME NEW c \in Conns
      PROVE  [conn[c] EXCEPT !.peer = "gone", !.shut = FALSE,
                             !.inbox = <<>>, !.unread = 0] \in Connection
  <2>1. <<>> \in Seq(Message) /\ 0 \in 0 .. SendBuffer
    BY SizesAssumption
  <2>. QED BY <2>1 DEF KernelType, Connection
<1>. QED BY <1>1 DEF ConnsAfterClose, KernelType

\* ClientInfos::close gives up the descriptors of the terminated clients, no other.
LEMMA PollCloseKeeps ==
  ASSUME IInv, PollClose
  PROVE  IInv'
<1> DEFINE known == poll.terminate \cap Registered
<1>1. known \subseteq Fds /\ known \subseteq Registered
  BY DEF IInv, PollType
<1>2. /\ fdOwner' = OwnersAfterClose(known) /\ conn' = ConnsAfterClose(known)
      /\ clientInfos' = ClientsWithout(known) /\ ePollIn' = ePollIn \ known
      /\ poll.pc = "close" /\ health.pc # "mark" /\ stamped' = stamped
      /\ poll' = [poll EXCEPT !.pc = AfterPoll]
      /\ priority' = DecPriority(Cardinality(known))
  BY DEF PollClose, WriteLockFree, StampsWithout
<1>3. AfterPoll \in {"update", "work"}
  BY DEF AfterPoll
<1> HIDE DEF known
<1>4. KernelType'
  BY <1>2, ConnsAfterCloseType DEF IInv, KernelType, OwnersAfterClose
<1>5. ClientType' /\ Registered' = Registered \ known
  BY <1>2 DEF IInv, ClientType, ClientsWithout, Registered
<1>6. PollSetType'
  <2>1. IsFiniteSet(known)
    BY <1>1, FdsAssumption, FS_Subset
  <2>2. Cardinality(known) \in Nat
    BY <2>1, FS_CardinalityType
  <2>3. priority' \in Nat
    BY <1>2, <2>2 DEF DecPriority, IInv, PollSetType
  <2>. QED BY <1>2, <2>3 DEF PollClose, IInv, PollSetType
<1>7. PollType'
  BY <1>2, <1>3 DEF IInv, PollType
<1>8. /\ poll'.pc = AfterPoll /\ poll'.reading = poll.reading
      /\ poll'.hup = poll.hup /\ poll'.in = poll.in
  BY <1>2 DEF IInv, PollType
<1>9. EventsValid' /\ TerminateValid'
  <2>1. poll.hup = {} /\ poll.in = {} /\ poll.reading = None
    BY <1>2 DEF IInv, EventsValid
  <2>. QED BY <1>3, <1>8, <2>1 DEF EventsValid, TerminateValid
<1>10. \A f \in Fds : fdOwner'[f] = IF f \in known THEN None ELSE fdOwner[f]
  BY <1>2 DEF OwnersAfterClose
<1>11. NoDescriptorLeaked'
  <2>1. main' = main
    BY DEF PollClose
  <2>. QED BY <1>1, <1>2, <1>5, <1>10, <2>1 DEF IInv, NoDescriptorLeaked
<1>12. OwnedOpen'
  <2> SUFFICES ASSUME NEW f \in Fds, fdOwner'[f] # None
               PROVE  conn'[fdOwner'[f]].peer \in {"open", "closed"}
    BY DEF OwnedOpen
  <2>1. f \notin known /\ fdOwner'[f] = fdOwner[f] /\ fdOwner[f] \in Conns
    BY <1>10 DEF IInv, KernelType
  <2>2. \A g \in known : fdOwner[g] # fdOwner[f]
    BY <1>1, <1>10, <2>1 DEF IInv, NoDescriptorLeaked
  <2>3. conn'[fdOwner[f]] = conn[fdOwner[f]]
    BY <1>2, <2>1, <2>2, ConnsAfterCloseType DEF IInv
  <2>. QED BY <2>1, <2>3 DEF IInv, OwnedOpen
<1>13. MarkValid'
  BY <1>2 DEF PollClose, MarkValid
<1>. QED BY <1>4, <1>5, <1>6, <1>7, <1>9, <1>11, <1>12, <1>13, Frames
        DEF PollClose, IInv

(***************************************************************************)
(* Execute and Write.                                                       *)
(***************************************************************************)
\* A step of Write that leaves the kernel to Grows and moves the threads on.
LEMMA WriteFrame ==
  ASSUME IInv, UNCHANGED <<fdOwner, clientInfos, ePollIn, main>>,
         \A c \in Conns : Grows(c), NEW pc, poll' = PollAfterWrite(pc),
         ~ SeparateExec => poll.pc = "work"
  PROVE  /\ PollType' /\ EventsValid' /\ TerminateValid'
         /\ NoDescriptorLeaked' /\ OwnedOpen'
<1>1. /\ poll' \in {poll, [poll EXCEPT !.pc = "update"]}
      /\ poll'.pc = poll.pc \/ (poll.pc = "work" /\ poll'.pc = "update")
      /\ poll'.hup = poll.hup /\ poll'.in = poll.in
      /\ poll'.reading = poll.reading /\ poll'.terminate = poll.terminate
  BY DEF PollAfterWrite, IInv, PollType
<1>2. PollType'
  BY <1>1 DEF IInv, PollType
<1>3. \A f \in Registered : /\ HungUp(f) => HungUp(f)'
                            /\ HasInput(f) => HasInput(f)'
                            /\ Over(f) => Over(f)'
  BY RegisteredOwned DEF IInv, HungUp, HasInput, Over, Grows
<1>4. Registered' = Registered
  BY DEF Registered
<1>5. EventsValid'
  BY <1>1, <1>3, <1>4 DEF IInv, EventsValid
<1>6. TerminateValid'
  BY <1>1, <1>3, <1>4 DEF IInv, TerminateValid
<1>7. NoDescriptorLeaked' /\ OwnedOpen'
  BY <1>4, DescriptorFrame, OwnedFrame DEF IInv
<1>. QED BY <1>2, <1>5, <1>6, <1>7

\* Execute takes packetsToRead as it is.
LEMMA ExecTakeKeeps ==
  ASSUME IInv, ExecTake
  PROVE  IInv'
<1>1. QueueType' /\ ExecType'
  <2>1. <<>> \in Seq(NetworkPacket)
    OBVIOUS
  <2>2. QueueType'
    BY <2>1 DEF ExecTake, IInv, QueueType
  <2>3. ExecType'
    BY DEF ExecTake, IInv, QueueType, ExecType
  <2>. QED BY <2>2, <2>3
<1>2. SendValid' /\ TurnValid'
  BY DEF ExecTake, MayExecute, IInv, ExecType, SendValid, TurnValid
<1>3. NoDescriptorLeaked'
  BY DescriptorFrame DEF ExecTake, IInv, Registered
<1>4. EventsValid' /\ TerminateValid' /\ OwnedOpen'
  BY EventFrame DEF ExecTake, IInv
<1>. QED BY <1>1, <1>2, <1>3, <1>4, Frames DEF ExecTake, IInv

\* A packet the callback ran on is still a packet.
LEMMA CalledType ==
  ASSUME ClientType, NEW packet \in NetworkPacket
  PROVE  Called(packet) \in NetworkPacket
<1> DEFINE name == clientInfos[packet.socket].clientId
           message == [packet.message EXCEPT !.ran = TRUE, !.name = name]
<1>1. CASE packet.socket \in Registered
  <2>1. name \in Conns \cup {None} /\ packet.message \in Message
    BY <1>1 DEF ClientType, ClientInfo, NetworkPacket
  <2> HIDE DEF name
  <2>2. message \in Message
    BY <2>1 DEF Message
  <2>3. Called(packet) = [packet EXCEPT !.message = message]
    BY <1>1, <2>1 DEF Called, Message, NetworkPacket, name
  <2> HIDE DEF message
  <2>. QED BY <2>2, <2>3 DEF NetworkPacket
<1>2. CASE packet.socket \notin Registered
  BY <1>2 DEF Called
<1>. QED BY <1>1, <1>2

\* Execute hands packets of their type to the write queue.
LEMMA ExecRunKeeps ==
  ASSUME IInv, ExecRun
  PROVE  IInv'
<1> DEFINE called == [i \in DOMAIN exec.tempList |-> Called(exec.tempList[i])]
<1>1. called \in Seq(NetworkPacket)
  <2>1. exec.tempList \in Seq(NetworkPacket)
    BY DEF IInv, ExecType
  <2>2. \A i \in 1 .. Len(exec.tempList) : Called(exec.tempList[i]) \in NetworkPacket
    BY <2>1, CalledType DEF IInv
  <2>3. called = [i \in 1 .. Len(exec.tempList) |-> Called(exec.tempList[i])]
    BY <2>1
  <2>. QED BY <2>1, <2>2, <2>3
<1>2. \/ packetsToWrite' = packetsToWrite
      \/ packetsToWrite' = packetsToWrite \o called
  BY DEF ExecRun, Spliced
<1> HIDE DEF called
<1>3. QueueType'
  <2>1. packetsToRead' = packetsToRead
    BY DEF ExecRun
  <2>2. packetsToWrite \o called \in Seq(NetworkPacket)
    BY <1>1 DEF IInv, QueueType
  <2>. QED BY <1>2, <2>1, <2>2 DEF IInv, QueueType
<1>4. ExecType' /\ SendValid' /\ TurnValid'
  <2>1. <<>> \in Seq(NetworkPacket)
    OBVIOUS
  <2>2. exec' = [exec EXCEPT !.pc = "gather", !.tempList = <<>>]
    BY DEF ExecRun
  <2>3. ExecType' /\ SendValid'
    BY <2>1, <2>2 DEF IInv, ExecType, SendValid
  <2>4. TurnValid'
    BY DEF ExecRun, IInv, TurnValid
  <2>. QED BY <2>3, <2>4
<1>5. NoDescriptorLeaked'
  BY DescriptorFrame DEF ExecRun, IInv, Registered
<1>6. EventsValid' /\ TerminateValid' /\ OwnedOpen'
  BY EventFrame DEF ExecRun, IInv
<1>. QED BY <1>3, <1>4, <1>5, <1>6, Frames DEF ExecRun, IInv

\* Moving on from a batch: what is left of it, and whose turn it is.
LEMMA BatchFrame ==
  ASSUME IInv, NEW batch \in Seq(NetworkPacket), NEW pc \in {"take", "send"},
         pc = "take" <=> batch = <<>>,
         exec' = [exec EXCEPT !.pc = pc, !.tempWriteList = batch],
         poll' = PollAfterWrite(pc), exec.pc # "take"
  PROVE  ExecType' /\ SendValid' /\ TurnValid'
<1>1. ExecType'
  BY DEF IInv, ExecType
<1>2. exec'.pc = pc /\ exec'.tempWriteList = batch
  BY DEF IInv, ExecType
<1>3. SendValid'
  BY <1>2 DEF SendValid
<1>4. TurnValid'
  BY <1>2 DEF IInv, TurnValid, PollAfterWrite
<1>. QED BY <1>1, <1>3, <1>4

\* Write takes packetsToWrite, and sends only when there is a packet.
LEMMA WriteGatherKeeps ==
  ASSUME IInv, WriteGather
  PROVE  IInv'
<1> DEFINE pc == IF packetsToWrite = <<>> THEN "take" ELSE "send"
<1>1. /\ exec' = [exec EXCEPT !.pc = pc, !.tempWriteList = packetsToWrite]
      /\ poll' = PollAfterWrite(pc) /\ exec.pc = "gather"
  BY DEF WriteGather
<1>2. /\ packetsToWrite \in Seq(NetworkPacket) /\ pc \in {"take", "send"}
      /\ pc = "take" <=> packetsToWrite = <<>>
  BY DEF IInv, QueueType
<1> HIDE DEF pc
<1>3. ExecType' /\ SendValid' /\ TurnValid'
  BY <1>1, <1>2, BatchFrame
<1>4. QueueType'
  <2>1. <<>> \in Seq(NetworkPacket)
    OBVIOUS
  <2>. QED BY <2>1 DEF WriteGather, IInv, QueueType
<1>5. /\ PollType' /\ EventsValid' /\ TerminateValid'
      /\ NoDescriptorLeaked' /\ OwnedOpen'
  <2>1. \A c \in Conns : Grows(c)
    BY DEF WriteGather, Grows
  <2>2. ~ SeparateExec => poll.pc = "work"
    BY <1>1 DEF IInv, TurnValid
  <2>. QED BY <1>1, <2>1, <2>2, WriteFrame DEF WriteGather
<1>. QED BY <1>3, <1>4, <1>5, Frames DEF WriteGather, IInv

\* A sent packet reaches a connection the kernel still has.
LEMMA WriteSendsKeeps ==
  ASSUME IInv, WriteSends
  PROVE  IInv'
<1> DEFINE packet == Head(exec.tempWriteList)
           rest == Tail(exec.tempWriteList)
           pc == IF rest = <<>> THEN "take" ELSE "send"
           c == Target
           outbox == Append(conn[c].outbox, packet.message)
           unread == conn[c].unread + 1
           updated == [conn[c] EXCEPT !.outbox = outbox, !.unread = unread]
<1>1. /\ packet \in NetworkPacket /\ rest \in Seq(NetworkPacket)
      /\ exec.pc = "send"
  BY DEF WriteSends, IInv, SendValid, ExecType
<1>2. c \in Conns /\ conn[c] \in Connection /\ conn[c].unread < SendBuffer
  BY <1>1 DEF WriteSends, Target, IInv, KernelType, NetworkPacket
<1>3. /\ conn' \in {conn, [conn EXCEPT ![c] = updated]}
      /\ exec' = [exec EXCEPT !.pc = pc, !.tempWriteList = rest]
      /\ poll' = PollAfterWrite(pc)
  BY <1>2 DEF WriteSends, Delivered, IInv, KernelType
<1>4. pc \in {"take", "send"} /\ (pc = "take" <=> rest = <<>>)
  OBVIOUS
<1>5. outbox \in Seq(Message)
  BY <1>1, <1>2 DEF Connection, NetworkPacket
<1>6. unread \in 0 .. SendBuffer
  BY <1>2, SizesAssumption DEF Connection
<1> HIDE DEF packet, rest, pc, c, outbox, unread
<1>7. updated \in Connection /\ updated.peer = conn[c].peer
      /\ updated.shut = conn[c].shut /\ updated.inbox = conn[c].inbox
  BY <1>2, <1>5, <1>6 DEF Connection
<1>8. KernelType'
  BY <1>2, <1>3, <1>7 DEF WriteSends, IInv, KernelType
<1>9. \A d \in Conns : Grows(d)
  BY <1>2, <1>3, <1>7 DEF Grows, IInv, KernelType
<1>10. ExecType' /\ SendValid' /\ TurnValid'
  BY <1>1, <1>3, <1>4, BatchFrame
<1>11. /\ PollType' /\ EventsValid' /\ TerminateValid'
       /\ NoDescriptorLeaked' /\ OwnedOpen'
  <2>1. ~ SeparateExec => poll.pc = "work"
    BY <1>1 DEF IInv, TurnValid
  <2>. QED BY <1>3, <1>9, <2>1, WriteFrame DEF WriteSends
<1>. QED BY <1>8, <1>10, <1>11, Frames DEF WriteSends, IInv

\* A failed send shuts the socket down and drops the batch.
LEMMA WriteFailsKeeps ==
  ASSUME IInv, WriteFails
  PROVE  IInv'
<1>1. <<>> \in Seq(NetworkPacket)
  OBVIOUS
<1>2. PICK f : /\ conn' = ShutDown({f}) /\ exec.pc = "send"
               /\ exec' = [exec EXCEPT !.pc = "take", !.tempWriteList = <<>>]
               /\ poll' = PollAfterWrite("take")
  BY DEF WriteFails
<1>3. KernelType' /\ \A c \in Conns : Grows(c)
  BY <1>2, ShutDownConn DEF WriteFails, IInv, KernelType, Grows
<1>4. ExecType' /\ SendValid' /\ TurnValid'
  BY <1>1, <1>2, BatchFrame
<1>5. /\ PollType' /\ EventsValid' /\ TerminateValid'
      /\ NoDescriptorLeaked' /\ OwnedOpen'
  <2>1. ~ SeparateExec => poll.pc = "work"
    BY <1>2 DEF IInv, TurnValid
  <2>. QED BY <1>2, <1>3, <2>1, WriteFrame DEF WriteFails
<1>. QED BY <1>3, <1>4, <1>5, Frames DEF WriteFails, IInv

(***************************************************************************)
(* The health check.                                                        *)
(***************************************************************************)
\* The health check selects descriptors.
LEMMA HealthSelectKeeps ==
  ASSUME IInv, HealthSelect
  PROVE  IInv'
<1>1. HealthType'
  BY DEF HealthSelect, IInv, PollSetType, HealthType
<1>2. MarkValid'
  BY DEF HealthSelect, IInv, HealthType, MarkValid
<1>3. NoDescriptorLeaked'
  BY DescriptorFrame DEF HealthSelect, IInv, Registered
<1>4. EventsValid' /\ TerminateValid' /\ OwnedOpen'
  BY EventFrame DEF HealthSelect, IInv
<1>. QED BY <1>1, <1>2, <1>3, <1>4, Frames DEF HealthSelect, IInv

\* FilterSocketsToTerminate shuts a warned client down and closes nothing.
LEMMA HealthCondemnsKeeps ==
  ASSUME IInv, NEW f \in Fds, HealthCondemns(f)
  PROVE  IInv'
<1>1. conn' \in {conn, ShutDown({f})}
  BY DEF HealthCondemns
<1>2. KernelType' /\ \A c \in Conns : Grows(c)
  BY <1>1, ShutDownConn DEF HealthCondemns, IInv, KernelType, Grows
<1>3. HealthType' /\ MarkValid'
  <2>1. HealthType'
    BY DEF HealthCondemns, IInv, HealthType
  <2>2. MarkValid'
    BY DEF HealthCondemns, IInv, HealthType, MarkValid
  <2>. QED BY <2>1, <2>2
<1>4. NoDescriptorLeaked'
  BY DescriptorFrame DEF HealthCondemns, IInv, Registered
<1>5. EventsValid' /\ TerminateValid' /\ OwnedOpen'
  BY <1>2, GrowingFrame, OwnedFrame DEF HealthCondemns, IInv
<1>. QED BY <1>2, <1>3, <1>4, <1>5, Frames DEF HealthCondemns, IInv

\* FilterSocketsToTerminate is about to mark a client it found.
LEMMA HealthSparesKeeps ==
  ASSUME IInv, NEW f \in Fds, HealthSpares(f)
  PROVE  IInv'
<1>1. HealthType'
  BY DEF HealthSpares, IInv, HealthType
<1>2. MarkValid'
  BY DEF HealthSpares, IInv, HealthType, MarkValid, Registered
<1>3. NoDescriptorLeaked'
  BY DescriptorFrame DEF HealthSpares, IInv, Registered
<1>4. EventsValid' /\ TerminateValid' /\ OwnedOpen'
  BY EventFrame DEF HealthSpares, IInv
<1>. QED BY <1>1, <1>2, <1>3, <1>4, Frames DEF HealthSpares, IInv

\* TerminateThisCycleOrNext marks a client that is still there: close has to wait
\* for the read lock.
LEMMA HealthMarkKeeps ==
  ASSUME IInv, HealthMark
  PROVE  IInv'
<1> DEFINE f == health.marking
           heartbeat == ServerPacket(f, "HART")
           client == [clientInfos[f] EXCEPT !.terminateOnNextCycle = TRUE]
<1>1. f \in Registered /\ f \in Fds
  BY RegisteredOwned DEF HealthMark, IInv, MarkValid
<1>2. /\ clientInfos' = [clientInfos EXCEPT ![f] = client]
      /\ health' = [health EXCEPT !.pc = "filter", !.marking = None,
                                  !.pending = @ \ {f},
                                  !.warnings = Append(@, heartbeat)]
  BY DEF HealthMark
<1>3. heartbeat \in NetworkPacket
  BY <1>1, ServerPacketType DEF IInv, Commands
<1>4. client \in ClientInfo /\ client.deadline = clientInfos[f].deadline
  BY <1>1 DEF IInv, ClientType, ClientInfo
<1> HIDE DEF heartbeat, client
<1>5. HealthType' /\ MarkValid'
  <2>1. Append(health.warnings, heartbeat) \in Seq(NetworkPacket)
    BY <1>3 DEF IInv, HealthType
  <2>2. HealthType'
    BY <1>2, <2>1 DEF IInv, HealthType
  <2>3. health'.pc = "filter"
    BY <1>2 DEF IInv, HealthType
  <2>. QED BY <2>2, <2>3 DEF MarkValid
<1>6. ClientType' /\ Registered' = Registered
  BY <1>1, <1>2, <1>4 DEF IInv, ClientType, Registered
<1>7. \A g \in Registered : clientInfos'[g].deadline = clientInfos[g].deadline
  BY <1>1, <1>2, <1>4 DEF IInv, ClientType, Registered
<1>8. NoDescriptorLeaked'
  BY <1>6, DescriptorFrame DEF HealthMark, IInv
<1>9. EventsValid' /\ TerminateValid' /\ OwnedOpen'
  <2>1. EventsValid'
    BY <1>6 DEF HealthMark, IInv, EventsValid, HungUp, HasInput
  <2>2. TerminateValid'
    BY <1>6, <1>7 DEF HealthMark, IInv, TerminateValid, Over, HungUp
  <2>3. OwnedOpen'
    BY DEF HealthMark, IInv, OwnedOpen
  <2>. QED BY <2>1, <2>2, <2>3
<1>. QED BY <1>5, <1>6, <1>8, <1>9, Frames DEF HealthMark, IInv

\* The heartbeats join the write queue.
LEMMA HealthWarnKeeps ==
  ASSUME IInv, HealthWarn
  PROVE  IInv'
<1>1. QueueType' /\ HealthType'
  <2>1. <<>> \in Seq(NetworkPacket)
    OBVIOUS
  <2>2. QueueType'
    BY DEF HealthWarn, Spliced, IInv, QueueType, HealthType
  <2>3. health' = [health EXCEPT !.pc = "close", !.warnings = <<>>]
    BY DEF HealthWarn
  <2>4. HealthType'
    BY <2>1, <2>3 DEF IInv, HealthType
  <2>. QED BY <2>2, <2>4
<1>2. MarkValid'
  BY DEF HealthWarn, IInv, HealthType, MarkValid
<1>3. NoDescriptorLeaked'
  BY DescriptorFrame DEF HealthWarn, IInv, Registered
<1>4. EventsValid' /\ TerminateValid' /\ OwnedOpen'
  BY EventFrame DEF HealthWarn, IInv
<1>. QED BY <1>1, <1>2, <1>3, <1>4, Frames DEF HealthWarn, IInv

\* CloseSockets shuts down and closes nothing.
LEMMA HealthCloseKeeps ==
  ASSUME IInv, HealthClose
  PROVE  IInv'
<1>1. conn' = ShutDown(health.selected)
  BY DEF HealthClose
<1>2. KernelType' /\ \A c \in Conns : Grows(c)
  BY <1>1, ShutDownConn DEF HealthClose, IInv, KernelType, Grows
<1>3. HealthType'
  BY DEF HealthClose, IInv, HealthType
<1>4. MarkValid'
  BY DEF HealthClose, IInv, HealthType, MarkValid
<1>5. NoDescriptorLeaked'
  BY DescriptorFrame DEF HealthClose, IInv, Registered
<1>6. EventsValid' /\ TerminateValid' /\ OwnedOpen'
  BY <1>2, GrowingFrame, OwnedFrame DEF HealthClose, IInv
<1>. QED BY <1>2, <1>3, <1>4, <1>5, <1>6, Frames DEF HealthClose, IInv

(***************************************************************************)
(* The theorems.                                                            *)
(***************************************************************************)
\* The server starts with no client and no descriptor.
LEMMA InitIInv == Init => IInv
<1> SUFFICES ASSUME Init
             PROVE  IInv
  OBVIOUS
<1>1. \A S : <<>> \in Seq(S)
  OBVIOUS
<1>2. KernelType
  <2>1. 0 \in 0 .. MaxSend /\ 0 \in 0 .. SendBuffer
    BY SizesAssumption
  <2>2. \A c \in Conns : conn[c] \in Connection
    BY <1>1, <2>1 DEF Init, Connection
  <2>. QED BY <2>2 DEF Init, KernelType
<1>3. ClientType /\ Registered = {}
  BY DEF Init, ClientType, Registered
<1>4. PollSetType /\ QueueType
  BY <1>1, SizesAssumption DEF Init, PollSetType, QueueType
<1>5. PollType
  BY <1>1 DEF Init, PollType
<1>6. ExecType
  BY <1>1 DEF Init, ExecType
<1>7. HealthType
  BY <1>1 DEF Init, HealthType
<1>8. MainType
  BY DEF Init, MainType
<1>9. NoDescriptorLeaked /\ OwnedOpen
  BY <1>3 DEF Init, NoDescriptorLeaked, OwnedOpen
<1>10. EventsValid /\ TerminateValid /\ TurnValid /\ SendValid /\ MarkValid /\ ChildValid
  BY <1>3 DEF Init, EventsValid, TerminateValid, TurnValid, SendValid, MarkValid,
              ChildValid
<1>. QED BY <1>2, <1>3, <1>4, <1>5, <1>6, <1>7, <1>8, <1>9, <1>10 DEF IInv

\* No step of any thread, peer or of the kernel breaks the invariant.
LEMMA NextIInv == IInv /\ [Next]_vars => IInv'
<1> SUFFICES ASSUME IInv, [Next]_vars
             PROVE  IInv'
  OBVIOUS
<1>1. CASE PeerStep
  BY <1>1, PeerSendKeeps, PeerReceiveKeeps, PeerCloseKeeps DEF PeerStep
<1>2. CASE \E f \in Fds : TimePasses(f)
  BY <1>2, TimePassesKeeps
<1>3. CASE \E c \in Conns, f \in Fds : Accept(c, f)
  BY <1>3, AcceptKeeps
<1>4. CASE AddStep
  BY <1>4, InsertKeeps, IncPriorityKeeps, UpdateSingleKeeps DEF AddStep
<1>5. CASE PollStep
  BY <1>5, PollUpdateKeeps, PollWaitKeeps, EventTerminatesKeeps, EventReadsKeeps,
     ReadPacketKeeps, ReadFailsKeeps, PollFinishKeeps, PollCloseKeeps DEF PollStep
<1>6. CASE ExecStep
  BY <1>6, ExecTakeKeeps, ExecRunKeeps, WriteGatherKeeps, WriteSendsKeeps,
     WriteFailsKeeps DEF ExecStep
<1>7. CASE HealthStep
  BY <1>7, HealthSelectKeeps, HealthCondemnsKeeps, HealthSparesKeeps,
     HealthMarkKeeps, HealthWarnKeeps, HealthCloseKeeps DEF HealthStep
<1>8. CASE UNCHANGED vars
  <2>1. NoDescriptorLeaked'
    BY <1>8, DescriptorFrame DEF vars, IInv, Registered
  <2>2. EventsValid' /\ TerminateValid' /\ OwnedOpen'
    BY <1>8, EventFrame DEF vars, IInv
  <2>. QED BY <1>8, <2>1, <2>2, Frames DEF vars, IInv
<1>. QED BY <1>1, <1>2, <1>3, <1>4, <1>5, <1>6, <1>7, <1>8 DEF Next

\* The inductive invariant holds in every reachable state, for every build.
THEOREM Invariance == Spec => []IInv
  BY InitIInv, NextIInv, PTL DEF Spec

\* Every variable keeps its type (the declarations of ClientInfos, ClientInfo and
\* NetworkPacket), and no action reads from a connection that is not there.
THEOREM TypeCorrect == Spec => []TypeOK
<1>1. IInv => TypeOK
  BY DEF IInv, TypeOK, KernelType, ClientType, PollSetType, QueueType, PollType,
         ExecType, HealthType, MainType
<1>. QED BY <1>1, Invariance, PTL

\* insert, close, Accept and the kernel agree on the descriptors, whatever the
\* four threads interleave and however many clients there are.
THEOREM DescriptorsSafe == Spec => []NoDescriptorLeaked
<1>1. IInv => NoDescriptorLeaked
  BY DEF IInv
<1>. QED BY <1>1, Invariance, PTL

\* ClientInfos::close only ever closes a connection that is over: an event of one
\* Wait never ends the connection that got the same descriptor afterwards.
THEOREM ClosingJustified == Spec => CloseJustified
<1> DEFINE Justified ==
      \A f \in Fds :
        fdOwner[f] # None /\ fdOwner'[f] = None =>
          \/ HungUp(f)
          \/ f \in Registered /\ clientInfos[f].deadline = DeadlineMaxCount
<1>1. IInv /\ [Next]_vars => [Justified]_vars
  <2> SUFFICES ASSUME IInv, [Next]_vars, NEW f \in Fds,
                      fdOwner[f] # None, fdOwner'[f] = None
               PROVE  \/ HungUp(f)
                      \/ f \in Registered /\ clientInfos[f].deadline = DeadlineMaxCount
    OBVIOUS
  <2>1. PollClose
    <3>1. CASE \E c \in Conns, g \in Fds : Accept(c, g)
      BY <3>1, ConnsAssumption DEF Accept, IInv, KernelType
    <3>2. CASE fdOwner' = fdOwner
      BY <3>2
    <3>3. CASE PollClose
      BY <3>3
    <3>. QED BY <3>1, <3>2, <3>3
         DEF Next, PeerStep, AddStep, PollStep, ExecStep, HealthStep, vars,
             PeerSend, PeerReceive, PeerClose, TimePasses, Insert, IncPriority,
             UpdateSingle, PollUpdate, PollWait, EventTerminates, EventReads,
             ReadPacket, ReadFails, PollFinish, ExecTake, ExecRun, WriteGather,
             WriteSends, WriteFails, HealthSelect, HealthCondemns, HealthSpares,
             HealthMark, HealthWarn, HealthClose
  <2>2. f \in poll.terminate \cap Registered /\ poll.pc = "close"
    BY <2>1 DEF PollClose, OwnersAfterClose
  <2>. QED BY <2>2 DEF IInv, TerminateValid, Over
<1>. QED BY <1>1, Invariance, PTL DEF Spec, CloseJustified
=============================================================================
