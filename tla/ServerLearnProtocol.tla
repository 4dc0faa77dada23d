------------------------ MODULE ServerLearnProtocol ------------------------
(***************************************************************************)
(* One protocol instance of the polling server: the thread that polls and  *)
(* reads (main.cxx, PollAndRead), the code that executes callbacks and      *)
(* writes (run by the same thread, or by ExecuteAndWrite when the build     *)
(* defines PC_SEPARATE_POLL_EXEC_WRITE), the health-check thread, the       *)
(* acceptor (main), and the kernel that owns descriptors and connections.   *)
(*                                                                          *)
(* A descriptor is a small integer that the kernel hands out again as soon  *)
(* as it is closed, while a connection is never reused: the ghost fields    *)
(* from, seq and ran of a packet remember which connection it belongs to,   *)
(* so that the properties can tell a connection from its descriptor.        *)
(***************************************************************************)
EXTENDS Integers, Sequences, FiniteSets

CONSTANTS
  Fds,               \* descriptors the kernel can hand out
  Conns,             \* connections peers open, each at most once
  None,              \* no descriptor, no connection, no client id yet
  PeerCommands,      \* what peers send; "PART" is a packet whose tail never comes
  MaxSend,           \* bound: packets a peer sends on one connection
  SendBuffer,        \* unread packets after which a blocking send blocks
  InitialEvents,     \* size of pollInEvents at construction (5 in the code)
  DeadlineMaxCount,  \* DEADLINE_MAX_COUNT_DEFAULT
  SeparateExec,      \* PC_SEPARATE_POLL_EXEC_WRITE
  MultiShot          \* PC_OPTIMIZE_READ_MULTIPLE_SINGLE_SHOT

ASSUME FdsAssumption == IsFiniteSet(Fds) /\ None \notin Fds
ASSUME ConnsAssumption == None \notin Conns
ASSUME CommandsAssumption ==
  PeerCommands \subseteq {"SEND", "BLNK", "ACKA", "ACID", "PART"}
ASSUME SizesAssumption == /\ MaxSend \in Nat
                          /\ SendBuffer \in Nat \ {0}
                          /\ InitialEvents \in Nat \ {0}
                          /\ DeadlineMaxCount \in Nat \ {0}
ASSUME FlagsAssumption == SeparateExec \in BOOLEAN /\ MultiShot \in BOOLEAN

VARIABLES
  fdOwner,         \* kernel: the connection behind each descriptor, or None
  conn,            \* kernel and peer: the state of each connection
  clientInfos,     \* ClientInfos::clientInfos, a map on registered descriptors
  ePollIn,         \* ClientInfos::ePollIn, the interest list
  updateIssued,    \* ClientInfos::updateIssued
  pollSize,        \* ClientInfos::pollInEvents.size()
  priority,        \* balancer.sizes[balancerIndex], in units of one client
  stamped,         \* descriptors with an entry in mostRecentTimestamps
  expired,         \* those whose oldest entry is older than the timeout
  packetsToRead,   \* ClientInfos::packetsToRead
  packetsToWrite,  \* ClientInfos::packetsToWrite
  poll,            \* PollAndRead: program counter and local variables
  exec,            \* Execute and Write: program counter and local variables
  health,          \* execHealthCheck: program counter and local variables
  main             \* the accept loop of main: program counter and child

vars == <<fdOwner, conn, clientInfos, ePollIn, updateIssued, pollSize,
          priority, stamped, expired, packetsToRead, packetsToWrite,
          poll, exec, health, main>>

kernelVars == <<fdOwner, conn>>
pollSetVars == <<ePollIn, updateIssued, pollSize>>
stampVars == <<stamped, expired>>
queueVars == <<packetsToRead, packetsToWrite>>
threadVars == <<poll, exec, health, main>>

(***************************************************************************)
(* Types.                                                                   *)
(***************************************************************************)
Commands == {"SEND", "BLNK", "ACKA", "ACID", "PART", "HART", "SYNC", "JOIN"}

\* What a connection carries: a packet without the descriptor.
Message == [command : Commands, from : Conns \cup {None}, seq : 0 .. MaxSend,
            ran : BOOLEAN, name : Conns \cup {None}]

NetworkPacket == [socket : Fds, message : Message]

Connection == [peer : {"new", "open", "closed", "gone"}, shut : BOOLEAN,
               sent : 0 .. MaxSend, inbox : Seq(Message),
               outbox : Seq(Message), unread : 0 .. SendBuffer]

ClientInfo == [clientId : Conns \cup {None}, deadline : 1 .. DeadlineMaxCount,
               terminateOnNextCycle : BOOLEAN]

(***************************************************************************)
(* The data the threads share.                                              *)
(***************************************************************************)
Registered == DOMAIN clientInfos

\* insert and close hold the write lock, as Update does when an update was
\* issued; OnReadPoll and TerminateThisCycleOrNext are the read-locked
\* sections that span several steps here.
WriteLockFree == poll.pc # "loop" /\ health.pc # "mark"

\* The ClientInfo constructor counts once; clientId is empty.
NewClient == [clientId |-> None, deadline |-> 1, terminateOnNextCycle |-> FALSE]

\* ++deadline: a full queue stays full.
HitBeyond(n) == n + 1
Hit(n) == IF n < DeadlineMaxCount THEN n + 1 ELSE n

\* A full queue breaches when its first entry is recent, which time decides.
MayBreach(f) == clientInfos[f].deadline = DeadlineMaxCount

\* unordered_map::insert keeps an entry that is already there.
ClientsWith(f) ==
  [g \in Registered \cup {f} |-> IF g \in Registered THEN clientInfos[g]
                                                     ELSE NewClient]

ClientsKept(fds) == clientInfos
ClientsWithout(fds) == [g \in Registered \ fds |-> clientInfos[g]]

\* decPriority, once for each of k clients: refused when too little is left.
DecPriorityReset(k) == 0
DecPriority(k) == IF k <= priority THEN priority - k ELSE 0

\* MostRecentTimestamps::remove: OrderedHashSet::insert never fills the mapper
\* that remove looks the socket up in, so nothing is ever removed.
StampsWithout(fds) == stamped

\* pollInEvents.ExtendTo(clientInfos.size())
NotExtended == pollSize
Extended == IF Cardinality(Registered) <= pollSize THEN pollSize
                                                   ELSE Cardinality(Registered)

\* shutdown(2) on a set of descriptors; a descriptor nobody owns is ignored.
NotShutDown(fds) == conn
ShutDown(fds) ==
  [c \in Conns |-> IF \E f \in fds : fdOwner[f] = c
                     THEN [conn[c] EXCEPT !.shut = TRUE] ELSE conn[c]]

\* close(2): the kernel drops what was not read and frees the descriptor.
ConnsAfterClose(fds) ==
  [c \in Conns |-> IF \E f \in fds : fdOwner[f] = c
                     THEN [conn[c] EXCEPT !.peer = "gone", !.shut = FALSE,
                                          !.inbox = <<>>, !.unread = 0]
                     ELSE conn[c]]

OwnersKept(fds) == fdOwner
OwnersAfterClose(fds) == [f \in Fds |-> IF f \in fds THEN None ELSE fdOwner[f]]

\* PacketList::splice at end()
SplicedInFront(list, packets) == packets \o list
SplicedOver(list, packets) == packets
Spliced(list, packets) == list \o packets

\* NetworkPacket(socket, command), created by the server itself.
ServerPacket(f, command) ==
  [socket |-> f, message |-> [command |-> command, from |-> fdOwner[f],
                              seq |-> 0, ran |-> FALSE, name |-> None]]

Init ==
  /\ fdOwner = [f \in Fds |-> None]
  /\ conn = [c \in Conns |-> [peer |-> "new", shut |-> FALSE, sent |-> 0,
                              inbox |-> <<>>, outbox |-> <<>>, unread |-> 0]]
  /\ clientInfos = [f \in {} |-> NewClient]
  /\ ePollIn = {}
  /\ updateIssued = FALSE
  /\ pollSize = InitialEvents
  /\ priority = 0
  /\ stamped = {}
  /\ expired = {}
  /\ packetsToRead = <<>>
  /\ packetsToWrite = <<>>
  /\ poll = [pc |-> "update", hup |-> {}, in |-> {}, reading |-> None,
             readList |-> <<>>, readAt |-> {}, terminate |-> {}]
  /\ exec = [pc |-> "take", tempList |-> <<>>, tempWriteList |-> <<>>]
  /\ health = [pc |-> "sleep", pending |-> {}, selected |-> {},
               marking |-> None, warnings |-> <<>>]
  /\ main = [pc |-> "accept", child |-> None]

(***************************************************************************)
(* Peers and time.                                                          *)
(***************************************************************************)
\* A client writes one packet; nothing follows a packet it never completes.
PeerSend(c, command) ==
  /\ conn[c].peer = "open" /\ conn[c].sent < MaxSend
  /\ \A i \in 1 .. Len(conn[c].inbox) : conn[c].inbox[i].command # "PART"
  /\ conn' = [conn EXCEPT ![c].sent = @ + 1,
                          ![c].inbox = Append(@,
                             [command |-> command, from |-> c,
                              seq |-> conn[c].sent + 1, ran |-> FALSE,
                              name |-> IF command = "ACID" THEN c ELSE None])]
  /\ UNCHANGED <<fdOwner, clientInfos, pollSetVars, priority, stampVars,
                 queueVars, threadVars>>

\* A client reads what is waiting for it, when that matters to the sender.
PeerReceive(c) ==
  /\ conn[c].peer = "open" /\ conn[c].unread = SendBuffer
  /\ conn' = [conn EXCEPT ![c].unread = 0]
  /\ UNCHANGED <<fdOwner, clientInfos, pollSetVars, priority, stampVars,
                 queueVars, threadVars>>

\* A client closes its end of the connection, or dies.
PeerClose(c) ==
  /\ conn[c].peer = "open"
  /\ conn' = [conn EXCEPT ![c].peer = "closed"]
  /\ UNCHANGED <<fdOwner, clientInfos, pollSetVars, priority, stampVars,
                 queueVars, threadVars>>

\* The oldest entry of a descriptor reaches the timeout; it never gets younger.
TimePasses(f) ==
  /\ f \in stamped \ expired
  /\ expired' = expired \cup {f}
  /\ UNCHANGED <<kernelVars, clientInfos, pollSetVars, priority, stamped,
                 queueVars, threadVars>>

(***************************************************************************)
(* The acceptor: accept, then ServerLearnProtocol::Add.                     *)
(***************************************************************************)
Accept(c, f) ==
  /\ main.pc = "accept" /\ conn[c].peer = "new" /\ fdOwner[f] = None
  /\ fdOwner' = [fdOwner EXCEPT ![f] = c]
  /\ conn' = [conn EXCEPT ![c].peer = "open"]
  /\ main' = [pc |-> "insert", child |-> f]
  /\ UNCHANGED <<clientInfos, pollSetVars, priority, stampVars, queueVars,
                 poll, exec, health>>

\* ClientInfos::insert
Insert ==
  /\ main.pc = "insert" /\ WriteLockFree
  /\ clientInfos' = ClientsWith(main.child)
  /\ ePollIn' = ePollIn \cup {main.child}
  /\ updateIssued' = TRUE
  /\ main' = [main EXCEPT !.pc = "inc"]
  /\ UNCHANGED <<kernelVars, pollSize, priority, stampVars, queueVars,
                 poll, exec, health>>

\* balancer.incPriority
IncPriority ==
  /\ main.pc = "inc"
  /\ priority' = priority + 1
  /\ main' = [main EXCEPT !.pc = "stamp"]
  /\ UNCHANGED <<kernelVars, clientInfos, pollSetVars, stampVars, queueVars,
                 poll, exec, health>>

\* mostRecentTimestamps.updateSingle
UpdateSingle ==
  /\ main.pc = "stamp"
  /\ stamped' = stamped \cup {main.child}
  /\ main' = [pc |-> "accept", child |-> None]
  /\ UNCHANGED <<kernelVars, clientInfos, pollSetVars, priority, expired,
                 queueVars, poll, exec, health>>

(***************************************************************************)
(* The polling thread: PollRead, then CloseSocketConnections.               *)
(***************************************************************************)
\* What follows the closing: Execute and Write, unless another thread does.
AfterPoll == IF SeparateExec THEN "update" ELSE "work"

HungUp(f) == conn[fdOwner[f]].peer = "closed" \/ conn[fdOwner[f]].shut

HasInput(f) == conn[fdOwner[f]].inbox # <<>>

\* The loop head, which clears socketsToTerminate, and ClientInfos::Update; with no
\* client the thread sleeps.
PollUpdate ==
  /\ poll.pc = "update" /\ Registered # {}
  /\ updateIssued => WriteLockFree
  /\ pollSize' = IF updateIssued THEN Extended ELSE pollSize
  /\ updateIssued' = FALSE
  /\ poll' = [poll EXCEPT !.pc = "wait", !.terminate = {}]
  /\ UNCHANGED <<kernelVars, clientInfos, ePollIn, priority, stampVars,
                 queueVars, exec, health, main>>

\* ePollIn.Wait, outside the lock: as many ready descriptors as fit, or a
\* timeout when nothing is ready.
PollWait ==
  LET ready == {f \in ePollIn : HungUp(f) \/ HasInput(f)}
      fit == IF Cardinality(ready) <= pollSize THEN Cardinality(ready)
                                               ELSE pollSize
  IN /\ poll.pc = "wait"
     /\ \E got \in SUBSET ready :
          /\ Cardinality(got) = fit
          /\ poll' = [poll EXCEPT
                        !.pc = IF got = {} THEN AfterPoll ELSE "loop",
                        !.hup = {f \in got : HungUp(f)},
                        !.in = {f \in got : ~ HungUp(f)}]
     /\ UNCHANGED <<kernelVars, clientInfos, pollSetVars, priority, stampVars,
                    queueVars, exec, health, main>>

\* An event that ends a connection without reading from it.
MustTerminateEarly(f) ==
  f \in Registered \ poll.hup => clientInfos[f].deadline + 1 >= DeadlineMaxCount
MustTerminate(f) == f \in Registered \ poll.hup => MayBreach(f)

EventTerminatesThenReads(f) ==
  /\ poll.pc = "loop" /\ poll.reading = None
  /\ f \in poll.hup \cup poll.in
  /\ MustTerminate(f)
  /\ poll' = [poll EXCEPT !.hup = @ \ {f}, !.terminate = @ \cup {f}]
  /\ UNCHANGED <<kernelVars, clientInfos, pollSetVars, priority, stampVars,
                 queueVars, exec, health, main>>
EventTerminates(f) ==
  /\ poll.pc = "loop" /\ poll.reading = None
  /\ f \in poll.hup \cup poll.in
  /\ MustTerminate(f)
  /\ poll' = [poll EXCEPT !.hup = @ \ {f}, !.in = @ \ {f},
                          !.terminate = @ \cup {f}]
  /\ UNCHANGED <<kernelVars, clientInfos, pollSetVars, priority, stampVars,
                 queueVars, exec, health, main>>

\* Any other readable event: ReadForSingleSocket starts.
EventReads(f) ==
  /\ poll.pc = "loop" /\ poll.reading = None
  /\ f \in poll.in \cap Registered
  /\ poll' = [poll EXCEPT !.in = @ \ {f}, !.reading = f]
  /\ UNCHANGED <<kernelVars, clientInfos, pollSetVars, priority, stampVars,
                 queueVars, exec, health, main>>

Reading == conn[fdOwner[poll.reading]]

\* The client's record after one of its packets.
ClientAfter(client, message) ==
  [client EXCEPT !.deadline = Hit(@),
                 !.clientId = IF message.command = "ACID" THEN message.name
                                                          ELSE @,
                 !.terminateOnNextCycle =
                    @ /\ message.command \notin {"BLNK", "SEND"}]

\* The server's own answer to a set-up packet goes to the write queue at once.
SetupAnswers(f, message) ==
  CASE message.command = "ACKA" -> <<ServerPacket(f, "SYNC")>>
    [] message.command = "ACID" -> <<ServerPacket(f, "JOIN")>>
    [] OTHER -> <<>>

\* Only a Send is handed to Execute.
Requests(f, message) ==
  IF message.command = "SEND" THEN <<[socket |-> f, message |-> message]>>
                              ELSE <<>>

\* One turn of the reading loop. Its condition bytesToRead > 0 is open when
\* more was sent: the buffer may or may not have held it.
ReadPacket ==
  LET f == poll.reading
      message == Head(Reading.inbox)
  IN /\ poll.pc = "loop" /\ f # None
     /\ message.command # "PART"
     /\ conn' = [conn EXCEPT ![fdOwner[f]].inbox = Tail(@)]
     /\ clientInfos' = [clientInfos EXCEPT ![f] = ClientAfter(@, message)]
     /\ packetsToWrite' = Spliced(packetsToWrite, SetupAnswers(f, message))
     /\ \E next \in IF MultiShot /\ Len(Reading.inbox) > 1 THEN {f, None}
                                                           ELSE {None} :
          poll' = [poll EXCEPT !.reading = next, !.readAt = @ \cup {f},
                               !.readList = @ \o Requests(f, message)]
     /\ UNCHANGED <<fdOwner, pollSetVars, priority, stampVars, packetsToRead,
                    exec, health, main>>

\* The header came, the body never does: the socket is shut down and given up,
\* and what was read from it before stays in readList. Packets are whole here: a body
\* that the peer cuts off by closing is a success for the code, which goes on with what
\* the buffer has from earlier packets.
ReadFails ==
  LET f == poll.reading
  IN /\ poll.pc = "loop" /\ f # None
     /\ Head(Reading.inbox).command = "PART"
     /\ conn' = ShutDown({f})
     /\ clientInfos' = [clientInfos EXCEPT ![f].deadline = Hit(@)]
     /\ poll' = [poll EXCEPT !.reading = None, !.readAt = @ \ {f},
                             !.terminate = @ \cup {f}]
     /\ UNCHANGED <<fdOwner, pollSetVars, priority, stampVars, queueVars,
                    exec, health, main>>

\* The lock is released, readList spliced and the sockets read at stamped.
PollFinish ==
  /\ poll.pc = "loop" /\ poll.reading = None
  /\ poll.hup = {} /\ poll.in = {}
  /\ packetsToRead' = Spliced(packetsToRead, poll.readList)
  /\ stamped' = stamped \cup poll.readAt
  /\ poll' = [poll EXCEPT
                !.pc = IF poll.terminate = {} THEN AfterPoll ELSE "close",
                !.readList = <<>>, !.readAt = {}]
  /\ UNCHANGED <<kernelVars, clientInfos, pollSetVars, priority, expired,
                 packetsToWrite, exec, health, main>>

\* CloseSocketConnections: the sockets it knows lose their load, their entry
\* and their descriptor; closing takes them off the interest list.
PollClose ==
  LET known == poll.terminate \cap Registered
  IN /\ poll.pc = "close" /\ WriteLockFree
     /\ fdOwner' = OwnersAfterClose(known)
     /\ conn' = ConnsAfterClose(known)
     /\ clientInfos' = ClientsWithout(known)
     /\ ePollIn' = ePollIn \ known
     /\ priority' = DecPriority(Cardinality(known))
     /\ stamped' = StampsWithout(known)
     /\ poll' = [poll EXCEPT !.pc = AfterPoll]
     /\ UNCHANGED <<updateIssued, pollSize, expired, queueVars, exec, health,
                    main>>

(***************************************************************************)
(* Execute and Write, by the polling thread or by a thread of their own.    *)
(***************************************************************************)
MayExecute == SeparateExec \/ poll.pc = "work"

\* Once Write returns, a polling thread goes back to its loop head.
PollAfterWrite(pc) ==
  IF pc = "take" /\ ~ SeparateExec THEN [poll EXCEPT !.pc = "update"] ELSE poll

\* Execute: take everything that was read. A thread of its own waits for a
\* signal, but no longer than five seconds, so it may look at any time.
ExecTake ==
  /\ MayExecute /\ exec.pc = "take"
  /\ SeparateExec => Registered # {}
  /\ exec' = [exec EXCEPT !.pc = IF packetsToRead = <<>> THEN "gather" ELSE "run",
                          !.tempList = packetsToRead]
  /\ packetsToRead' = <<>>
  /\ UNCHANGED <<kernelVars, clientInfos, pollSetVars, priority, stampVars,
                 packetsToWrite, poll, health, main>>

\* The callback answers in place, with the sender's name as the server has it;
\* a packet whose socket is not known is left as it was read.
Called(packet) ==
  IF packet.socket \in Registered
    THEN [packet EXCEPT !.message.ran = TRUE,
                        !.message.name = clientInfos[packet.socket].clientId]
    ELSE packet

\* Execute, under the read lock: every packet, run or not, is then written.
ExecRun ==
  /\ exec.pc = "run"
  /\ packetsToWrite' =
       IF Registered = {} THEN packetsToWrite
       ELSE Spliced(packetsToWrite,
                    [i \in DOMAIN exec.tempList |-> Called(exec.tempList[i])])
  /\ exec' = [exec EXCEPT !.pc = "gather", !.tempList = <<>>]
  /\ UNCHANGED <<kernelVars, clientInfos, pollSetVars, priority, stampVars,
                 packetsToRead, poll, health, main>>

\* Write: take everything there is to write.
WriteGather ==
  LET pc == IF packetsToWrite = <<>> THEN "take" ELSE "send"
  IN /\ exec.pc = "gather"
     /\ exec' = [exec EXCEPT !.pc = pc, !.tempWriteList = packetsToWrite]
     /\ packetsToWrite' = <<>>
     /\ poll' = PollAfterWrite(pc)
     /\ UNCHANGED <<kernelVars, clientInfos, pollSetVars, priority, stampVars,
                    packetsToRead, health, main>>

Target == fdOwner[Head(exec.tempWriteList).socket]

\* A blocking send returns; one to a peer that just left may still succeed. An error
\* of no class leaves the same behind: this packet is lost and the batch goes on.
Delivered(c, message) ==
  IF conn[c].peer = "closed" THEN conn
  ELSE [conn EXCEPT ![c].outbox = Append(@, message), ![c].unread = @ + 1]

WriteSends ==
  LET packet == Head(exec.tempWriteList)
      rest == Tail(exec.tempWriteList)
      pc == IF rest = <<>> THEN "take" ELSE "send"
  IN /\ exec.pc = "send" /\ Target # None
     /\ ~ conn[Target].shut /\ conn[Target].unread < SendBuffer
     /\ conn' = Delivered(Target, packet.message)
     /\ exec' = [exec EXCEPT !.pc = pc, !.tempWriteList = rest]
     /\ poll' = PollAfterWrite(pc)
     /\ UNCHANGED <<fdOwner, clientInfos, pollSetVars, priority, stampVars,
                    queueVars, health, main>>

\* EBADF, EPIPE or ECONNRESET: the socket is shut down and Write returns; what is
\* left of the batch is lost.
WriteFails ==
  LET f == Head(exec.tempWriteList).socket
  IN /\ exec.pc = "send"
     /\ Target # None => conn[Target].shut \/ conn[Target].peer = "closed"
     /\ conn' = ShutDown({f})
     /\ exec' = [exec EXCEPT !.pc = "take", !.tempWriteList = <<>>]
     /\ poll' = PollAfterWrite("take")
     /\ UNCHANGED <<fdOwner, clientInfos, pollSetVars, priority, stampVars,
                    queueVars, health, main>>

(***************************************************************************)
(* The health check: ExecHealthCheck, then CloseSockets.                    *)
(***************************************************************************)
\* getSocketsLessThanTimestamp
HealthSelect ==
  /\ health.pc = "sleep" /\ expired # {}
  /\ health' = [health EXCEPT !.pc = "filter", !.pending = expired]
  /\ UNCHANGED <<kernelVars, clientInfos, pollSetVars, priority, stampVars,
                 queueVars, poll, exec, main>>

\* One turn of FilterSocketsToTerminate that keeps the socket: it is unknown,
\* or its client was already told and is shut down.
HealthCondemns(f) ==
  /\ health.pc = "filter" /\ f \in health.pending
  /\ f \in Registered => clientInfos[f].terminateOnNextCycle
  /\ conn' = IF f \in Registered THEN ShutDown({f}) ELSE conn
  /\ health' = [health EXCEPT !.pending = @ \ {f}, !.selected = @ \cup {f}]
  /\ UNCHANGED <<fdOwner, clientInfos, pollSetVars, priority, stampVars,
                 queueVars, poll, exec, main>>

\* Any other turn finds the flag unset ...
HealthSpares(f) ==
  /\ health.pc = "filter" /\ f \in health.pending \cap Registered
  /\ ~ clientInfos[f].terminateOnNextCycle
  /\ health' = [health EXCEPT !.pc = "mark", !.marking = f]
  /\ UNCHANGED <<kernelVars, clientInfos, pollSetVars, priority, stampVars,
                 queueVars, poll, exec, main>>

\* ... sets it in a second step, which nothing makes atomic with the first, and
\* prepares the heartbeat.
HealthMark ==
  LET f == health.marking
  IN /\ health.pc = "mark"
     /\ clientInfos' = [clientInfos EXCEPT ![f].terminateOnNextCycle = TRUE]
     /\ health' = [health EXCEPT !.pc = "filter", !.marking = None,
                                 !.pending = @ \ {f},
                                 !.warnings = Append(@, ServerPacket(f, "HART"))]
     /\ UNCHANGED <<kernelVars, pollSetVars, priority, stampVars, queueVars,
                    poll, exec, main>>

\* The heartbeats join the write queue.
HealthWarn ==
  /\ health.pc = "filter" /\ health.pending = {}
  /\ packetsToWrite' = Spliced(packetsToWrite, health.warnings)
  /\ health' = [health EXCEPT !.pc = "close", !.warnings = <<>>]
  /\ UNCHANGED <<kernelVars, clientInfos, pollSetVars, priority, stampVars,
                 packetsToRead, poll, exec, main>>

\* CloseSockets shuts down whatever is behind the selected descriptors by now.
HealthClose ==
  /\ health.pc = "close"
  /\ conn' = ShutDown(health.selected)
  /\ health' = [health EXCEPT !.pc = "sleep", !.selected = {}]
  /\ UNCHANGED <<fdOwner, clientInfos, pollSetVars, priority, stampVars,
                 queueVars, poll, exec, main>>

(***************************************************************************)
(* The specification.                                                       *)
(***************************************************************************)
PeerStep == \E c \in Conns : \/ \E command \in PeerCommands : PeerSend(c, command)
                             \/ PeerReceive(c)
                             \/ PeerClose(c)

AddStep == Insert \/ IncPriority \/ UpdateSingle

PollStep == \/ PollUpdate \/ PollWait
            \/ \E f \in Fds : EventTerminates(f) \/ EventReads(f)
            \/ ReadPacket \/ ReadFails \/ PollFinish \/ PollClose

ExecStep == ExecTake \/ ExecRun \/ WriteGather \/ WriteSends \/ WriteFails

HealthStep == \/ HealthSelect
              \/ \E f \in Fds : HealthCondemns(f) \/ HealthSpares(f)
              \/ HealthMark \/ HealthWarn \/ HealthClose

Next == \/ PeerStep
        \/ \E f \in Fds : TimePasses(f)
        \/ \E c \in Conns, f \in Fds : Accept(c, f)
        \/ AddStep \/ PollStep \/ ExecStep \/ HealthStep

Spec == Init /\ [][Next]_vars

(***************************************************************************)
(* Safety.                                                                  *)
(***************************************************************************)
\* Every variable holds a value of the type its declaration in the code gives it.
TypeOK ==
  /\ fdOwner \in [Fds -> Conns \cup {None}]
  /\ conn \in [Conns -> Connection]
  /\ Registered \subseteq Fds /\ clientInfos \in [Registered -> ClientInfo]
  /\ ePollIn \subseteq Fds
  /\ updateIssued \in BOOLEAN
  /\ pollSize \in Nat /\ priority \in Nat
  /\ stamped \subseteq Fds /\ expired \subseteq Fds
  /\ packetsToRead \in Seq(NetworkPacket) /\ packetsToWrite \in Seq(NetworkPacket)
  /\ poll \in [pc : {"update", "wait", "loop", "close", "work"},
               hup : SUBSET Fds, in : SUBSET Fds, reading : Fds \cup {None},
               readList : Seq(NetworkPacket), readAt : SUBSET Fds,
               terminate : SUBSET Fds]
  /\ exec \in [pc : {"take", "run", "gather", "send"},
               tempList : Seq(NetworkPacket), tempWriteList : Seq(NetworkPacket)]
  /\ health \in [pc : {"sleep", "filter", "mark", "close"},
                 pending : SUBSET Fds, selected : SUBSET Fds,
                 marking : Fds \cup {None}, warnings : Seq(NetworkPacket)]
  /\ main \in [pc : {"accept", "insert", "inc", "stamp"}, child : Fds \cup {None}]

\* No descriptor leaks and none is used after it is closed: whatever the threads
\* interleave, the open descriptors are those of the registered clients and the
\* one the acceptor has not inserted yet, the interest list is exactly the
\* clients, and no connection is behind two descriptors.
NoDescriptorLeaked ==
  /\ {f \in Fds : fdOwner[f] # None} =
       Registered \cup (IF main.pc = "insert" THEN {main.child} ELSE {})
  /\ main.pc = "insert" => main.child \notin Registered
  /\ ePollIn = Registered
  /\ \A f, g \in Fds : fdOwner[f] = fdOwner[g] /\ fdOwner[f] # None => f = g

\* The name a client gave is never kept for the next connection that gets its
\* descriptor (ReadForSingleSocket sets it, close and insert must forget it), as long
\* as packets are whole: the name in one that was cut off may be another client's.
NameMatchesConnection ==
  \A f \in Registered : clientInfos[f].clientId \in {None, fdOwner[f]}

\* What Execute and the set-up produce reaches the connection that asked for it,
\* although a packet names a descriptor only and the acceptor may reuse it.
AnswersOwnRequests ==
  \A c \in Conns : \A i \in DOMAIN conn[c].outbox :
    conn[c].outbox[i].command # "HART" => conn[c].outbox[i].from = c

\* The answers to one client arrive in the order it asked, through readList,
\* packetsToRead, tempList, packetsToWrite and tempWriteList.
RepliesInOrder ==
  \A c \in Conns : \A i, j \in DOMAIN conn[c].outbox :
    LET first == conn[c].outbox[i]
        second == conn[c].outbox[j]
    IN i < j /\ first.command = "SEND" /\ second.command = "SEND"
         /\ first.from = second.from => first.seq < second.seq

\* A request is written back only after the callback ran on it: Execute splices
\* the whole of tempList into packetsToWrite, since it "now will contain / All
\* output of callbacks" (ClientInfos.hpp:229-230).
CallbackRanOnEverything ==
  \A i \in DOMAIN packetsToWrite :
    packetsToWrite[i].message.command = "SEND" => packetsToWrite[i].message.ran

\* pollInEvents has room for an event of every client whenever no update is due.
CapacityCovers == ~ updateIssued => Cardinality(Registered) <= pollSize

\* The balancer never shows less load than there are clients, although Add counts
\* a client after inserting it and the client may be closed in between.
LoadCoversClients ==
  Cardinality(Registered) <= priority + (IF main.pc = "inc" THEN 1 ELSE 0)

\* The polling thread closes a descriptor only when its connection is over: the
\* peer closed it, the server shut it down, or it used up its deadline.
CloseJustified ==
  [][\A f \in Fds :
       fdOwner[f] # None /\ fdOwner'[f] = None =>
         \/ HungUp(f)
         \/ f \in Registered /\ clientInfos[f].deadline = DeadlineMaxCount]_vars

(***************************************************************************)
(* Liveness.                                                                *)
(***************************************************************************)
Owned(c) == \E f \in Fds : fdOwner[f] = c

\* A client that stops sending is always got rid of, with no help from it: the
\* health check finds it, warns it, shuts it down, and the polling thread closes
\* its descriptor.
EveryConnectionReaped == \A c \in Conns : Owned(c) ~> conn[c].peer = "gone"

\* A send that blocks because the peer does not read returns in the end.
BlockedSendReleased ==
  \A c \in Conns : (exec.pc = "send" /\ Target = c /\ conn[c].unread = SendBuffer)
                     ~> ~ (exec.pc = "send" /\ Target = c)

Asked(c, n) == \E i \in DOMAIN conn[c].inbox : /\ conn[c].inbox[i].seq = n
                                               /\ conn[c].inbox[i].command = "SEND"

Answered(c, n) == \E i \in DOMAIN conn[c].outbox : /\ conn[c].outbox[i].seq = n
                                                   /\ conn[c].outbox[i].from = c

\* A connection that failed, or whose peer does not read.
InTrouble(c) == \/ conn[c].peer \in {"closed", "gone"} \/ conn[c].shut
                \/ conn[c].unread = SendBuffer

\* As long as no connection fails, every request of every client is answered,
\* without the health check: one failure may cost the answers of others.
RequestsAnswered ==
  \A c \in Conns, n \in 1 .. MaxSend :
    Asked(c, n) ~> Answered(c, n) \/ \E d \in Conns : InTrouble(d)
=============================================================================
