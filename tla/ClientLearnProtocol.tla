------------------------ MODULE ClientLearnProtocol ------------------------
(***************************************************************************)
(* The client: ClientLearnProtocol as the sample client uses it, against    *)
(* what the server does on its connection. The client sets the connection   *)
(* up, writes requests until a write fails, and reads until the connection  *)
(* is over, answering heartbeats in between. Both sides count packets, and  *)
(* not the same ones, against a limit of MaxCount per MaxTime.              *)
(*                                                                          *)
(* The server's side is ServerLearnProtocol seen through one connection:    *)
(* its threads may do everything they do there, other clients may cost this *)
(* one its answers, and a batch of them is lost as a whole.                 *)
(***************************************************************************)
EXTENDS Integers, Sequences, Functions

CONSTANTS
  MaxCount,     \* DEADLINE_MAX_COUNT_DEFAULT, on both sides
  WireSize,     \* packets one direction of the connection holds
  MaxRequests   \* bound: requests the client writes

ASSUME SizesAssumption == /\ MaxCount \in Nat \ {0} /\ WireSize \in Nat \ {0}
                          /\ MaxRequests \in Nat

VARIABLES
  toServer,  \* packets on their way to the server
  toClient,  \* packets on their way to the client
  client,    \* func: program counter, deadline, what SetupConnection returned,
             \* requests written, answers read
  server,    \* the client's ClientInfo: deadline, whether clientId is set,
             \* terminateOnNextCycle; whether its entry in the timestamps is old
             \* and whether it is being read from
  queued,    \* packetsToRead, packetsToWrite and the lists between: what is for it
  over,      \* whether the server ended the connection
  lost,      \* ghost: requests whose answers went with a batch
  unheeded   \* ghost: why the last warning will not be answered, or "no"

vars == <<toServer, toClient, client, server, queued, over, lost, unheeded>>
serverVars == <<server, queued, over, lost>>

(***************************************************************************)
(* Types.                                                                   *)
(***************************************************************************)
Commands == {"ACKA", "ACKS", "ACID", "JOIN", "SEND", "HART", "BLNK"}

\* seq numbers a request and its answer, named is whether pollCallback found the
\* client's name.
Packet == [command : Commands, seq : 0 .. MaxRequests, named : BOOLEAN]

Plain(command) == [command |-> command, seq |-> 0, named |-> FALSE]

\* Entries of the queue of a Deadline that are at most MaxTime old: it is crossed
\* when the queue is full of them (RateWindow).
CountedBeyond(n) == n + 1
Counted(n) == IF n < MaxCount THEN n + 1 ELSE n
Crossed(n) == n = MaxCount

Init ==
  /\ toServer = <<>> /\ toClient = <<>>
  /\ client = [pc |-> "ack", hits |-> 0, joined |-> FALSE, sent |-> 0, got |-> {}]
  /\ server = [hits |-> 1, named |-> FALSE, flag |-> FALSE, silent |-> FALSE,
               reading |-> FALSE]
  /\ queued = <<>>
  /\ over = FALSE
  /\ lost = {}
  /\ unheeded = "no"

(***************************************************************************)
(* The client: TCPPoll::write and RawPacket::Read, one packet each.         *)
(***************************************************************************)
\* A packet is written unless the server does not read for the whole timeout.
\* Nobody gets it any more when the connection is over, which the writer may
\* be told or not.
Written(packet) == /\ over \/ Len(toServer) < WireSize
                   /\ toServer' = IF over THEN toServer ELSE Append(toServer, packet)

WriteFailed == /\ over \/ Len(toServer) = WireSize
               /\ UNCHANGED toServer

TimedOut == toClient = <<>>

(***************************************************************************)
(* SetupConnection. The sample goes on whatever it returns.                 *)
(***************************************************************************)
SetupWrites ==
  /\ client.pc = "ack"
  /\ client' = [client EXCEPT !.pc = "syn", !.hits = Counted(@)]
  /\ Written(Plain("ACKA"))
  /\ UNCHANGED <<toClient, serverVars, unheeded>>

\* clientIdSend is written by the packet itself, which counts nothing.
SetupNames ==
  /\ client.pc = "id"
  /\ client' = [client EXCEPT !.pc = "join"]
  /\ Written(Plain("ACID"))
  /\ UNCHANGED <<toClient, serverVars, unheeded>>

SetupWriteFails ==
  /\ client.pc \in {"ack", "id"} /\ WriteFailed
  /\ client' = [client EXCEPT !.pc = "write",
                              !.hits = IF client.pc = "ack" THEN Counted(@) ELSE @]
  /\ UNCHANGED <<toClient, serverVars, unheeded>>

\* Not the packet that is expected, a heartbeat for one: the set-up failed.
AnyPacket(pc, command) == pc \in {"syn", "join"}
Expected(pc, command) == \/ pc = "syn" /\ command = "ACKS"
                         \/ pc = "join" /\ command = "JOIN"

SetupReads ==
  LET command == Head(toClient).command
      expected == Expected(client.pc, command)
  IN /\ client.pc \in {"syn", "join"} /\ toClient # <<>>
     /\ toClient' = Tail(toClient)
     /\ client' = [client EXCEPT !.pc = IF client.pc = "syn" /\ expected
                                          THEN "id" ELSE "write",
                                 !.joined = client.pc = "join" /\ expected]
     /\ unheeded' = IF command = "HART" THEN "setup" ELSE unheeded
     /\ UNCHANGED <<toServer, serverVars>>

\* Empty after the timeout, or SocketClosed.
SetupReadFails ==
  /\ client.pc \in {"syn", "join"} /\ TimedOut
  /\ client' = [client EXCEPT !.pc = "write"]
  /\ UNCHANGED <<toServer, toClient, serverVars, unheeded>>

(***************************************************************************)
(* Write, in the loop of the sample that ends when it fails.                *)
(***************************************************************************)
ClientWrites ==
  LET seq == client.sent + 1
  IN /\ client.pc = "write" /\ ~ Crossed(client.hits) /\ client.sent < MaxRequests
     /\ Written([command |-> "SEND", seq |-> seq, named |-> FALSE])
     /\ client' = [client EXCEPT !.sent = seq, !.hits = Counted(@)]
     /\ UNCHANGED <<toClient, serverVars, unheeded>>

\* DeadlineFailure, where the loop ends. So it does at the bound of the model.
ClientLimited ==
  /\ client.pc = "write" /\ (Crossed(client.hits) \/ client.sent = MaxRequests)
  /\ client' = [client EXCEPT !.pc = "read"]
  /\ UNCHANGED <<toServer, toClient, serverVars, unheeded>>

\* PollFailure or SocketClosed.
ClientWriteFails ==
  /\ client.pc = "write" /\ ~ Crossed(client.hits) /\ WriteFailed
  /\ client' = [client EXCEPT !.pc = "read", !.hits = Counted(@)]
  /\ UNCHANGED <<toClient, serverVars, unheeded>>

(***************************************************************************)
(* Read, in the second loop. DeadlineCrossed changes nothing.               *)
(***************************************************************************)
\* An answer is handed to the caller; a packet the set-up missed is, too, but
\* the caller has no use for it.
ClientReads ==
  LET packet == Head(toClient)
      heartbeat == packet.command = "HART"
  IN /\ client.pc = "read" /\ ~ Crossed(client.hits) /\ toClient # <<>>
     /\ toClient' = Tail(toClient)
     /\ client' = [client EXCEPT !.pc = IF heartbeat THEN "reply" ELSE @,
                                 !.hits = Counted(@),
                                 !.got = IF packet.command = "SEND"
                                           THEN @ \cup {packet.seq} ELSE @]
     /\ UNCHANGED <<toServer, serverVars, unheeded>>

\* Empty, which counts like a packet.
ClientReadsNothing ==
  /\ client.pc = "read" /\ ~ Crossed(client.hits) /\ TimedOut /\ ~ over
  /\ client' = [client EXCEPT !.hits = Counted(@)]
  /\ UNCHANGED <<toServer, toClient, serverVars, unheeded>>

\* SocketClosed, where func returns.
ClosedIsEmpty ==
  /\ client.pc = "read" /\ ~ Crossed(client.hits) /\ TimedOut /\ over
  /\ client' = [client EXCEPT !.hits = Counted(@)]
  /\ UNCHANGED <<toServer, toClient, serverVars, unheeded>>

ClientEnds ==
  /\ client.pc = "read" /\ ~ Crossed(client.hits) /\ TimedOut /\ over
  /\ client' = [client EXCEPT !.pc = "done", !.hits = Counted(@)]
  /\ UNCHANGED <<toServer, toClient, serverVars, unheeded>>

\* Write(heartBeatReply), whose result is ignored, and Read again.
RepliesNothing ==
  /\ client.pc = "reply"
  /\ client' = [client EXCEPT !.pc = "read"]
  /\ UNCHANGED <<toServer, toClient, serverVars, unheeded>>

ClientReplies ==
  /\ client.pc = "reply" /\ ~ Crossed(client.hits)
  /\ Written(Plain("BLNK"))
  /\ client' = [client EXCEPT !.pc = "read", !.hits = Counted(@)]
  /\ UNCHANGED <<toClient, serverVars, unheeded>>

\* The heartbeat itself was counted and may have been one too many.
ClientReplyLimited ==
  /\ client.pc = "reply" /\ Crossed(client.hits)
  /\ client' = [client EXCEPT !.pc = "read"]
  /\ unheeded' = "limited"
  /\ UNCHANGED <<toServer, toClient, serverVars>>

ClientReplyFails ==
  /\ client.pc = "reply" /\ ~ Crossed(client.hits) /\ WriteFailed
  /\ client' = [client EXCEPT !.pc = "read", !.hits = Counted(@)]
  /\ unheeded' = "failed"
  /\ UNCHANGED <<toClient, serverVars>>

(***************************************************************************)
(* The server's side of the connection.                                     *)
(***************************************************************************)
\* ReadForSingleSocket, one packet of it: what it is answered with, if at all.
\* The callback runs later, but the name it finds does not change any more.
Answer(packet, named) ==
  CASE packet.command = "ACKA" -> <<Plain("ACKS")>>
    [] packet.command = "ACID" -> <<Plain("JOIN")>>
    [] packet.command = "SEND" -> <<[packet EXCEPT !.named = named]>>
    [] OTHER -> <<>>

ClearsFlag(packet) == packet.command \in {"BLNK", "SEND"}
GivesName(packet) == packet.command = "ACID"

\* splice at end() of the next list
QueuedOver(packets) == packets
Queued(packets) == queued \o packets

\* The limit is looked at once for an event, which may hold several packets.
ServerReads(more) ==
  LET packet == Head(toServer)
      named == server.named \/ GivesName(packet)
  IN /\ ~ over /\ toServer # <<>>
     /\ server.reading \/ ~ Crossed(server.hits)
     /\ more => Len(toServer) > 1
     /\ toServer' = Tail(toServer)
     /\ server' = [hits |-> Counted(server.hits), named |-> named,
                   flag |-> server.flag /\ ~ ClearsFlag(packet),
                   silent |-> more /\ server.silent, reading |-> more]
     /\ queued' = Queued(Answer(packet, named))
     /\ UNCHANGED <<toClient, client, over, lost, unheeded>>

\* Write sends, as far as the client's buffer has room.
ServerWrites ==
  /\ ~ over /\ queued # <<>> /\ Len(toClient) < WireSize
  /\ toClient' = Append(toClient, Head(queued))
  /\ queued' = Tail(queued)
  /\ UNCHANGED <<toServer, client, server, over, lost, unheeded>>

\* Write fails for another client and drops the rest of the batch, which is what
\* was queued first; what came to the lists later stays.
ServerLoses ==
  \E n \in 1 .. Len(queued) :
    LET batch == Range(SubSeq(queued, 1, n))
    IN /\ ~ over
       /\ queued' = SubSeq(queued, n + 1, Len(queued))
       /\ lost' = lost \cup {packet.seq : packet \in batch}
       /\ unheeded' = IF Plain("HART") \in batch THEN "lost" ELSE unheeded
       /\ UNCHANGED <<toServer, toClient, client, server, over>>

\* shutdown and close. What the client has not received may be gone with it.
ServerEnds ==
  /\ over' = TRUE
  /\ queued' = <<>>
  /\ toServer' = <<>>
  /\ toClient' \in {toClient, <<>>}
  /\ UNCHANGED <<client, server, lost, unheeded>>

\* deadlineBreach, when an event comes.
ServerBreaches ==
  /\ ~ over /\ toServer # <<>> /\ ~ server.reading /\ Crossed(server.hits)
  /\ ServerEnds

\* The health check, when nothing was read for long enough: first it warns ...
HealthWarns ==
  /\ ~ over /\ server.silent /\ ~ server.flag
  /\ server' = [server EXCEPT !.flag = TRUE]
  /\ queued' = Append(queued, Plain("HART"))
  /\ unheeded' = "no"
  /\ UNCHANGED <<toServer, toClient, client, over, lost>>

\* ... and in another cycle it ends the connection.
HealthEnds == ~ over /\ server.silent /\ server.flag /\ ServerEnds

(***************************************************************************)
(* Time.                                                                    *)
(***************************************************************************)
\* The oldest entry of a deadline leaves MaxTime.
ClientForgets ==
  /\ client.hits > 0
  /\ client' = [client EXCEPT !.hits = @ - 1]
  /\ UNCHANGED <<toServer, toClient, serverVars, unheeded>>

ServerForgets ==
  /\ ~ over /\ server.hits > 0
  /\ server' = [server EXCEPT !.hits = @ - 1]
  /\ UNCHANGED <<toServer, toClient, client, queued, over, lost, unheeded>>

SilenceLasts ==
  /\ ~ over /\ ~ server.silent
  /\ server' = [server EXCEPT !.silent = TRUE]
  /\ UNCHANGED <<toServer, toClient, client, queued, over, lost, unheeded>>

(***************************************************************************)
(* The specification.                                                       *)
(***************************************************************************)
SetupStep == \/ SetupWrites \/ SetupNames \/ SetupWriteFails \/ SetupReads
             \/ SetupReadFails

ClientStep == \/ SetupStep
              \/ ClientWrites \/ ClientLimited \/ ClientWriteFails
              \/ ClientReads \/ ClientReadsNothing \/ ClientEnds
              \/ ClientReplies \/ ClientReplyLimited \/ ClientReplyFails

ServerStep == \/ \E more \in BOOLEAN : ServerReads(more)
              \/ ServerWrites \/ ServerBreaches

HealthStep == HealthWarns \/ HealthEnds

\* func has returned and nothing is left to do.
Returned == client.pc = "done" /\ UNCHANGED vars

Next == \/ ClientStep \/ ServerStep \/ HealthStep \/ ServerLoses
        \/ ClientForgets \/ ServerForgets \/ SilenceLasts
        \/ Returned

Spec == Init /\ [][Next]_vars

\* The threads of both sides run, and time passes for the client.
FairSpec == Spec /\ WF_vars(ClientStep) /\ WF_vars(ServerStep) /\ WF_vars(ClientForgets)

(***************************************************************************)
(* Properties.                                                              *)
(***************************************************************************)
\* The members hold values of their types, and no direction more than fits.
TypeOK ==
  /\ toServer \in Seq(Packet) /\ Len(toServer) <= WireSize
  /\ toClient \in Seq(Packet) /\ Len(toClient) <= WireSize
  /\ client \in [pc : {"ack", "syn", "id", "join", "write", "read", "reply", "done"},
                 hits : 0 .. MaxCount, joined : BOOLEAN, sent : 0 .. MaxRequests,
                 got : SUBSET (1 .. MaxRequests)]
  /\ server \in [hits : 0 .. MaxCount, named : BOOLEAN, flag : BOOLEAN,
                 silent : BOOLEAN, reading : BOOLEAN]
  /\ queued \in Seq(Packet)
  /\ over \in BOOLEAN
  /\ lost \subseteq 0 .. MaxRequests
  /\ unheeded \in {"no", "setup", "limited", "failed", "lost"}

\* When SetupConnection succeeds, the server knows the client's name: each answer
\* the client gets from then on was made with it (pollCallback), however late the
\* packets of the set-up come.
JoinedIsNamed ==
  client.joined =>
    /\ server.named
    /\ \A packet \in Range(queued) \cup Range(toClient) :
         packet.command = "SEND" => packet.named

\* A client stays warned only while the heartbeat or the reply to it is under way,
\* or for a reason that can be named: the heartbeat was lost with a batch, it was
\* read by SetupConnection, or the client could not write the reply, for its own
\* limit or for a server that does not read. A client that reads is not ended by
\* the health check for want of a reply otherwise.
WarningUnderWay ==
  \/ Plain("HART") \in Range(queued) \cup Range(toClient)
  \/ client.pc = "reply"
  \/ \E packet \in Range(toServer) : ClearsFlag(packet)

WarningAccountedFor == server.flag /\ ~ over => WarningUnderWay \/ unheeded # "no"

\* Every request is answered and the answer handed to the caller in the end,
\* across both limits, unless a batch was lost or the connection ended.
RequestsSettled ==
  \A n \in 1 .. MaxRequests :
    client.sent >= n ~> n \in client.got \cup lost \/ over

\* When the server ends the connection, for whatever reason, func returns.
ClientReturns == over ~> client.pc = "done"
=============================================================================
