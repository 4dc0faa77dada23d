--------------------- MODULE ClientLearnProtocol_proofs ---------------------
(***************************************************************************)
(* For every limit, every capacity of the connection and any number of      *)
(* requests: a client that joined is served by its name, and a client stays *)
(* warned only as long as there is a reason.                                *)
(***************************************************************************)
EXTENDS ClientLearnProtocol, SequenceTheorems, TLAPS

(***************************************************************************)
(* The inductive invariant.                                                 *)
(***************************************************************************)
\* Packets the client has yet to receive.
Ahead == Range(queued) \cup Range(toClient)
UnderWay == Range(toServer) \cup Ahead

\* Nothing is asked before SetupConnection has returned.
SetupQuiet ==
  client.pc \in {"ack", "syn", "id", "join"} =>
    \A packet \in UnderWay : packet.command # "SEND"

\* The server answers a name, and remembers it.
JoinMeansNamed == \A packet \in Ahead : packet.command = "JOIN" => server.named

Numbered ==
  \A packet \in UnderWay : packet.command = "SEND" => packet.seq \in 1 .. MaxRequests

IInv == /\ TypeOK /\ Numbered /\ SetupQuiet /\ JoinMeansNamed /\ JoinedIsNamed
        /\ WarningAccountedFor

(***************************************************************************)
(* Sequences of packets.                                                    *)
(***************************************************************************)
\* Append adds its argument to what a sequence contains.
LEMMA RangeOfAppend ==
  ASSUME NEW S, NEW s \in Seq(S), NEW e \in S
  PROVE  /\ Append(s, e) \in Seq(S) /\ Len(Append(s, e)) = Len(s) + 1
         /\ Range(Append(s, e)) = Range(s) \cup {e}
<1>1. /\ Append(s, e) \in Seq(S) /\ Len(Append(s, e)) = Len(s) + 1
      /\ \A i \in 1 .. Len(s) : Append(s, e)[i] = s[i]
      /\ Append(s, e)[Len(s) + 1] = e
  BY AppendProperties
<1>2. /\ Range(s) = {s[i] : i \in 1 .. Len(s)}
      /\ Range(Append(s, e)) = {Append(s, e)[i] : i \in 1 .. Len(s) + 1}
  BY <1>1, RangeEquality
<1>3. Len(s) \in Nat
  BY LenProperties
<1>4. Range(Append(s, e)) \subseteq Range(s) \cup {e}
  BY <1>1, <1>2, <1>3
<1>5. Range(s) \cup {e} \subseteq Range(Append(s, e))
  BY <1>1, <1>2, <1>3
<1> QED BY <1>1, <1>4, <1>5

\* A sequence contains its head and what its tail contains.
LEMMA RangeOfTail ==
  ASSUME NEW S, NEW s \in Seq(S), s # <<>>
  PROVE  /\ Head(s) \in S /\ Tail(s) \in Seq(S) /\ Len(Tail(s)) <= Len(s)
         /\ Range(s) = {Head(s)} \cup Range(Tail(s))
<1>1. /\ Head(s) \in S /\ Tail(s) \in Seq(S) /\ Len(Tail(s)) = Len(s) - 1
      /\ \A i \in 1 .. Len(Tail(s)) : Tail(s)[i] = s[i + 1]
  BY HeadTailProperties
<1>2. Len(s) \in Nat \ {0} /\ Head(s) = s[1]
  BY EmptySeq
<1>3. /\ Range(s) = {s[i] : i \in 1 .. Len(s)}
      /\ Range(Tail(s)) = {Tail(s)[i] : i \in 1 .. Len(Tail(s))}
  BY <1>1, RangeEquality
<1>4. {Head(s)} \cup Range(Tail(s)) \subseteq Range(s)
  BY <1>1, <1>2, <1>3
<1>5. ASSUME NEW i \in 1 .. Len(s)
      PROVE  s[i] \in {Head(s)} \cup Range(Tail(s))
  <2>1. CASE i = 1
    BY <1>2, <2>1
  <2>2. CASE i # 1
    <3>1. i - 1 \in 1 .. Len(Tail(s)) /\ Tail(s)[i - 1] = s[i]
      BY <1>1, <1>2, <2>2
    <3> QED BY <1>3, <3>1
  <2> QED BY <2>1, <2>2
<1> QED BY <1>1, <1>2, <1>3, <1>4, <1>5

\* The empty sequence contains nothing.
LEMMA RangeOfEmpty == <<>> \in Seq(Packet) /\ Len(<<>>) = 0 /\ Range(<<>>) = {}
<1>1. <<>> \in Seq(Packet) /\ Len(<<>>) = 0
  BY EmptySeq
<1>2. Range(<<>>) = {<<>>[i] : i \in 1 .. Len(<<>>)}
  BY <1>1, RangeEquality, Zenon
<1>3. 1 .. Len(<<>>) = {}
  BY <1>1
<1> QED BY <1>1, <1>2, <1>3, Zenon

\* A sequence of one packet contains that packet.
LEMMA RangeOfOne ==
  ASSUME NEW a \in Packet PROVE <<a>> \in Seq(Packet) /\ Range(<<a>>) = {a}
<1>1. <<a>> \in Seq(Packet) /\ Len(<<a>>) = 1 /\ <<a>>[1] = a
  OBVIOUS
<1>2. Range(<<a>>) = {<<a>>[i] : i \in 1 .. Len(<<a>>)}
  BY <1>1, RangeEquality, Zenon
<1>3. 1 .. Len(<<a>>) = {1}
  BY <1>1
<1> QED BY <1>1, <1>2, <1>3, Zenon

(***************************************************************************)
(* The operators of the model.                                              *)
(***************************************************************************)
\* The queue of a Deadline never holds more than its limit.
LEMMA CountedInLimit ==
  ASSUME NEW n \in 0 .. MaxCount PROVE Counted(n) \in 0 .. MaxCount
  BY SizesAssumption DEF Counted

\* Packets with nothing but a command.
LEMMA PlainPackets ==
  ASSUME NEW command \in Commands
  PROVE  Plain(command) \in Packet /\ Plain(command).command = command
  BY SizesAssumption DEF Plain, Packet

\* What is written is under way, or lost if the connection is over.
LEMMA WrittenAdds ==
  ASSUME TypeOK, NEW packet \in Packet, Written(packet)
  PROVE  /\ toServer' \in Seq(Packet) /\ Len(toServer') <= WireSize
         /\ Range(toServer') \subseteq Range(toServer) \cup {packet}
         /\ Range(toServer) \subseteq Range(toServer')
         /\ ~ over => packet \in Range(toServer')
<1>1. toServer \in Seq(Packet) /\ Len(toServer) \in Nat /\ WireSize \in Nat
  BY LenProperties, SizesAssumption DEF TypeOK
<1>2. CASE over
  BY <1>2 DEF TypeOK, Written
<1>3. CASE ~ over
  <2>1. Len(toServer) < WireSize /\ toServer' = Append(toServer, packet)
    BY <1>3 DEF Written
  <2> QED BY <1>1, <1>3, <2>1, RangeOfAppend
<1> QED BY <1>2, <1>3

\* ReadForSingleSocket answers requests with requests of the same number, and
\* only a name with JOIN.
LEMMA AnswersMatch ==
  ASSUME NEW packet \in Packet, NEW named \in BOOLEAN
  PROVE  /\ Answer(packet, named) \in Seq(Packet)
         /\ \A a \in Range(Answer(packet, named)) :
              /\ a.command = "SEND" => /\ packet.command = "SEND"
                                       /\ a.seq = packet.seq /\ a.named = named
              /\ a.command = "JOIN" => GivesName(packet)
<1>1. CASE packet.command = "ACKA"
  <2>1. Answer(packet, named) = <<Plain("ACKS")>>
    BY <1>1 DEF Answer
  <2> QED BY RangeOfOne, <2>1, PlainPackets DEF Commands
<1>2. CASE packet.command = "ACID"
  <2>1. Answer(packet, named) = <<Plain("JOIN")>>
    BY <1>2 DEF Answer
  <2> QED BY RangeOfOne, <1>2, <2>1, PlainPackets DEF Commands, GivesName
<1>3. CASE packet.command = "SEND"
  <2> DEFINE a == [packet EXCEPT !.named = named]
  <2>1. Answer(packet, named) = <<a>>
    BY <1>3 DEF Answer
  <2>2. a \in Packet /\ a.command = "SEND" /\ a.seq = packet.seq /\ a.named = named
    BY <1>3 DEF Packet
  <2> QED BY RangeOfOne, <1>3, <2>1, <2>2
<1>4. CASE packet.command \notin {"ACKA", "ACID", "SEND"}
  <2>1. Answer(packet, named) = <<>>
    BY <1>4 DEF Answer
  <2> QED BY <2>1, RangeOfEmpty
<1> QED BY <1>1, <1>2, <1>3, <1>4

(***************************************************************************)
(* Steps of the client. They leave the server and what it sends alone; the  *)
(* lemma says once what the others have to show.                            *)
(***************************************************************************)
Quiet == {"ack", "syn", "id", "join"}

ClientType ==
  [pc : Quiet \cup {"write", "read", "reply", "done"}, hits : 0 .. MaxCount,
   joined : BOOLEAN, sent : 0 .. MaxRequests, got : SUBSET (1 .. MaxRequests)]

Reasons == {"no", "setup", "limited", "failed", "lost"}

\* A step of func that receives nothing: it may write a packet, a request only after
\* the set-up, and does not give up a reply without a reason.
Sending ==
  /\ UNCHANGED <<toClient, server, queued, over, lost>>
  /\ client' \in ClientType /\ client'.joined = client.joined
  /\ client'.pc \in Quiet => client.pc \in Quiet
  /\ toServer' \in Seq(Packet) /\ Len(toServer') <= WireSize
  /\ Range(toServer) \subseteq Range(toServer')
  /\ \A packet \in Range(toServer') \ Range(toServer) :
       packet.command = "SEND" => /\ client'.pc \notin Quiet
                                  /\ packet.seq \in 1 .. MaxRequests
  /\ unheeded' = unheeded \/ unheeded' \in Reasons \ {"no"}
  /\ \/ client.pc # "reply" \/ client'.pc = "reply" \/ over \/ unheeded' # "no"
     \/ \E packet \in Range(toServer') : ClearsFlag(packet)

LEMMA SendingKeeps == ASSUME IInv, Sending PROVE IInv'
<1>1. TypeOK'
  BY DEF IInv, Sending, TypeOK, ClientType, Quiet, Reasons
<1>2. Ahead' = Ahead
  BY DEF Sending, Ahead
<1>3. Numbered'
  BY <1>2 DEF IInv, Sending, Numbered, UnderWay
<1>4. SetupQuiet'
  BY <1>2 DEF IInv, Sending, SetupQuiet, UnderWay, Quiet
<1>5. JoinMeansNamed' /\ JoinedIsNamed'
  BY <1>2 DEF IInv, Sending, JoinMeansNamed, JoinedIsNamed, Ahead
<1>6. WarningAccountedFor'
  <2> SUFFICES ASSUME server.flag, ~ over, unheeded' = "no"
               PROVE  WarningUnderWay'
    BY DEF Sending, WarningAccountedFor
  <2>1. WarningUnderWay
    BY DEF IInv, Sending, WarningAccountedFor, Reasons
  <2> QED BY <2>1 DEF Sending, WarningUnderWay
<1> QED BY <1>1, <1>3, <1>4, <1>5, <1>6 DEF IInv

\* The client's record, with the types of its fields.
LEMMA ClientHasType ==
  ASSUME TypeOK
  PROVE  /\ client \in ClientType /\ Counted(client.hits) \in 0 .. MaxCount
         /\ toServer \in Seq(Packet) /\ Len(toServer) <= WireSize
         /\ toClient \in Seq(Packet) /\ Len(toClient) <= WireSize
<1>1. client \in ClientType
  BY DEF TypeOK, ClientType, Quiet
<1>2. client.hits \in 0 .. MaxCount
  BY <1>1 DEF ClientType
<1> QED BY <1>1, <1>2, CountedInLimit DEF TypeOK

\* The writing half of SetupConnection.
LEMMA SetupWritesKeep ==
  ASSUME IInv, SetupWrites \/ SetupNames PROVE IInv'
<1>1. TypeOK
  BY DEF IInv
<1>2. PICK command \in {"ACKA", "ACID"} : Written(Plain(command))
  BY DEF SetupWrites, SetupNames
<1>3. Plain(command) \in Packet /\ Plain(command).command # "SEND"
  BY PlainPackets DEF Commands
<1>4. client' \in ClientType /\ client'.joined = client.joined /\ client.pc \in Quiet
  BY <1>1, ClientHasType DEF SetupWrites, SetupNames, ClientType, Quiet
<1>5. /\ UNCHANGED <<toClient, server, queued, over, lost, unheeded>>
      /\ client.pc # "reply"
  BY DEF SetupWrites, SetupNames, serverVars
<1>6. /\ toServer' \in Seq(Packet) /\ Len(toServer') <= WireSize
      /\ Range(toServer') \subseteq Range(toServer) \cup {Plain(command)}
      /\ Range(toServer) \subseteq Range(toServer')
  BY <1>1, <1>2, <1>3, WrittenAdds
<1>7. Sending
  BY <1>3, <1>4, <1>5, <1>6 DEF Sending
<1> QED BY <1>7, SendingKeeps

\* Steps of the client that write nothing and receive nothing.
Idling == \/ SetupWriteFails \/ SetupReadFails \/ ClientLimited \/ ClientWriteFails
          \/ ClientReadsNothing \/ ClientEnds \/ ClientReplyLimited
          \/ ClientReplyFails \/ ClientForgets

LEMMA IdlingKeeps == ASSUME IInv, Idling PROVE IInv'
<1>1. /\ client \in ClientType /\ Counted(client.hits) \in 0 .. MaxCount
      /\ toServer \in Seq(Packet) /\ Len(toServer) <= WireSize
  BY ClientHasType DEF IInv
<1>2. UNCHANGED <<toServer, toClient, server, queued, over, lost>>
  BY DEF Idling, SetupWriteFails, SetupReadFails, ClientLimited, ClientWriteFails,
         ClientReadsNothing, ClientEnds, ClientReplyLimited, ClientReplyFails,
         ClientForgets, WriteFailed, serverVars
<1>3. client' \in ClientType /\ client'.joined = client.joined
  <2>1. CASE SetupWriteFails \/ SetupReadFails
    BY <1>1, <2>1 DEF SetupWriteFails, SetupReadFails, ClientType
  <2>2. CASE ClientLimited \/ ClientWriteFails
    BY <1>1, <2>2 DEF ClientLimited, ClientWriteFails, ClientType
  <2>3. CASE ClientReadsNothing \/ ClientEnds
    BY <1>1, <2>3 DEF ClientReadsNothing, ClientEnds, ClientType
  <2>4. CASE ClientReplyLimited \/ ClientReplyFails
    BY <1>1, <2>4 DEF ClientReplyLimited, ClientReplyFails, ClientType
  <2>5. CASE ClientForgets
    <3>1. client.hits - 1 \in 0 .. MaxCount
      BY <1>1, <2>5, SizesAssumption DEF ClientForgets, ClientType
    <3> QED BY <1>1, <2>5, <3>1 DEF ClientForgets, ClientType
  <2> QED BY <2>1, <2>2, <2>3, <2>4, <2>5 DEF Idling
<1>4. client'.pc = client.pc \/ client'.pc \notin Quiet
  BY <1>1 DEF Idling, SetupWriteFails, SetupReadFails, ClientLimited,
              ClientWriteFails, ClientReadsNothing, ClientEnds, ClientReplyLimited,
              ClientReplyFails, ClientForgets, ClientType, Quiet
<1>5. \/ unheeded' = unheeded /\ (client.pc # "reply" \/ client'.pc = "reply")
      \/ unheeded' \in {"limited", "failed"}
  BY <1>1 DEF Idling, SetupWriteFails, SetupReadFails, ClientLimited,
              ClientWriteFails, ClientReadsNothing, ClientEnds, ClientReplyLimited,
              ClientReplyFails, ClientForgets, ClientType
<1>6. Sending
  BY <1>1, <1>2, <1>3, <1>4, <1>5 DEF Sending, Reasons
<1> QED BY <1>6, SendingKeeps

\* The loop that writes requests, after the set-up and each with its number.
LEMMA ClientWritesKeeps == ASSUME IInv, ClientWrites PROVE IInv'
<1> DEFINE packet == [command |-> "SEND", seq |-> client.sent + 1, named |-> FALSE]
<1>1. TypeOK /\ Written(packet)
  BY DEF IInv, ClientWrites
<1>2. client \in ClientType /\ Counted(client.hits) \in 0 .. MaxCount
  BY <1>1, ClientHasType
<1>3. client.sent + 1 \in 1 .. MaxRequests
  BY <1>2, SizesAssumption DEF ClientWrites, ClientType
<1>4. packet \in Packet /\ packet.seq \in 1 .. MaxRequests
  BY <1>3, SizesAssumption DEF Packet, Commands
<1>5. client' = [client EXCEPT !.sent = client.sent + 1, !.hits = Counted(@)]
  BY DEF ClientWrites
<1>6. /\ client' \in ClientType /\ client'.joined = client.joined
      /\ client'.pc = client.pc
  <2>1. PICK seq \in 0 .. MaxRequests : seq = client.sent + 1
    BY <1>3, SizesAssumption
  <2>2. client' = [client EXCEPT !.sent = seq, !.hits = Counted(client.hits)]
    BY <1>5, <2>1
  <2> QED BY <1>2, <2>2 DEF ClientType
<1>7. /\ UNCHANGED <<toClient, server, queued, over, lost, unheeded>>
      /\ client.pc = "write"
  BY DEF ClientWrites, serverVars
<1> HIDE DEF packet
<1>8. /\ toServer' \in Seq(Packet) /\ Len(toServer') <= WireSize
      /\ Range(toServer') \subseteq Range(toServer) \cup {packet}
      /\ Range(toServer) \subseteq Range(toServer')
  BY <1>1, <1>4, WrittenAdds
<1>9. Sending
  BY <1>4, <1>6, <1>7, <1>8 DEF Sending, Quiet
<1> QED BY <1>9, SendingKeeps

\* The reply to a heartbeat is under way, unless the connection is over.
LEMMA ClientRepliesKeeps == ASSUME IInv, ClientReplies PROVE IInv'
<1>1. TypeOK /\ Written(Plain("BLNK"))
  BY DEF IInv, ClientReplies
<1>2. /\ Plain("BLNK") \in Packet /\ Plain("BLNK").command = "BLNK"
      /\ ClearsFlag(Plain("BLNK"))
  BY PlainPackets DEF Commands, ClearsFlag
<1>3. /\ client' \in ClientType /\ client'.joined = client.joined
      /\ client'.pc = "read"
  BY <1>1, ClientHasType DEF ClientReplies, ClientType
<1>4. UNCHANGED <<toClient, server, queued, over, lost, unheeded>>
  BY DEF ClientReplies, serverVars
<1>5. /\ toServer' \in Seq(Packet) /\ Len(toServer') <= WireSize
      /\ Range(toServer') \subseteq Range(toServer) \cup {Plain("BLNK")}
      /\ Range(toServer) \subseteq Range(toServer')
      /\ ~ over => Plain("BLNK") \in Range(toServer')
  BY <1>1, <1>2, WrittenAdds
<1>6. Sending
  BY <1>2, <1>3, <1>4, <1>5 DEF Sending, Quiet
<1> QED BY <1>6, SendingKeeps

(***************************************************************************)
(* Steps of the client that receive a packet.                               *)
(***************************************************************************)
\* What is received is not ahead any more; the rest is as it was.
LEMMA Received ==
  ASSUME TypeOK, toClient # <<>>, toClient' = Tail(toClient), queued' = queued
  PROVE  /\ Head(toClient) \in Packet /\ Head(toClient) \in Ahead
         /\ toClient' \in Seq(Packet) /\ Len(toClient') <= WireSize
         /\ Ahead' \subseteq Ahead
         /\ Ahead \subseteq Ahead' \cup {Head(toClient)}
<1>1. toClient \in Seq(Packet) /\ Len(toClient) \in Nat /\ Len(toClient) <= WireSize
  BY LenProperties DEF TypeOK
<1>2. /\ Head(toClient) \in Packet /\ toClient' \in Seq(Packet)
      /\ Len(toClient') <= Len(toClient)
      /\ Range(toClient) = {Head(toClient)} \cup Range(toClient')
  BY <1>1, RangeOfTail
<1>3. Len(toClient') \in Nat /\ WireSize \in Nat
  BY <1>2, LenProperties, SizesAssumption
<1> QED BY <1>1, <1>2, <1>3 DEF Ahead

\* The reading half of SetupConnection: JOIN says that the name arrived, and
\* nothing that was asked can be answered yet.
LEMMA SetupReadsKeep == ASSUME IInv, SetupReads PROVE IInv'
<1> DEFINE command == Head(toClient).command
<1>1. /\ TypeOK /\ toClient # <<>> /\ toClient' = Tail(toClient)
      /\ UNCHANGED <<toServer, server, queued, over, lost>>
      /\ client.pc \in {"syn", "join"}
      /\ unheeded' = IF command = "HART" THEN "setup" ELSE unheeded
  BY DEF IInv, SetupReads, serverVars
<1>2. /\ Head(toClient) \in Packet /\ Head(toClient) \in Ahead
      /\ toClient' \in Seq(Packet) /\ Len(toClient') <= WireSize
      /\ Ahead' \subseteq Ahead
      /\ Ahead \subseteq Ahead' \cup {Head(toClient)}
  BY <1>1, Received
<1>3. client \in ClientType
  BY <1>1, ClientHasType
<1>4. /\ client' \in ClientType /\ client'.pc \in {"id", "write"}
      /\ client'.joined => command = "JOIN"
  BY <1>3 DEF SetupReads, Expected, ClientType, Quiet
<1>5. TypeOK'
  BY <1>1, <1>2, <1>4 DEF TypeOK, ClientType, Quiet
<1>6. Numbered' /\ SetupQuiet'
  BY <1>1, <1>2 DEF IInv, Numbered, SetupQuiet, UnderWay
<1>7. JoinMeansNamed'
  BY <1>1, <1>2 DEF IInv, JoinMeansNamed
<1>8. JoinedIsNamed'
  <2>1. \A packet \in Ahead : packet.command # "SEND"
    BY <1>1 DEF IInv, SetupQuiet, UnderWay
  <2>2. client'.joined => server'.named
    BY <1>1, <1>2, <1>4 DEF IInv, JoinMeansNamed
  <2> QED BY <1>2, <2>1, <2>2 DEF JoinedIsNamed, Ahead
<1>9. WarningAccountedFor'
  <2> SUFFICES ASSUME server.flag, ~ over, unheeded' = "no" PROVE WarningUnderWay'
    BY <1>1 DEF WarningAccountedFor
  <2>1. command # "HART" /\ WarningUnderWay
    BY <1>1 DEF IInv, WarningAccountedFor
  <2>2. Plain("HART") # Head(toClient)
    BY <2>1, PlainPackets DEF Commands
  <2> QED BY <1>1, <1>2, <2>1, <2>2 DEF WarningUnderWay, Ahead
<1> QED BY <1>5, <1>6, <1>7, <1>8, <1>9 DEF IInv

\* The loop that reads: a heartbeat leaves the client about to reply.
LEMMA ClientReadsKeeps == ASSUME IInv, ClientReads PROVE IInv'
<1> DEFINE packet == Head(toClient)
<1>1. /\ TypeOK /\ toClient # <<>> /\ toClient' = Tail(toClient)
      /\ UNCHANGED <<toServer, server, queued, over, lost, unheeded>>
      /\ client.pc = "read"
  BY DEF IInv, ClientReads, serverVars
<1>2. /\ packet \in Packet /\ packet \in Ahead
      /\ toClient' \in Seq(Packet) /\ Len(toClient') <= WireSize
      /\ Ahead' \subseteq Ahead
      /\ Ahead \subseteq Ahead' \cup {packet}
  BY <1>1, Received
<1>3. client \in ClientType /\ Counted(client.hits) \in 0 .. MaxCount
  BY <1>1, ClientHasType
<1>4. packet.command = "SEND" => packet.seq \in 1 .. MaxRequests
  BY <1>2 DEF IInv, Numbered, UnderWay
<1>5. /\ client' \in ClientType /\ client'.joined = client.joined
      /\ client'.pc = IF packet.command = "HART" THEN "reply" ELSE "read"
  BY <1>3, <1>4 DEF ClientReads, ClientType
<1> HIDE DEF packet
<1>6. TypeOK'
  BY <1>1, <1>2, <1>5 DEF TypeOK, ClientType, Quiet
<1>7. Numbered' /\ SetupQuiet'
  BY <1>1, <1>2, <1>5 DEF IInv, Numbered, SetupQuiet, UnderWay
<1>8. JoinMeansNamed' /\ JoinedIsNamed'
  BY <1>1, <1>2, <1>5 DEF IInv, JoinMeansNamed, JoinedIsNamed, Ahead
<1>9. WarningAccountedFor'
  <2> SUFFICES ASSUME server.flag, ~ over, unheeded = "no" PROVE WarningUnderWay'
    BY <1>1 DEF WarningAccountedFor
  <2>1. WarningUnderWay
    BY DEF IInv, WarningAccountedFor
  <2>2. packet = Plain("HART") => client'.pc = "reply"
    BY <1>5, PlainPackets DEF Commands
  <2> QED BY <1>1, <1>2, <2>1, <2>2 DEF WarningUnderWay, Ahead
<1> QED BY <1>6, <1>7, <1>8, <1>9 DEF IInv

(***************************************************************************)
(* Steps of the server and of time. They leave the client alone.            *)
(***************************************************************************)
ServerType == [hits : 0 .. MaxCount, named : BOOLEAN, flag : BOOLEAN,
               silent : BOOLEAN, reading : BOOLEAN]

\* What the server takes from toServer and puts on its way is no answer to a name
\* or a request, unless ServerReads made it.
LEMMA TrafficKeeps ==
  ASSUME IInv, client' = client, server'.named = server.named,
         Range(toServer') \subseteq Range(toServer),
         \A packet \in Ahead' \ Ahead : packet.command \notin {"SEND", "JOIN"}
  PROVE  Numbered' /\ SetupQuiet' /\ JoinMeansNamed' /\ JoinedIsNamed'
<1>1. Numbered' /\ SetupQuiet'
  BY DEF IInv, Numbered, SetupQuiet, UnderWay
<1>2. JoinMeansNamed' /\ JoinedIsNamed'
  BY DEF IInv, JoinMeansNamed, JoinedIsNamed, Ahead
<1> QED BY <1>1, <1>2

\* OnReadPoll: an answer to a request is made with the name if there is one, and
\* the flag is reset by a packet that resets it.
LEMMA ServerReadsKeeps ==
  ASSUME IInv, NEW more \in BOOLEAN, ServerReads(more) PROVE IInv'
<1> DEFINE packet == Head(toServer)
           named == server.named \/ GivesName(packet)
           answer == Answer(packet, named)
<1>1. /\ TypeOK /\ ~ over /\ toServer # <<>> /\ toServer' = Tail(toServer)
      /\ server' = [hits |-> Counted(server.hits), named |-> named,
                    flag |-> server.flag /\ ~ ClearsFlag(packet),
                    silent |-> more /\ server.silent, reading |-> more]
      /\ queued' = queued \o answer
      /\ UNCHANGED <<toClient, client, over, lost, unheeded>>
  BY DEF IInv, ServerReads, Queued
<1>2. /\ packet \in Packet /\ toServer' \in Seq(Packet)
      /\ Len(toServer') <= WireSize
      /\ Range(toServer) = {packet} \cup Range(toServer')
  <2>1. toServer \in Seq(Packet) /\ Len(toServer) <= WireSize
    BY <1>1 DEF TypeOK
  <2>2. /\ packet \in Packet /\ toServer' \in Seq(Packet)
        /\ Len(toServer') <= Len(toServer)
        /\ Range(toServer) = {packet} \cup Range(toServer')
    BY <1>1, <2>1, RangeOfTail
  <2>3. Len(toServer) \in Nat /\ Len(toServer') \in Nat /\ WireSize \in Nat
    BY <2>1, <2>2, LenProperties, SizesAssumption
  <2> QED BY <2>1, <2>2, <2>3
<1>3. server.named \in BOOLEAN /\ named \in BOOLEAN /\ GivesName(packet) \in BOOLEAN
  BY <1>1 DEF TypeOK, GivesName
<1> HIDE DEF packet
<1>4. /\ answer \in Seq(Packet)
      /\ \A a \in Range(answer) :
           /\ a.command = "SEND" => /\ packet.command = "SEND"
                                    /\ a.seq = packet.seq /\ a.named = named
           /\ a.command = "JOIN" => GivesName(packet)
  BY <1>2, <1>3, AnswersMatch
<1>5. queued' \in Seq(Packet) /\ Ahead' = Ahead \cup Range(answer)
  <2> HIDE DEF answer
  <2>1. queued \in Seq(Packet)
    BY <1>1 DEF TypeOK
  <2>2. queued' \in Seq(Packet)
    BY <1>1, <1>4, <2>1, ConcatProperties
  <2>3. Range(queued') = Range(queued) \cup Range(answer)
    BY <1>1, <1>4, <2>1, RangeConcatenation
  <2> QED BY <1>1, <2>2, <2>3 DEF Ahead
<1>6. server'.named = named /\ server'.flag = (server.flag /\ ~ ClearsFlag(packet))
  BY <1>1
<1> HIDE DEF answer
<1>7. TypeOK'
  <2>1. server' \in ServerType
    <3>1. /\ server.flag \in BOOLEAN /\ server.silent \in BOOLEAN
          /\ server.hits \in 0 .. MaxCount
      BY <1>1 DEF TypeOK
    <3>2. Counted(server.hits) \in 0 .. MaxCount
      BY <3>1, CountedInLimit
    <3>3. /\ (server.flag /\ ~ ClearsFlag(packet)) \in BOOLEAN
          /\ (more /\ server.silent) \in BOOLEAN
      BY <3>1
    <3> HIDE DEF named
    <3> QED BY <1>1, <1>3, <3>2, <3>3, Zenon DEF ServerType
  <2> QED BY <1>1, <1>2, <1>5, <2>1 DEF TypeOK, ServerType
<1>8. Numbered'
  BY <1>1, <1>2, <1>4, <1>5 DEF IInv, Numbered, UnderWay
<1>9. SetupQuiet'
  BY <1>1, <1>2, <1>4, <1>5 DEF IInv, SetupQuiet, UnderWay
<1>10. JoinMeansNamed'
  BY <1>4, <1>5, <1>6 DEF IInv, JoinMeansNamed
<1>11. JoinedIsNamed'
  <2>1. client'.joined => server.named /\ named = TRUE
    BY <1>1, <1>3 DEF IInv, JoinedIsNamed
  <2> QED BY <1>1, <1>4, <1>5, <1>6, <2>1 DEF IInv, JoinedIsNamed, Ahead
<1>12. WarningAccountedFor'
  <2> SUFFICES ASSUME server.flag, ~ ClearsFlag(packet), unheeded = "no"
               PROVE  WarningUnderWay'
    BY <1>1, <1>6 DEF WarningAccountedFor
  <2>1. WarningUnderWay
    BY <1>1 DEF IInv, WarningAccountedFor
  <2> QED BY <1>1, <1>2, <1>5, <2>1 DEF WarningUnderWay, Ahead
<1> QED BY <1>7, <1>8, <1>9, <1>10, <1>11, <1>12 DEF IInv

\* Write: the packet changes its place only.
LEMMA ServerWritesKeeps == ASSUME IInv, ServerWrites PROVE IInv'
<1>1. /\ TypeOK /\ queued # <<>> /\ Len(toClient) < WireSize
      /\ toClient' = Append(toClient, Head(queued)) /\ queued' = Tail(queued)
      /\ UNCHANGED <<toServer, client, server, over, lost, unheeded>>
  BY DEF IInv, ServerWrites
<1>2. queued \in Seq(Packet) /\ toClient \in Seq(Packet)
  BY <1>1 DEF TypeOK
<1>3. /\ Head(queued) \in Packet /\ queued' \in Seq(Packet)
      /\ Range(queued) = {Head(queued)} \cup Range(queued')
  BY <1>1, <1>2, RangeOfTail
<1>4. /\ toClient' \in Seq(Packet) /\ Len(toClient') = Len(toClient) + 1
      /\ Range(toClient') = Range(toClient) \cup {Head(queued)}
  BY <1>1, <1>2, <1>3, RangeOfAppend
<1>5. Len(toClient') <= WireSize
  <2>1. Len(toClient) \in Nat /\ WireSize \in Nat
    BY <1>2, LenProperties, SizesAssumption
  <2> QED BY <1>1, <1>4, <2>1
<1>6. Ahead' = Ahead
  BY <1>3, <1>4 DEF Ahead
<1>7. TypeOK'
  BY <1>1, <1>3, <1>4, <1>5 DEF TypeOK
<1>8. Numbered' /\ SetupQuiet' /\ JoinMeansNamed' /\ JoinedIsNamed'
  BY <1>1, <1>6, TrafficKeeps
<1>9. WarningAccountedFor'
  BY <1>1, <1>6 DEF IInv, WarningAccountedFor, WarningUnderWay, Ahead
<1> QED BY <1>7, <1>8, <1>9 DEF IInv

\* What is in a sequence is in one of the two parts it is cut into.
LEMMA RangeOfParts ==
  ASSUME NEW S, NEW seq \in Seq(S), NEW n \in 1 .. Len(seq)
  PROVE  /\ SubSeq(seq, 1, n) \in Seq(S) /\ SubSeq(seq, n + 1, Len(seq)) \in Seq(S)
         /\ Range(seq)
              = Range(SubSeq(seq, 1, n)) \cup Range(SubSeq(seq, n + 1, Len(seq)))
<1> DEFINE front == SubSeq(seq, 1, n)
           back == SubSeq(seq, n + 1, Len(seq))
<1>1. Len(seq) \in Nat /\ n \in Nat /\ \A i \in 1 .. Len(seq) : seq[i] \in S
  OBVIOUS
<1>2. /\ front \in Seq(S) /\ Len(front) = n /\ \A i \in 1 .. n : front[i] = seq[i]
      /\ back \in Seq(S) /\ Len(back) = Len(seq) - n
      /\ \A i \in 1 .. Len(seq) - n : back[i] = seq[n + i]
  BY <1>1
<1> HIDE DEF front, back
<1>3. /\ DOMAIN front = 1 .. n /\ DOMAIN back = 1 .. Len(seq) - n
      /\ DOMAIN seq = 1 .. Len(seq)
  BY <1>2
<1>4. ASSUME NEW x \in Range(seq) PROVE x \in Range(front) \cup Range(back)
  <2>1. PICK i \in 1 .. Len(seq) : x = seq[i]
    BY <1>3 DEF Range
  <2>2. CASE i <= n
    <3>1. i \in 1 .. n
      BY <1>1, <2>2
    <3> QED BY <1>2, <1>3, <2>1, <3>1 DEF Range
  <2>3. CASE i > n
    <3> DEFINE j == i - n
    <3>1. j \in 1 .. Len(seq) - n /\ n + j = i
      BY <1>1, <2>3
    <3> HIDE DEF j
    <3> QED BY <1>2, <1>3, <2>1, <3>1 DEF Range
  <2> QED BY <1>1, <2>2, <2>3
<1>5. ASSUME NEW x \in Range(front) \cup Range(back) PROVE x \in Range(seq)
  <2>1. CASE x \in Range(front)
    <3>1. PICK i \in 1 .. n : x = seq[i]
      BY <1>2, <1>3, <2>1 DEF Range
    <3>2. i \in 1 .. Len(seq)
      BY <1>1
    <3> QED BY <1>3, <3>1, <3>2 DEF Range
  <2>2. CASE x \in Range(back)
    <3>1. PICK i \in 1 .. Len(seq) - n : x = seq[n + i]
      BY <1>2, <1>3, <2>2 DEF Range
    <3>2. n + i \in 1 .. Len(seq)
      BY <1>1
    <3> QED BY <1>3, <3>1, <3>2 DEF Range
  <2> QED BY <1>5, <2>1, <2>2
<1>6. Range(seq) = Range(front) \cup Range(back)
  BY <1>4, <1>5
<1> QED BY <1>2, <1>6 DEF front, back

\* A batch that is lost takes its heartbeat with it.
LEMMA ServerLosesKeeps == ASSUME IInv, ServerLoses PROVE IInv'
<1>1. TypeOK /\ queued \in Seq(Packet) /\ lost \subseteq 0 .. MaxRequests
  BY DEF IInv, TypeOK
<1>2. PICK n \in 1 .. Len(queued) :
        /\ queued' = SubSeq(queued, n + 1, Len(queued))
        /\ lost' = lost \cup {packet.seq : packet \in Range(SubSeq(queued, 1, n))}
        /\ unheeded' = IF Plain("HART") \in Range(SubSeq(queued, 1, n)) THEN "lost"
                       ELSE unheeded
        /\ UNCHANGED <<toServer, toClient, client, server, over>>
  BY DEF ServerLoses
<1> DEFINE batch == Range(SubSeq(queued, 1, n))
<1>3. queued' \in Seq(Packet) /\ Range(queued) = batch \cup Range(queued')
  BY <1>1, <1>2, RangeOfParts
<1> HIDE DEF batch
<1>4. Ahead = Ahead' \cup batch /\ Ahead' = Range(queued') \cup Range(toClient)
  BY <1>2, <1>3 DEF Ahead
<1>5. lost' \subseteq 0 .. MaxRequests
  <2>1. \A packet \in Range(queued) : packet \in Packet
    BY <1>1, RangeOfSeq
  <2>2. \A packet \in batch : packet.seq \in 0 .. MaxRequests
    BY <1>3, <2>1 DEF Packet
  <2> QED BY <1>1, <1>2, <2>2 DEF batch
<1>6. TypeOK'
  BY <1>1, <1>2, <1>3, <1>5 DEF TypeOK
<1>7. Numbered' /\ SetupQuiet' /\ JoinMeansNamed' /\ JoinedIsNamed'
  BY <1>2, <1>4, TrafficKeeps
<1>8. WarningAccountedFor'
  <2> SUFFICES ASSUME server.flag, ~ over, unheeded' = "no" PROVE WarningUnderWay'
    BY <1>2 DEF WarningAccountedFor
  <2>1. unheeded = "no" /\ Plain("HART") \notin batch
    BY <1>2 DEF batch
  <2>2. WarningUnderWay
    BY <2>1 DEF IInv, WarningAccountedFor
  <2> QED BY <1>2, <1>3, <2>1, <2>2 DEF WarningUnderWay
<1> QED BY <1>6, <1>7, <1>8 DEF IInv

\* An ended connection carries nothing new and warns nobody.
LEMMA ServerEndsKeeps == ASSUME IInv, ServerEnds PROVE IInv'
<1>1. /\ TypeOK /\ over' = TRUE /\ queued' = <<>> /\ toServer' = <<>>
      /\ toClient' \in {toClient, <<>>}
      /\ UNCHANGED <<client, server, lost, unheeded>>
  BY DEF IInv, ServerEnds
<1>2. Range(toServer') = {} /\ Ahead' \subseteq Ahead
  BY <1>1, RangeOfEmpty DEF Ahead
<1>3. TypeOK'
  <2>1. 0 <= WireSize
    BY SizesAssumption
  <2>2. /\ toClient' \in Seq(Packet) /\ Len(toClient') <= WireSize
        /\ toServer' \in Seq(Packet) /\ Len(toServer') <= WireSize
        /\ queued' \in Seq(Packet) /\ over' \in BOOLEAN
    BY <1>1, <2>1, RangeOfEmpty DEF TypeOK
  <2> QED BY <1>1, <2>2 DEF TypeOK
<1>4. Numbered' /\ SetupQuiet' /\ JoinMeansNamed' /\ JoinedIsNamed'
  BY <1>1, <1>2, TrafficKeeps
<1>5. WarningAccountedFor'
  BY <1>1 DEF WarningAccountedFor
<1> QED BY <1>3, <1>4, <1>5 DEF IInv

\* The first cycle of the health check puts the heartbeat into the queue with the flag.
LEMMA HealthWarnsKeeps == ASSUME IInv, HealthWarns PROVE IInv'
<1>1. /\ TypeOK /\ server' = [server EXCEPT !.flag = TRUE]
      /\ queued' = Append(queued, Plain("HART")) /\ unheeded' = "no"
      /\ UNCHANGED <<toServer, toClient, client, over, lost>>
  BY DEF IInv, HealthWarns
<1>2. queued \in Seq(Packet) /\ server \in ServerType
  BY <1>1 DEF TypeOK, ServerType
<1>3. Plain("HART") \in Packet /\ Plain("HART").command = "HART"
  BY PlainPackets DEF Commands
<1>4. /\ queued' \in Seq(Packet)
      /\ Range(queued') = Range(queued) \cup {Plain("HART")}
  BY <1>1, <1>2, <1>3, RangeOfAppend
<1>5. Ahead' = Ahead \cup {Plain("HART")}
  BY <1>1, <1>4 DEF Ahead
<1>6. server' \in ServerType /\ server'.named = server.named
  BY <1>1, <1>2 DEF ServerType
<1>7. TypeOK'
  BY <1>1, <1>4, <1>6 DEF TypeOK, ServerType
<1>8. Numbered' /\ SetupQuiet' /\ JoinMeansNamed' /\ JoinedIsNamed'
  BY <1>1, <1>3, <1>5, <1>6, TrafficKeeps
<1>9. WarningAccountedFor'
  BY <1>5 DEF WarningAccountedFor, WarningUnderWay, Ahead
<1> QED BY <1>7, <1>8, <1>9 DEF IInv

\* Time changes neither the flag nor the name.
LEMMA ServerTimeKeeps == ASSUME IInv, ServerForgets \/ SilenceLasts PROVE IInv'
<1>1. TypeOK /\ UNCHANGED <<toServer, toClient, client, queued, over, lost, unheeded>>
  BY DEF IInv, ServerForgets, SilenceLasts
<1>2. server \in ServerType
  BY <1>1 DEF TypeOK, ServerType
<1>3. /\ server' \in ServerType
      /\ server'.named = server.named /\ server'.flag = server.flag
  <2>1. CASE ServerForgets
    <3>1. server.hits - 1 \in 0 .. MaxCount
      BY <1>2, <2>1, SizesAssumption DEF ServerForgets, ServerType
    <3> QED BY <1>2, <2>1, <3>1 DEF ServerForgets, ServerType
  <2>2. CASE SilenceLasts
    BY <1>2, <2>2 DEF SilenceLasts, ServerType
  <2> QED BY <2>1, <2>2
<1>4. TypeOK'
  BY <1>1, <1>3 DEF TypeOK, ServerType
<1>5. Numbered' /\ SetupQuiet' /\ JoinMeansNamed' /\ JoinedIsNamed'
  BY <1>1, <1>3, TrafficKeeps DEF Ahead
<1>6. WarningAccountedFor'
  BY <1>1, <1>3 DEF IInv, WarningAccountedFor, WarningUnderWay
<1> QED BY <1>4, <1>5, <1>6 DEF IInv

(***************************************************************************)
(* The theorems.                                                            *)
(***************************************************************************)
\* Before the first packet nothing is under way and nobody is warned.
LEMMA InitIInv == Init => IInv
<1> SUFFICES ASSUME Init PROVE IInv
  OBVIOUS
<1>1. /\ toServer = <<>> /\ toClient = <<>> /\ queued = <<>>
      /\ Ahead = {} /\ UnderWay = {}
  BY RangeOfEmpty DEF Init, Ahead, UnderWay
<1>2. TypeOK
  <2>1. client \in ClientType
    <3>1. 0 \in 0 .. MaxCount /\ 0 \in 0 .. MaxRequests
      BY SizesAssumption
    <3> QED BY <3>1 DEF Init, ClientType, Quiet
  <2>2. server \in ServerType
    <3>1. 1 \in 0 .. MaxCount
      BY SizesAssumption
    <3> QED BY <3>1 DEF Init, ServerType
  <2>3. 0 <= WireSize
    BY SizesAssumption
  <2>4. over \in BOOLEAN /\ lost = {} /\ unheeded = "no"
    BY DEF Init
  <2> QED BY <1>1, <2>1, <2>2, <2>3, <2>4, RangeOfEmpty
          DEF TypeOK, ClientType, ServerType, Quiet
<1>3. Numbered /\ SetupQuiet /\ JoinMeansNamed
  BY <1>1 DEF Numbered, SetupQuiet, JoinMeansNamed
<1>4. JoinedIsNamed /\ WarningAccountedFor
  BY DEF Init, JoinedIsNamed, WarningAccountedFor
<1> QED BY <1>2, <1>3, <1>4 DEF IInv

\* No step of the client, the server or time breaks the invariant.
LEMMA NextIInv == IInv /\ [Next]_vars => IInv'
<1> SUFFICES ASSUME IInv, [Next]_vars PROVE IInv'
  OBVIOUS
<1>1. CASE ClientStep
  <2>1. CASE SetupWrites \/ SetupNames
    BY <2>1, SetupWritesKeep
  <2>2. CASE SetupReads
    BY <2>2, SetupReadsKeep
  <2>3. CASE ClientWrites
    BY <2>3, ClientWritesKeeps
  <2>4. CASE ClientReads
    BY <2>4, ClientReadsKeeps
  <2>5. CASE ClientReplies
    BY <2>5, ClientRepliesKeeps
  <2>6. CASE Idling
    BY <2>6, IdlingKeeps
  <2> QED BY <1>1, <2>1, <2>2, <2>3, <2>4, <2>5, <2>6
          DEF ClientStep, SetupStep, Idling
<1>2. CASE ServerStep
  <2>1. CASE \E more \in BOOLEAN : ServerReads(more)
    BY <2>1, ServerReadsKeeps
  <2>2. CASE ServerWrites
    BY <2>2, ServerWritesKeeps
  <2>3. CASE ServerBreaches
    BY <2>3, ServerEndsKeeps DEF ServerBreaches
  <2> QED BY <1>2, <2>1, <2>2, <2>3 DEF ServerStep
<1>3. CASE HealthStep
  BY <1>3, HealthWarnsKeeps, ServerEndsKeeps DEF HealthStep, HealthEnds
<1>4. CASE ServerLoses
  BY <1>4, ServerLosesKeeps
<1>5. CASE ClientForgets
  BY <1>5, IdlingKeeps DEF Idling
<1>6. CASE ServerForgets \/ SilenceLasts
  BY <1>6, ServerTimeKeeps
<1>7. CASE UNCHANGED vars
  BY <1>7 DEF vars, IInv, TypeOK, Numbered, SetupQuiet, JoinMeansNamed, UnderWay,
              Ahead, JoinedIsNamed, WarningAccountedFor, WarningUnderWay
<1> QED BY <1>1, <1>2, <1>3, <1>4, <1>5, <1>6, <1>7 DEF Next, Returned

\* The invariant, which says of the packets under way what the properties need,
\* holds of the client and its connection.
THEOREM Invariance == Spec => []IInv
  BY InitIInv, NextIInv, PTL DEF Spec

\* The client's and the server's members hold values of their types, and neither
\* deadline nor direction of the connection more than it may.
THEOREM TypeCorrect == Spec => []TypeOK
<1>1. IInv => TypeOK
  BY DEF IInv
<1> QED BY Invariance, <1>1, PTL

\* Once SetupConnection returned TRUE, pollCallback finds the client's name for each
\* answer the client gets, however late packets of the set-up come.
THEOREM JoinedAreNamed == Spec => []JoinedIsNamed
<1>1. IInv => JoinedIsNamed
  BY DEF IInv
<1> QED BY Invariance, <1>1, PTL

\* terminateOnNextCycle stays set only as long as the heartbeat or the reply is under
\* way, or one of the reasons that the model names has come about.
THEOREM WarningsAccountedFor == Spec => []WarningAccountedFor
<1>1. IInv => WarningAccountedFor
  BY DEF IInv
<1> QED BY Invariance, <1>1, PTL
=============================================================================
