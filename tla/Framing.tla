------------------------------ MODULE Framing ------------------------------
(***************************************************************************)
(* How packets become bytes and bytes packets again: RawPacket::Marshall on *)
(* one side of a connection; on the other pc::memory::Buffer and one of the *)
(* three readers there are, ReadForSingleSocket of the server in either     *)
(* build, and RawPacket::Read of the client. The kernel delivers what was   *)
(* sent in pieces of any size.                                              *)
(*                                                                          *)
(* A reader that starts to interpret bytes that are not there is astray:    *)
(* the model follows it no further.                                         *)
(***************************************************************************)
EXTENDS Integers, Sequences, SequencesExt

CONSTANTS
  Radix,        \* the values of a byte: 256
  CommandSize,  \* the bytes of a command: 4
  Bodies,       \* command and data of the packets that are sent
  BufferSize,   \* the size of the reader's Buffer: 106 in the server
  MaxPackets    \* bound: packets sent

Byte == 0 .. Radix - 1
SizeBytes == 2

\* The readers' asserts say so: packetSize < buffer.size(), and a whole command.
\* SizeBytes bytes can say the size of whatever the buffer holds.
ASSUME RadixAssumption == Radix \in Nat \ {0, 1}
ASSUME BodiesAssumption ==
  /\ CommandSize \in Nat /\ MaxPackets \in Nat
  /\ BufferSize \in SizeBytes .. Radix * Radix
  /\ \A body \in Bodies : /\ body \in Seq(Byte)
                          /\ CommandSize <= Len(body) /\ Len(body) < BufferSize

VARIABLES
  reader,       \* which reader, for good: "single", "multi" or "client"
  open,         \* the sender has not closed its end
  sent,         \* ghost: the bodies of the packets sent
  stream,       \* ghost: the bytes they crossed the wire as
  starts,       \* ghost: how many bytes of the stream come before each packet
  unsent,       \* bytes sent that have not arrived
  inbox,        \* bytes the kernel holds for the reader
  buffer,       \* Buffer: arr and offset
  pc,           \* where the reader is
  bytesToRead,  \* bytesToRead
  packetSize,   \* packetSize (in RawPacket::Read: bytesToRead)
  received      \* the packets it has made, which the code puts on readList

vars == <<reader, open, sent, stream, starts, unsent, inbox, buffer, pc, bytesToRead,
          packetSize, received>>

ghostVars == <<sent, stream, starts>>
senderVars == <<reader, open, ghostVars, unsent>>

(***************************************************************************)
(* RawPacket                                                                *)
(***************************************************************************)
\* size() returns a number of SizeBytes bytes.
SizeOf(body) == Len(body) % (Radix * Radix)

\* The bytes of the size cross the wire with the most significant one first.
Marshalled(body) == <<SizeOf(body) \div Radix, SizeOf(body) % Radix>> \o body

(***************************************************************************)
(* Buffer: everything is relative to offset, and nothing checks the end.    *)
(***************************************************************************)
NewBuffer == [arr |-> [i \in 1 .. BufferSize |-> 0], offset |-> 0]

SizeIgnoringOffset(b) == BufferSize
Size(b) == BufferSize - b.offset
OffsetTo(b, offset) == [b EXCEPT !.offset = offset]
OffsetBy(b, by) == [b EXCEPT !.offset = @ + by]
OffsetBack(b, by) == [b EXCEPT !.offset = @ - by]
Bytes(b, n) == SubSeq(b.arr, b.offset + 1, b.offset + n)

Filled(b, at, bytes) ==
  [b EXCEPT !.arr = [i \in DOMAIN b.arr |->
     IF i - b.offset - at \in DOMAIN bytes THEN bytes[i - b.offset - at]
                                           ELSE b.arr[i]]]

StartForgotten(b) == [b EXCEPT !.offset = 0]
MoveToStart(b) ==
  [arr |-> [i \in DOMAIN b.arr |-> IF i + b.offset \in DOMAIN b.arr
                                    THEN b.arr[i + b.offset] ELSE b.arr[i]],
   offset |-> 0]

ExtractPacketSizeFromBuffer(b) == b.arr[b.offset + 1] * Radix + b.arr[b.offset + 2]

Init ==
  /\ reader \in {"single", "multi", "client"}
  /\ open = TRUE
  /\ sent = <<>> /\ stream = <<>> /\ starts = <<0>>
  /\ unsent = <<>> /\ inbox = <<>>
  /\ buffer = NewBuffer
  /\ pc = "idle"
  /\ bytesToRead = 0 /\ packetSize = 0
  /\ received = <<>>

(***************************************************************************)
(* The sender and the network.                                              *)
(***************************************************************************)
Send(body) ==
  /\ open /\ Len(sent) < MaxPackets
  /\ sent' = Append(sent, body)
  /\ stream' = stream \o Marshalled(body)
  /\ starts' = Append(starts, Len(stream'))
  /\ unsent' = unsent \o Marshalled(body)
  /\ UNCHANGED <<reader, open, inbox, buffer, pc, bytesToRead, packetSize, received>>

Arrive ==
  /\ unsent # <<>>
  /\ inbox' = Append(inbox, Head(unsent))
  /\ unsent' = Tail(unsent)
  /\ UNCHANGED <<reader, open, ghostVars, buffer, pc, bytesToRead, packetSize, received>>

\* The sender closes, or dies when only a part of what it sent has left it.
Close(n) ==
  /\ open
  /\ open' = FALSE
  /\ unsent' = SubSeq(unsent, 1, n)
  /\ UNCHANGED <<reader, ghostVars, inbox, buffer, pc, bytesToRead, packetSize, received>>

\* The end of the stream has arrived behind what is in the inbox.
Ended == ~ open /\ unsent = <<>>

(***************************************************************************)
(* recv in its uses: recvFixedBytes and recvAsManyAsPossibleAsync, whose    *)
(* loops TcpTransfer has. The bytes are put at() bytes behind data().       *)
(***************************************************************************)
Receives(n, b, at) ==
  /\ Len(inbox) >= n
  /\ buffer' = Filled(b, at, SubSeq(inbox, 1, n))
  /\ inbox' = SubSeq(inbox, n + 1, Len(inbox))

\* Too little came before the retries were used up, or nothing and then the end.
GivesUp(n) == Len(inbox) < n /\ (Ended => inbox = <<>>)

\* The stream ended within what was asked for: a short count, and no failure.
CutShort(n) == Ended /\ inbox # <<>> /\ Len(inbox) < n

\* TCPPoll: nothing came in time, the end neither.
TimesOut == reader = "client" /\ inbox = <<>> /\ ~ Ended

(***************************************************************************)
(* The readers.                                                             *)
(***************************************************************************)
\* The server reads when epoll reports input and no end of the stream, from the
\* start of the buffer, which has the bytes of earlier reads; the client at once.
Begin ==
  /\ pc = "idle"
  /\ reader # "client" => inbox # <<>> /\ ~ Ended
  /\ pc' = "size"
  /\ buffer' = OffsetTo(buffer, 0)
  /\ bytesToRead' = 0
  /\ UNCHANGED <<senderVars, inbox, packetSize, received>>

\* A header of its own, then the size in it.
ReadSize ==
  /\ pc = "size" /\ reader # "multi"
  /\ Receives(SizeBytes, buffer, 0)
  /\ packetSize' = ExtractPacketSizeFromBuffer(buffer')
  /\ pc' = "body"
  /\ UNCHANGED <<senderVars, bytesToRead, received>>

\* The body overwrites the header.
ReadBody ==
  /\ pc = "body"
  /\ Receives(packetSize, buffer, 0)
  /\ pc' = "packet"
  /\ UNCHANGED <<senderVars, bytesToRead, packetSize, received>>

\* PC_OPTIMIZE_READ_MULTIPLE_SINGLE_SHOT: less than a header is left in the
\* buffer, so whatever there is and fits is read behind it.
ReadMany ==
  LET behind == OffsetBy(buffer, bytesToRead)
      fit == IF Len(inbox) <= Size(behind) THEN Len(inbox) ELSE Size(behind)
  IN /\ pc = "size" /\ reader = "multi" /\ bytesToRead < SizeBytes
     /\ fit > 0
     /\ buffer' = OffsetBack(Filled(behind, 0, SubSeq(inbox, 1, fit)), bytesToRead)
     /\ inbox' = SubSeq(inbox, fit + 1, Len(inbox))
     /\ bytesToRead' = bytesToRead + fit
     /\ pc' = "extract"
     /\ UNCHANGED <<senderVars, packetSize, received>>

\* Another header is in the buffer already.
SkipRead ==
  /\ pc = "size" /\ reader = "multi" /\ bytesToRead >= SizeBytes
  /\ pc' = "extract"
  /\ UNCHANGED <<senderVars, inbox, buffer, bytesToRead, packetSize, received>>

\* The size comes off the buffer, and the packet may be there or not.
Extract ==
  /\ pc = "extract" /\ bytesToRead >= SizeBytes
  /\ packetSize' = ExtractPacketSizeFromBuffer(buffer)
  /\ bytesToRead' = bytesToRead - SizeBytes
  /\ buffer' = OffsetBy(buffer, SizeBytes)
  /\ pc' = IF packetSize' > bytesToRead' THEN "rest" ELSE "packet"
  /\ UNCHANGED <<senderVars, inbox, received>>

\* bytesToRead - SizeBytes wraps around.
ExtractTooEarly ==
  /\ pc = "extract" /\ bytesToRead < SizeBytes
  /\ pc' = "astray"
  /\ UNCHANGED <<senderVars, inbox, buffer, bytesToRead, packetSize, received>>

\* What there is of the packet moves to the start and the rest is read behind it.
ReadRest ==
  LET extraElements == packetSize - bytesToRead
  IN /\ pc = "rest"
     /\ Receives(extraElements, MoveToStart(buffer), bytesToRead)
     /\ bytesToRead' = bytesToRead + extraElements
     /\ pc' = "packet"
     /\ UNCHANGED <<senderVars, packetSize, received>>

Wanted == CASE pc = "size" -> SizeBytes
            [] pc = "body" -> packetSize
            [] pc = "rest" -> packetSize - bytesToRead
            [] OTHER -> 0

ReadingFixed == pc \in {"body", "rest"} \/ (pc = "size" /\ reader # "multi")

\* A failed read: the server shuts the socket down, the client's caller stops.
\* recv into a full buffer returns 0, as at the end of the stream.
Fails ==
  /\ \/ ReadingFixed /\ GivesUp(Wanted) /\ ~ TimesOut
     \/ /\ pc = "size" /\ reader = "multi" /\ bytesToRead < SizeBytes
        /\ inbox = <<>> \/ Size(OffsetBy(buffer, bytesToRead)) = 0
  /\ pc' = "closed"
  /\ UNCHANGED <<senderVars, inbox, buffer, bytesToRead, packetSize, received>>

\* A short count that is taken for success.
FailsToNotice ==
  /\ ReadingFixed /\ CutShort(Wanted)
  /\ pc' = "astray"
  /\ UNCHANGED <<senderVars, inbox, buffer, bytesToRead, packetSize, received>>

\* RawPacket::Read returns Empty; a header that was read is forgotten.
ReturnEmpty ==
  /\ pc \in {"size", "body"} /\ TimesOut
  /\ pc' = IF pc = "size" THEN "idle" ELSE "astray"
  /\ UNCHANGED <<senderVars, inbox, buffer, bytesToRead, packetSize, received>>

\* while (bytesToRead > 0), in the build that has the loop.
MoreThanHeader(left) == left > SizeBytes
MoreToRead(left) == left > 0

\* The packet is taken out of the buffer and used.
TakePacket ==
  LET left == IF reader = "multi" THEN bytesToRead - packetSize ELSE 0
  IN /\ pc = "packet"
     /\ received' = Append(received, Bytes(buffer, packetSize))
     /\ buffer' = IF reader = "client" THEN buffer ELSE OffsetBy(buffer, packetSize)
     /\ bytesToRead' = left
     /\ pc' = IF MoreToRead(left) THEN "size" ELSE "idle"
     /\ UNCHANGED <<senderVars, inbox, packetSize>>

\* epoll reports the end of the stream, whether or not there is input.
HangUp ==
  /\ pc = "idle" /\ reader # "client" /\ Ended
  /\ pc' = "closed"
  /\ UNCHANGED <<senderVars, inbox, buffer, bytesToRead, packetSize, received>>

Next ==
  \/ \E body \in Bodies : Send(body)
  \/ Arrive
  \/ \E n \in 0 .. Len(unsent) : Close(n)
  \/ Begin \/ ReadSize \/ ReadBody \/ ReadMany \/ SkipRead \/ Extract
  \/ ExtractTooEarly \/ ReadRest \/ Fails \/ FailsToNotice \/ ReturnEmpty
  \/ TakePacket \/ HangUp

Spec == Init /\ [][Next]_vars

(***************************************************************************)
(* Properties.                                                              *)
(***************************************************************************)
\* Every variable has its type, and offset and the bytes it believes to have
\* behind it stay within the buffer, as Buffer::Offset asserts.
TypeOK ==
  /\ reader \in {"single", "multi", "client"} /\ open \in BOOLEAN
  /\ {sent, received} \subseteq Seq(Seq(Byte))
  /\ {stream, unsent, inbox} \subseteq Seq(Byte)
  /\ starts \in Seq(Nat) /\ Len(starts) = Len(sent) + 1
  /\ buffer \in [arr : [1 .. BufferSize -> Byte], offset : 0 .. BufferSize]
  /\ pc \in {"idle", "size", "extract", "body", "rest", "packet", "closed", "astray"}
  /\ bytesToRead \in 0 .. BufferSize - buffer.offset /\ packetSize \in 0 .. BufferSize - 1

\* Whatever pieces the bytes arrive in, and however packets lie across the end of
\* one read and the moving of the buffer, the packets a reader makes are those that
\* were sent, each once, in order, unmixed with older bytes of the buffer.
Stream == INSTANCE PacketStream WITH Packets <- Bodies,
                                     over <- pc \in {"closed", "astray"}
ImplementsStream == Stream!Spec

\* The bytes of the packets that were not received yet.
Remaining == SubSeq(stream, starts[Len(received) + 1] + 1, Len(stream))

\* Between two packets nothing is lost: what the buffer still holds, the kernel
\* and the network are the packets to come, from the start of a header; and when a
\* read is over it leaves nothing in the buffer, which the next one, of another
\* client, begins from its start.
NothingLeftBehind ==
  LET ahead == Bytes(buffer, bytesToRead) \o inbox \o unsent
  IN pc \in {"idle", "size"} => /\ IF open THEN ahead = Remaining
                                           ELSE IsPrefix(ahead, Remaining)
                                /\ pc = "idle" => bytesToRead = 0

\* "We know at least one packet is available" (ClientInfos.hpp:398): when the size
\* is taken from the buffer, a header is in it.
HeaderAvailable == pc = "extract" => bytesToRead >= SizeBytes
=============================================================================
