--------------------------- MODULE Framing_proofs ---------------------------
(***************************************************************************)
(* For every radix, every size of the buffer, all packets that fit in it    *)
(* and any number of them, in whatever pieces their bytes arrive: each      *)
(* reader keeps within its buffer, leaves nothing behind, and makes of the  *)
(* bytes the packets that were sent.                                        *)
(***************************************************************************)
EXTENDS Framing, TLAPS

(***************************************************************************)
(* The inductive invariant: which bytes of the stream are where.            *)
(***************************************************************************)
\* Where the packet that is next to be received starts, and the data() of the buffer.
Base == starts[Len(received) + 1]
From == Base + IF pc \in {"body", "rest", "packet"} THEN SizeBytes ELSE 0

\* How many bytes of the stream the buffer has from there, and what has left the kernel.
InBuffer == IF pc = "packet" /\ reader # "multi" THEN packetSize ELSE bytesToRead
Consumed == From + InBuffer

InStep == pc \notin {"closed", "astray"}

\* The two bytes of a header.
High(body) == SizeOf(body) \div Radix
Low(body) == SizeOf(body) % Radix

\* What Marshall makes of a body stands in the stream at a position.
StandsAt(body, at) ==
  /\ at + SizeBytes + Len(body) <= Len(stream)
  /\ stream[at + 1] = High(body) /\ stream[at + 2] = Low(body)
  /\ \A i \in 1 .. Len(body) : stream[at + SizeBytes + i] = body[i]

StreamOfPackets ==
  /\ starts[1] = 0 /\ starts[Len(sent) + 1] = Len(stream)
  /\ \A k \in 1 .. Len(sent) : /\ sent[k] \in Bodies
                               /\ starts[k + 1] = starts[k] + SizeBytes + Len(sent[k])
                               /\ StandsAt(sent[k], starts[k])

AsSent == Len(received) <= Len(sent)

\* The kernel and the network have what follows, and all of it until the sender closes.
OnTheWay ==
  InStep =>
    /\ Consumed + Len(inbox) + Len(unsent) <= Len(stream)
    /\ open => Consumed + Len(inbox) + Len(unsent) = Len(stream)
    /\ \A i \in 1 .. Len(inbox) : inbox[i] = stream[Consumed + i]
    /\ \A i \in 1 .. Len(unsent) : unsent[i] = stream[Consumed + Len(inbox) + i]

BufferHolds ==
  InStep => \A i \in 1 .. InBuffer : buffer.arr[buffer.offset + i] = stream[From + i]

HeaderKnown ==
  /\ pc \in {"body", "rest", "packet"} =>
       Len(received) < Len(sent) /\ packetSize = Len(sent[Len(received) + 1])
  /\ pc = "rest" => bytesToRead < packetSize
  /\ pc = "packet" /\ reader = "multi" => packetSize <= bytesToRead

ReaderShape ==
  /\ reader # "multi" => /\ bytesToRead = 0 /\ pc \notin {"extract", "rest"}
                         /\ pc \in {"size", "body", "packet"} => buffer.offset = 0
  /\ reader = "multi" => pc # "body"
  /\ pc = "idle" => bytesToRead = 0

IInv == /\ TypeOK /\ StreamOfPackets /\ AsSent /\ OnTheWay /\ BufferHolds
        /\ HeaderKnown /\ ReaderShape

(***************************************************************************)
(* Sequences, bytes and the buffer.                                         *)
(***************************************************************************)
LEMMA Joined ==
  ASSUME NEW S, NEW s \in Seq(S), NEW t \in Seq(S)
  PROVE  /\ s \o t \in Seq(S) /\ Len(s \o t) = Len(s) + Len(t)
         /\ \A i \in 1 .. Len(s) : (s \o t)[i] = s[i]
         /\ \A i \in 1 .. Len(t) : (s \o t)[Len(s) + i] = t[i]
  OBVIOUS

LEMMA Cut ==
  ASSUME NEW S, NEW s \in Seq(S), NEW n \in 0 .. Len(s)
  PROVE  /\ SubSeq(s, 1, n) \in Seq(S) /\ Len(SubSeq(s, 1, n)) = n
         /\ \A i \in 1 .. n : SubSeq(s, 1, n)[i] = s[i]
         /\ SubSeq(s, n + 1, Len(s)) \in Seq(S)
         /\ Len(SubSeq(s, n + 1, Len(s))) = Len(s) - n
         /\ \A i \in 1 .. Len(s) - n : SubSeq(s, n + 1, Len(s))[i] = s[n + i]
  OBVIOUS

LEMMA Piece ==
  ASSUME NEW S, NEW s \in Seq(S), NEW from \in Nat, NEW n \in Nat, from + n <= Len(s)
  PROVE  /\ SubSeq(s, from + 1, from + n) \in Seq(S)
         /\ Len(SubSeq(s, from + 1, from + n)) = n
         /\ \A i \in 1 .. n : SubSeq(s, from + 1, from + n)[i] = s[from + i]
  OBVIOUS

LEMMA SameSequence ==
  ASSUME NEW S, NEW s \in Seq(S), NEW t \in Seq(S), Len(s) = Len(t),
         \A i \in 1 .. Len(s) : s[i] = t[i]
  PROVE  s = t
  OBVIOUS

LEMMA PrefixByBytes ==
  ASSUME NEW S, NEW s \in Seq(S), NEW t \in Seq(S), Len(s) <= Len(t),
         \A i \in 1 .. Len(s) : s[i] = t[i]
  PROVE  IsPrefix(s, t)
<1> DEFINE part == SubSeq(t, 1, Len(s))
<1>1. Len(s) \in 0 .. Len(t)
  OBVIOUS
<1>2. part \in Seq(S) /\ Len(part) = Len(s) /\ \A i \in 1 .. Len(s) : part[i] = t[i]
  BY <1>1, Cut
<1>3. s = part
  <2> HIDE DEF part
  <2> QED BY <1>2, SameSequence
<1>4. SubSeq(s, 1, Len(s)) = s
  OBVIOUS
<1> QED BY <1>3, <1>4 DEF IsPrefix

\* A number is made again of its two digits, which are bytes if it is small enough.
LEMMA TwoDigits ==
  ASSUME NEW n \in Nat, n < Radix * Radix
  PROVE  /\ (n \div Radix) * Radix + (n % Radix) = n
         /\ n \div Radix \in Byte /\ n % Radix \in Byte
<1> DEFINE q == n \div Radix
<1>1. q * Radix + (n % Radix) = n /\ n % Radix \in 0 .. Radix - 1 /\ q \in Nat
  BY RadixAssumption
<1>2. CASE q >= Radix
  <2> HIDE DEF q
  <2>1. q * Radix >= Radix * Radix
    BY <1>1, <1>2, RadixAssumption
  <2>2. Radix * Radix \in Int /\ q * Radix \in Int
    BY <1>1, RadixAssumption
  <2>3. n >= q * Radix
    BY <1>1, <2>2, RadixAssumption
  <2> QED BY <2>1, <2>2, <2>3
<1>3. CASE q < Radix
  BY <1>1, <1>3, RadixAssumption DEF Byte
<1> QED BY <1>1, <1>2, <1>3, RadixAssumption

\* The size of a body is not cut off, and comes out of its two bytes again.
LEMMA BodyLength ==
  ASSUME NEW body \in Bodies
  PROVE  Len(body) \in Nat /\ Len(body) < BufferSize /\ body \in Seq(Byte)
BY BodiesAssumption

LEMMA SizeOfBody ==
  ASSUME NEW body \in Bodies
  PROVE  /\ High(body) * Radix + Low(body) = Len(body)
         /\ High(body) \in Byte /\ Low(body) \in Byte
<1>1. Radix * Radix \in Nat
  BY RadixAssumption
<1>2. Len(body) < Radix * Radix
  BY <1>1, BodyLength, BodiesAssumption DEF SizeBytes
<1>3. SizeOf(body) = Len(body)
  BY <1>1, <1>2, BodyLength DEF SizeOf
<1> QED BY <1>2, <1>3, BodyLength, TwoDigits DEF High, Low

LEMMA MarshalledBytes ==
  ASSUME NEW body \in Bodies
  PROVE  /\ Marshalled(body) \in Seq(Byte)
         /\ Len(Marshalled(body)) = SizeBytes + Len(body)
         /\ Marshalled(body)[1] = High(body) /\ Marshalled(body)[2] = Low(body)
         /\ \A i \in 1 .. Len(body) : Marshalled(body)[SizeBytes + i] = body[i]
<1> DEFINE header == <<High(body), Low(body)>>
<1>1. header \in Seq(Byte) /\ Len(header) = SizeBytes
  BY SizeOfBody DEF SizeBytes
<1>2. header[1] = High(body) /\ header[2] = Low(body)
  OBVIOUS
<1> HIDE DEF header
<1>3. Marshalled(body) = header \o body
  BY DEF Marshalled, header, High, Low
<1>4. /\ header \o body \in Seq(Byte) /\ Len(header \o body) = SizeBytes + Len(body)
      /\ \A i \in 1 .. Len(header) : (header \o body)[i] = header[i]
      /\ \A i \in 1 .. Len(body) : (header \o body)[Len(header) + i] = body[i]
  BY <1>1, BodyLength
<1>5. 1 \in 1 .. Len(header) /\ 2 \in 1 .. Len(header)
  BY <1>1 DEF SizeBytes
<1> QED BY <1>1, <1>2, <1>3, <1>4, <1>5

BufferType == [arr : [1 .. BufferSize -> Byte], offset : 0 .. BufferSize]

LEMMA FilledBytes ==
  ASSUME NEW b \in BufferType, NEW at \in Nat, NEW bytes \in Seq(Byte)
  PROVE  /\ Filled(b, at, bytes) \in BufferType
         /\ Filled(b, at, bytes).offset = b.offset
         /\ \A i \in 1 .. Len(bytes) : b.offset + at + i <= BufferSize =>
              Filled(b, at, bytes).arr[b.offset + at + i] = bytes[i]
         /\ \A i \in 1 .. at : b.offset + at <= BufferSize =>
              Filled(b, at, bytes).arr[b.offset + i] = b.arr[b.offset + i]
<1>1. /\ DOMAIN b.arr = 1 .. BufferSize /\ DOMAIN bytes = 1 .. Len(bytes)
      /\ b.offset \in 0 .. BufferSize /\ BufferSize \in Nat /\ Len(bytes) \in Nat
      /\ \A i \in 1 .. BufferSize : b.arr[i] \in Byte
      /\ \A i \in 1 .. Len(bytes) : bytes[i] \in Byte
  BY BodiesAssumption, RadixAssumption DEF BufferType, SizeBytes
<1> DEFINE arr == [i \in DOMAIN b.arr |->
                     IF i - b.offset - at \in DOMAIN bytes THEN bytes[i - b.offset - at]
                                                           ELSE b.arr[i]]
<1>2. Filled(b, at, bytes) = [b EXCEPT !.arr = arr]
  BY DEF Filled
<1>3. arr \in [1 .. BufferSize -> Byte]
  BY <1>1
<1>4. \A i \in 1 .. BufferSize :
        arr[i] = IF i - b.offset - at \in 1 .. Len(bytes) THEN bytes[i - b.offset - at]
                                                          ELSE b.arr[i]
  BY <1>1
<1> HIDE DEF arr
<1>5. /\ Filled(b, at, bytes) \in BufferType /\ Filled(b, at, bytes).arr = arr
      /\ Filled(b, at, bytes).offset = b.offset
  BY <1>2, <1>3 DEF BufferType
<1>6. ASSUME NEW i \in 1 .. Len(bytes), b.offset + at + i <= BufferSize
      PROVE  arr[b.offset + at + i] = bytes[i]
  <2> DEFINE j == b.offset + at + i
  <2>1. j \in 1 .. BufferSize /\ j - b.offset - at = i
    BY <1>1, <1>6
  <2> HIDE DEF j
  <2>2. arr[j] = bytes[i]
    BY <1>4, <2>1
  <2> QED BY <2>2 DEF j
<1>7. ASSUME NEW i \in 1 .. at, b.offset + at <= BufferSize
      PROVE  arr[b.offset + i] = b.arr[b.offset + i]
  <2> DEFINE j == b.offset + i
  <2>1. j \in 1 .. BufferSize /\ j - b.offset - at \notin 1 .. Len(bytes)
    BY <1>1, <1>7
  <2> HIDE DEF j
  <2>2. arr[j] = b.arr[j]
    BY <1>4, <2>1
  <2> QED BY <2>2 DEF j
<1> QED BY <1>5, <1>6, <1>7

\* What lies in front of the bytes that are put in stays.
LEMMA FilledInFront ==
  ASSUME NEW b \in BufferType, NEW bytes \in Seq(Byte), NEW j \in 1 .. BufferSize,
         j <= b.offset
  PROVE  Filled(b, 0, bytes).arr[j] = b.arr[j]
<1>1. /\ DOMAIN b.arr = 1 .. BufferSize /\ DOMAIN bytes = 1 .. Len(bytes)
      /\ b.offset \in 0 .. BufferSize
  BY BodiesAssumption, RadixAssumption DEF BufferType, SizeBytes
<1>2. j - b.offset - 0 \notin 1 .. Len(bytes)
  BY <1>1
<1> QED BY <1>1, <1>2 DEF Filled, BufferType

LEMMA MovedBytes ==
  ASSUME NEW b \in BufferType
  PROVE  /\ MoveToStart(b) \in BufferType /\ MoveToStart(b).offset = 0
         /\ \A i \in 1 .. BufferSize - b.offset : MoveToStart(b).arr[i] = b.arr[b.offset + i]
<1>1. /\ DOMAIN b.arr = 1 .. BufferSize /\ b.offset \in 0 .. BufferSize /\ BufferSize \in Nat
      /\ \A i \in 1 .. BufferSize : b.arr[i] \in Byte
  BY BodiesAssumption, RadixAssumption DEF BufferType, SizeBytes
<1> QED BY <1>1 DEF MoveToStart, BufferType

(***************************************************************************)
(* What the invariant says, in the form the steps need it.                  *)
(***************************************************************************)
LEMMA Typed ==
  ASSUME IInv
  PROVE  /\ sent \in Seq(Seq(Byte)) /\ received \in Seq(Seq(Byte))
         /\ stream \in Seq(Byte) /\ unsent \in Seq(Byte) /\ inbox \in Seq(Byte)
         /\ starts \in Seq(Nat) /\ Len(starts) = Len(sent) + 1
         /\ buffer \in BufferType
  BY DEF IInv, TypeOK, BufferType

LEMMA Known ==
  ASSUME IInv
  PROVE  /\ Len(sent) \in Nat /\ Len(received) \in Nat /\ Len(stream) \in Nat
         /\ Len(inbox) \in Nat /\ Len(unsent) \in Nat
         /\ buffer \in BufferType /\ BufferSize \in Nat /\ BufferSize >= SizeBytes
         /\ bytesToRead \in Nat /\ buffer.offset \in Nat
         /\ buffer.offset + bytesToRead <= BufferSize
         /\ packetSize \in Nat /\ packetSize < BufferSize
         /\ Base \in Nat /\ Base <= Len(stream)
         /\ From \in Nat /\ InBuffer \in Nat /\ Consumed \in Nat
<1>1. /\ Len(sent) \in Nat /\ Len(received) \in Nat /\ Len(stream) \in Nat
      /\ Len(inbox) \in Nat /\ Len(unsent) \in Nat
      /\ buffer \in BufferType /\ buffer.offset \in Nat
  BY Typed DEF BufferType
<1>2. BufferSize \in Nat /\ BufferSize >= SizeBytes
  BY BodiesAssumption, RadixAssumption DEF SizeBytes
<1>3. /\ bytesToRead \in Nat /\ packetSize \in Nat /\ packetSize < BufferSize
      /\ buffer.offset + bytesToRead <= BufferSize
  BY <1>1, <1>2 DEF IInv, TypeOK, BufferType
<1>4. /\ starts \in Seq(Nat) /\ Len(starts) = Len(sent) + 1
      /\ Len(received) <= Len(sent) /\ StreamOfPackets
  BY DEF IInv, TypeOK, AsSent
<1>5. Base \in Nat
  BY <1>1, <1>4 DEF Base
<1>6. Base <= Len(stream)
  <2>1. CASE Len(received) = Len(sent)
    BY <1>1, <1>4, <2>1 DEF Base, StreamOfPackets
  <2>2. CASE Len(received) < Len(sent)
    <3> DEFINE body == sent[Len(received) + 1]
    <3>1. Len(received) + 1 \in 1 .. Len(sent)
      BY <1>1, <2>2
    <3> HIDE DEF body
    <3>2. body \in Bodies /\ Base + SizeBytes + Len(body) <= Len(stream)
      BY <1>4, <3>1 DEF body, Base, StreamOfPackets, StandsAt
    <3>3. Len(body) \in Nat
      BY <3>2, BodyLength
    <3>4. Len(stream) \in Nat
      BY <1>1
    <3> QED BY <1>5, <3>2, <3>3, <3>4 DEF SizeBytes
  <2> QED BY <1>1, <1>4, <2>1, <2>2
<1> QED BY <1>1, <1>2, <1>3, <1>5, <1>6 DEF From, InBuffer, Consumed, SizeBytes

\* If there is a byte of the stream behind what was received, a packet is.
Upcoming == sent[Len(received) + 1]

LEMMA PacketAhead ==
  ASSUME IInv, Base < Len(stream) \/ Len(received) < Len(sent)
  PROVE  /\ Len(received) < Len(sent) /\ Upcoming \in Bodies
         /\ StandsAt(Upcoming, Base)
         /\ Len(received) + 1 \in 1 .. Len(sent)
         /\ starts[Len(received) + 2] = Base + SizeBytes + Len(Upcoming)
<1>1. Len(received) < Len(sent)
  BY Known DEF IInv, AsSent, StreamOfPackets, Base
<1>2. Len(received) + 1 \in 1 .. Len(sent) /\ (Len(received) + 1) + 1 = Len(received) + 2
  BY <1>1, Known
<1> QED BY <1>1, <1>2 DEF IInv, StreamOfPackets, Upcoming, Base

\* Its header tells its size.
LEMMA HeaderTells ==
  ASSUME IInv, Base < Len(stream)
  PROVE  /\ stream[Base + 1] * Radix + stream[Base + 2] = Len(Upcoming)
         /\ Len(Upcoming) \in Nat /\ Len(Upcoming) < BufferSize
         /\ Len(received) < Len(sent)
<1>1. Upcoming \in Bodies /\ StandsAt(Upcoming, Base) /\ Len(received) < Len(sent)
  BY PacketAhead
<1> QED BY <1>1, BodyLength, SizeOfBody DEF StandsAt

LEMMA InitCorrect == Init => IInv
<1> SUFFICES ASSUME Init PROVE IInv
  OBVIOUS
<1>1. BufferSize \in Nat /\ BufferSize >= 2 /\ 0 \in Byte
  BY BodiesAssumption, RadixAssumption DEF SizeBytes, Byte
<1>2. buffer \in BufferType /\ buffer.offset = 0
  BY <1>1 DEF Init, NewBuffer, BufferType
<1>3. /\ Len(sent) = 0 /\ Len(stream) = 0 /\ Len(received) = 0 /\ Len(inbox) = 0
      /\ Len(unsent) = 0 /\ Len(starts) = 1 /\ starts[1] = 0 /\ starts \in Seq(Nat)
      /\ {sent, received} \subseteq Seq(Seq(Byte)) /\ {stream, unsent, inbox} \subseteq Seq(Byte)
  BY DEF Init
<1>4. TypeOK
  BY <1>1, <1>2, <1>3 DEF Init, TypeOK, BufferType
<1>5. StreamOfPackets /\ AsSent
  BY <1>3 DEF StreamOfPackets, AsSent
<1>6. Base = 0 /\ From = 0 /\ InBuffer = 0 /\ Consumed = 0
  BY <1>3 DEF Init, Base, From, InBuffer, Consumed
<1>7. OnTheWay /\ BufferHolds /\ HeaderKnown /\ ReaderShape
  BY <1>3, <1>6 DEF Init, OnTheWay, BufferHolds, HeaderKnown, ReaderShape
<1> QED BY <1>4, <1>5, <1>7 DEF IInv

(***************************************************************************)
(* The sender and the network.                                              *)
(***************************************************************************)
LEMMA SendKeeps == ASSUME IInv, NEW body \in Bodies, Send(body) PROVE IInv'
<1> DEFINE m == Marshalled(body)
<1> PICK n \in Nat : n = Len(sent)
  BY Known
<1>0. /\ Len(sent) = n /\ Len(received) \in Nat /\ Len(stream) \in Nat
      /\ Len(inbox) \in Nat /\ Len(unsent) \in Nat
      /\ Base \in Nat /\ From \in Nat /\ InBuffer \in Nat /\ Consumed \in Nat
  BY Known
<1>1. m \in Seq(Byte) /\ Len(m) = 2 + Len(body) /\ Len(body) \in Nat /\ body \in Seq(Byte)
  BY MarshalledBytes, BodyLength DEF SizeBytes
<1>2. /\ m[1] = High(body) /\ m[2] = Low(body)
      /\ \A i \in 1 .. Len(body) : m[2 + i] = body[i]
  BY MarshalledBytes DEF SizeBytes
<1>3. open /\ UNCHANGED <<reader, open, inbox, buffer, pc, bytesToRead, packetSize, received>>
  BY DEF Send
<1>4. /\ TypeOK /\ StreamOfPackets /\ AsSent /\ OnTheWay /\ BufferHolds
      /\ HeaderKnown /\ ReaderShape
  BY DEF IInv
<1> HIDE DEF m
<1>5. stream' = stream \o m /\ unsent' = unsent \o m
  BY DEF Send, m
<1>6. stream \in Seq(Byte) /\ unsent \in Seq(Byte)
  BY Typed
<1>7. /\ stream' \in Seq(Byte)
      /\ \A i \in 1 .. Len(stream) : stream'[i] = stream[i]
      /\ \A i \in 1 .. Len(m) : stream'[Len(stream) + i] = m[i]
  BY <1>1, <1>5, <1>6, Joined
<1>8. Len(stream') = Len(stream) + Len(m) /\ Len(stream') \in Nat
  <2>1. m \in Seq(Byte)
    BY <1>1
  <2>2. Len(stream \o m) = Len(stream) + Len(m)
    BY <1>6, <2>1, Joined
  <2> QED BY <1>5, <1>7, <2>2
<1>9. /\ unsent' \in Seq(Byte)
      /\ \A i \in 1 .. Len(unsent) : unsent'[i] = unsent[i]
      /\ \A i \in 1 .. Len(m) : unsent'[Len(unsent) + i] = m[i]
  BY <1>1, <1>5, <1>6, Joined
<1>10. Len(unsent') = Len(unsent) + Len(m) /\ Len(unsent') \in Nat
  <2>1. m \in Seq(Byte)
    BY <1>1
  <2>2. Len(unsent \o m) = Len(unsent) + Len(m)
    BY <1>6, <2>1, Joined
  <2> QED BY <1>5, <1>9, <2>2
<1>11. /\ sent' \in Seq(Seq(Byte)) /\ Len(sent') = n + 1 /\ sent'[n + 1] = body
       /\ \A k \in 1 .. n : sent'[k] = sent[k]
  BY <1>0, <1>1, Typed DEF Send
<1>12. starts \in Seq(Nat) /\ Len(starts) = n + 1 /\ starts' = Append(starts, Len(stream'))
  BY <1>0, Typed DEF Send
<1>13. /\ starts' \in Seq(Nat) /\ Len(starts') = n + 2 /\ starts'[n + 2] = Len(stream')
       /\ \A k \in 1 .. n + 1 : starts'[k] = starts[k] /\ starts[k] \in Nat
  BY <1>0, <1>8, <1>12
<1>14. TypeOK'
  BY <1>3, <1>4, <1>7, <1>9, <1>11, <1>13 DEF TypeOK
<1>15. StreamOfPackets'
  <2>1. starts'[1] = 0 /\ starts'[n + 2] = Len(stream') /\ (n + 1) + 1 = n + 2
    BY <1>0, <1>4, <1>13 DEF StreamOfPackets
  <2>2. ASSUME NEW k \in 1 .. n
        PROVE  /\ sent'[k] \in Bodies
               /\ starts'[k + 1] = starts'[k] + SizeBytes + Len(sent'[k])
               /\ StandsAt(sent[k], starts[k])'
    <3> DEFINE b == sent[k]
               a == starts[k]
    <3>1. k \in Nat /\ k \in 1 .. n + 1 /\ k + 1 \in 1 .. n + 1
      BY <1>0
    <3>2. b \in Bodies /\ starts[k + 1] = a + SizeBytes + Len(b) /\ StandsAt(b, a)
      BY <1>0, <1>4 DEF StreamOfPackets
    <3>3. /\ sent'[k] = b /\ starts'[k] = a /\ starts'[k + 1] = starts[k + 1]
      BY <1>11, <1>13, <3>1
    <3>4. a \in Nat
      BY <1>13, <3>1
    <3> HIDE DEF a, b
    <3>5. Len(b) \in Nat
      BY <3>2, BodyLength
    <3>6. a + 2 + Len(b) <= Len(stream)
      BY <3>2 DEF StandsAt, SizeBytes
    <3>7. ASSUME NEW i \in 1 .. 2 + Len(b)
          PROVE  stream'[a + i] = stream[a + i]
      <4>1. Len(stream) \in Nat
        BY <1>0
      <4>2. a + i \in 1 .. Len(stream)
        BY <4>1, <3>4, <3>5, <3>6
      <4> QED BY <1>7, <4>2
    <3>8. 1 \in 1 .. 2 + Len(b) /\ 2 \in 1 .. 2 + Len(b)
      BY <3>5
    <3>9. stream'[a + 1] = High(b) /\ stream'[a + 2] = Low(b)
      BY <3>2, <3>7, <3>8 DEF StandsAt
    <3>10. ASSUME NEW i \in 1 .. Len(b)
           PROVE  stream'[a + 2 + i] = b[i]
      <4>1. 2 + i \in 1 .. 2 + Len(b) /\ a + (2 + i) = a + 2 + i
        BY <3>4, <3>5
      <4>2. stream'[a + 2 + i] = stream[a + 2 + i]
        BY <3>7, <4>1
      <4> QED BY <3>2, <4>2 DEF StandsAt, SizeBytes
    <3>11. a + 2 + Len(b) <= Len(stream')
      <4>1. Len(stream) \in Nat /\ Len(m) \in Nat
        BY <1>0, <1>1
      <4>2. Len(stream') = Len(stream) + Len(m)
        BY <1>8
      <4> QED BY <3>4, <3>5, <3>6, <4>1, <4>2
    <3>12. StandsAt(sent[k], starts[k])'
      BY <3>3, <3>9, <3>10, <3>11 DEF StandsAt, SizeBytes, High, Low, SizeOf
    <3> QED BY <3>2, <3>3, <3>12
  <2>3. starts'[n + 1] = Len(stream)
    <3>1. n + 1 \in 1 .. n + 1 /\ starts[n + 1] = Len(stream)
      BY <1>0, <1>4 DEF StreamOfPackets
    <3> QED BY <1>13, <3>1
  <2>4. starts'[n + 2] = starts'[n + 1] + SizeBytes + Len(sent'[n + 1])
    <3>1. Len(stream') = Len(stream) + SizeBytes + Len(body)
      <4>1. Len(stream) \in Nat /\ Len(body) \in Nat /\ Len(m) = 2 + Len(body)
        BY <1>0, <1>1
      <4>2. Len(stream') = Len(stream) + Len(m)
        BY <1>8
      <4> QED BY <4>1, <4>2 DEF SizeBytes
    <3> QED BY <1>11, <2>1, <2>3, <3>1
  <2>5. StandsAt(sent[n + 1], starts[n + 1])'
    <3>0. Len(stream) \in Nat /\ Len(body) \in Nat /\ Len(m) = 2 + Len(body)
      BY <1>0, <1>1
    <3>1. stream'[Len(stream) + 1] = High(body) /\ stream'[Len(stream) + 2] = Low(body)
      <4>1. 1 \in 1 .. Len(m) /\ 2 \in 1 .. Len(m)
        BY <3>0
      <4> QED BY <1>2, <1>7, <4>1
    <3>2. ASSUME NEW i \in 1 .. Len(body)
          PROVE  stream'[Len(stream) + SizeBytes + i] = body[i]
      <4>1. 2 + i \in 1 .. Len(m) /\ Len(stream) + (2 + i) = Len(stream) + 2 + i
        BY <3>0
      <4>2. stream'[Len(stream) + 2 + i] = m[2 + i]
        BY <1>7, <4>1
      <4> QED BY <1>2, <4>2 DEF SizeBytes
    <3>3. Len(stream) + SizeBytes + Len(body) <= Len(stream')
      <4>1. Len(stream') = Len(stream) + Len(m)
        BY <1>8
      <4> QED BY <3>0, <4>1 DEF SizeBytes
    <3>4. sent'[n + 1] = body
      BY <1>11
    <3> QED BY <2>3, <3>1, <3>2, <3>3, <3>4 DEF StandsAt, High, Low, SizeOf
  <2>6. sent'[n + 1] \in Bodies
    BY <1>11
  <2>7. ASSUME NEW k \in 1 .. Len(sent')
        PROVE  /\ sent'[k] \in Bodies
               /\ starts'[k + 1] = starts'[k] + SizeBytes + Len(sent'[k])
               /\ StandsAt(sent[k], starts[k])'
    <3>1. k \in 1 .. n \/ k = n + 1
      BY <1>0, <1>11
    <3>2. CASE k = n + 1
      <4>1. k + 1 = n + 2
        BY <2>1, <3>2
      <4>2. starts'[k + 1] = starts'[k] + SizeBytes + Len(sent'[k])
        BY <2>4, <3>2, <4>1, Zenon
      <4> QED BY <2>5, <2>6, <3>2, <4>2, Zenon
    <3> QED BY <2>2, <3>1, <3>2
  <2> QED BY <1>11, <2>1, <2>7 DEF StreamOfPackets
<1>16. Base' = Base /\ From' = From /\ InBuffer' = InBuffer /\ Consumed' = Consumed
  <2>1. Len(received) + 1 \in 1 .. n + 1
    BY <1>0, <1>4 DEF AsSent
  <2>2. Base' = Base
    BY <1>3, <1>13, <2>1 DEF Base
  <2> QED BY <1>3, <2>2 DEF From, InBuffer, Consumed
<1>17. OnTheWay'
  <2> SUFFICES ASSUME InStep PROVE OnTheWay'
    BY <1>3 DEF OnTheWay, InStep
  <2>0. /\ Consumed \in Nat /\ Len(inbox) \in Nat /\ Len(unsent) \in Nat
        /\ Len(stream) \in Nat /\ Len(m) \in Nat
    BY <1>0, <1>1
  <2>1. Consumed + Len(inbox) + Len(unsent) = Len(stream)
    BY <1>3, <1>4 DEF OnTheWay
  <2>2. Consumed + Len(inbox) + Len(unsent') = Len(stream')
    BY <1>8, <1>10, <2>0, <2>1
  <2>3. ASSUME NEW i \in 1 .. Len(inbox)
        PROVE  inbox[i] = stream'[Consumed + i]
    <3>1. Consumed + i \in 1 .. Len(stream)
      BY <2>0, <2>1
    <3> QED BY <1>4, <1>7, <3>1 DEF OnTheWay
  <2>4. ASSUME NEW i \in 1 .. Len(unsent')
        PROVE  unsent'[i] = stream'[Consumed + Len(inbox) + i]
    <3>1. CASE i \in 1 .. Len(unsent)
      <4>1. Consumed + Len(inbox) + i \in 1 .. Len(stream)
        BY <2>0, <2>1, <3>1
      <4> QED BY <1>4, <1>7, <1>9, <3>1, <4>1 DEF OnTheWay
    <3>2. CASE i \notin 1 .. Len(unsent)
      <4> DEFINE j == i - Len(unsent)
      <4>1. j \in 1 .. Len(m) /\ Len(unsent) + j = i
        BY <1>10, <2>0, <3>2
      <4>2. Consumed + Len(inbox) + i = Len(stream) + j
        <5>1. i \in Int /\ j \in Int
          BY <1>10, <2>0
        <5> QED BY <2>0, <2>1, <4>1, <5>1
      <4> HIDE DEF j
      <4>3. unsent'[i] = m[j]
        BY <1>9, <4>1
      <4> QED BY <1>7, <4>1, <4>2, <4>3
    <3> QED BY <3>1, <3>2
  <2> QED BY <1>3, <1>8, <1>16, <2>2, <2>3, <2>4 DEF OnTheWay
<1>18. BufferHolds'
  <2> SUFFICES ASSUME InStep, NEW i \in 1 .. InBuffer
               PROVE  buffer.arr[buffer.offset + i] = stream'[From + i]
    BY <1>3, <1>16 DEF BufferHolds, InStep
  <2>1. From + i \in 1 .. Len(stream)
    BY <1>0, <1>4 DEF OnTheWay, Consumed
  <2> QED BY <1>4, <1>7, <2>1 DEF BufferHolds
<1>19. AsSent' /\ HeaderKnown' /\ ReaderShape'
  <2>1. Len(received) < n => Len(received) + 1 \in 1 .. n
    BY <1>0
  <2> QED BY <1>0, <1>3, <1>4, <1>11, <2>1 DEF AsSent, HeaderKnown, ReaderShape
<1> QED BY <1>14, <1>15, <1>17, <1>18, <1>19 DEF IInv

\* Steps of the network leave the reader and the stream alone.
LEMMA NetworkKeeps ==
  ASSUME IInv, TypeOK', OnTheWay',
         UNCHANGED <<reader, ghostVars, buffer, pc, bytesToRead, packetSize, received>>
  PROVE  IInv'
<1> QED BY DEF IInv, ghostVars, StreamOfPackets, StandsAt, AsSent, BufferHolds, InStep,
               InBuffer, From, Base, HeaderKnown, ReaderShape

LEMMA NetworkStands ==
  ASSUME UNCHANGED <<reader, ghostVars, pc, bytesToRead, packetSize, received>>
  PROVE  Consumed' = Consumed /\ InStep' = InStep /\ stream' = stream
BY DEF ghostVars, Consumed, From, Base, InBuffer, InStep

LEMMA ArriveKeeps == ASSUME IInv, Arrive PROVE IInv'
<1>0. /\ Len(sent) \in Nat /\ Len(received) \in Nat /\ Len(stream) \in Nat
      /\ Len(inbox) \in Nat /\ Len(unsent) \in Nat
      /\ Base \in Nat /\ From \in Nat /\ InBuffer \in Nat /\ Consumed \in Nat
  BY Known
<1>1. /\ unsent # <<>> /\ inbox' = Append(inbox, Head(unsent)) /\ unsent' = Tail(unsent)
      /\ UNCHANGED <<reader, open, ghostVars, buffer, pc, bytesToRead, packetSize, received>>
  BY DEF Arrive
<1>2. TypeOK /\ OnTheWay
  BY DEF IInv
<1>3. unsent \in Seq(Byte) /\ inbox \in Seq(Byte)
  BY <1>2 DEF TypeOK
<1>4. /\ Head(unsent) = unsent[1] /\ unsent[1] \in Byte
      /\ unsent' \in Seq(Byte) /\ Len(unsent) >= 1 /\ Len(unsent') = Len(unsent) - 1
      /\ \A i \in 1 .. Len(unsent') : unsent'[i] = unsent[i + 1]
  BY <1>1, <1>3
<1>5. /\ inbox' \in Seq(Byte) /\ Len(inbox') = Len(inbox) + 1
      /\ \A i \in 1 .. Len(inbox) : inbox'[i] = inbox[i]
      /\ inbox'[Len(inbox) + 1] = unsent[1]
  BY <1>1, <1>3, <1>4
<1>6. TypeOK'
  BY <1>1, <1>2, <1>4, <1>5 DEF TypeOK, ghostVars
<1>7. OnTheWay'
  <2> SUFFICES ASSUME InStep PROVE OnTheWay'
    BY <1>1, NetworkStands DEF OnTheWay
  <2>1. \A i \in 1 .. Len(inbox') : inbox'[i] = stream[Consumed + i]
    <3> TAKE i \in 1 .. Len(inbox')
    <3>1. CASE i \in 1 .. Len(inbox)
      BY <1>2, <1>5, <3>1 DEF OnTheWay
    <3>2. CASE i \notin 1 .. Len(inbox)
      <4>1. i = Len(inbox) + 1 /\ 1 \in 1 .. Len(unsent)
        BY <1>0, <1>4, <1>5, <3>2
      <4>2. Consumed + Len(inbox) + 1 = Consumed + i
        BY <1>0, <4>1
      <4> QED BY <1>2, <1>5, <4>1, <4>2 DEF OnTheWay
    <3> QED BY <3>1, <3>2
  <2>2. \A i \in 1 .. Len(unsent') : unsent'[i] = stream[Consumed + Len(inbox') + i]
    <3> TAKE i \in 1 .. Len(unsent')
    <3>1. i + 1 \in 1 .. Len(unsent) /\ Consumed + Len(inbox') + i = Consumed + Len(inbox) + (i + 1)
      BY <1>4, <1>5, <1>0
    <3> QED BY <1>2, <1>4, <3>1 DEF OnTheWay
  <2>3. Len(inbox') + Len(unsent') = Len(inbox) + Len(unsent)
    BY <1>4, <1>5, <1>0
  <2>4. /\ Consumed + Len(inbox') + Len(unsent') <= Len(stream)
        /\ open => Consumed + Len(inbox') + Len(unsent') = Len(stream)
    <3>1. Consumed + Len(inbox') + Len(unsent') = Consumed + Len(inbox) + Len(unsent)
      BY <1>0, <1>4, <1>5
    <3> QED BY <1>2, <3>1 DEF OnTheWay
  <2> QED BY <1>1, <2>1, <2>2, <2>4, NetworkStands DEF OnTheWay
<1> QED BY <1>1, <1>6, <1>7, NetworkKeeps

LEMMA CloseKeeps == ASSUME IInv, NEW n \in 0 .. Len(unsent), Close(n) PROVE IInv'
<1>0. /\ Len(sent) \in Nat /\ Len(received) \in Nat /\ Len(stream) \in Nat
      /\ Len(inbox) \in Nat /\ Len(unsent) \in Nat
      /\ Base \in Nat /\ From \in Nat /\ InBuffer \in Nat /\ Consumed \in Nat
  BY Known
<1>1. /\ ~ open' /\ unsent' = SubSeq(unsent, 1, n)
      /\ UNCHANGED <<reader, ghostVars, inbox, buffer, pc, bytesToRead, packetSize, received>>
  BY DEF Close
<1>2. TypeOK /\ OnTheWay
  BY DEF IInv
<1>3. unsent' \in Seq(Byte) /\ Len(unsent') = n /\ \A i \in 1 .. n : unsent'[i] = unsent[i]
  BY <1>1, <1>2, Cut DEF TypeOK
<1>4. TypeOK'
  BY <1>1, <1>2, <1>3 DEF TypeOK, ghostVars, Close
<1>5. OnTheWay'
  <2> SUFFICES ASSUME InStep PROVE OnTheWay'
    BY <1>1, NetworkStands DEF OnTheWay
  <2>1. Consumed + Len(inbox) + Len(unsent') <= Len(stream)
    BY <1>0, <1>2, <1>3 DEF OnTheWay
  <2> QED BY <1>1, <1>2, <1>3, <2>1, NetworkStands DEF OnTheWay
<1> QED BY <1>1, <1>4, <1>5, NetworkKeeps

(***************************************************************************)
(* What the steps of the reader have in common.                             *)
(***************************************************************************)
PcType == {"idle", "size", "extract", "body", "rest", "packet", "closed", "astray"}

LEMMA SenderStands ==
  ASSUME IInv, UNCHANGED senderVars
  PROVE  /\ StreamOfPackets'
         /\ UNCHANGED <<reader, open, sent, stream, starts, unsent>>
         /\ received' = received => Base' = Base /\ AsSent'
BY DEF IInv, senderVars, ghostVars, StreamOfPackets, StandsAt, Base, AsSent

LEMMA TypeStands ==
  ASSUME IInv, UNCHANGED senderVars,
         inbox' \in Seq(Byte), buffer' \in BufferType, pc' \in PcType,
         bytesToRead' \in Nat, buffer.offset' + bytesToRead' <= BufferSize,
         packetSize' \in Nat, packetSize' < BufferSize, received' \in Seq(Seq(Byte))
  PROVE  TypeOK'
<1>1. BufferSize \in Nat /\ buffer.offset' \in 0 .. BufferSize
  BY Known DEF BufferType
<1>2. bytesToRead' \in 0 .. BufferSize - buffer.offset' /\ packetSize' \in 0 .. BufferSize - 1
  BY <1>1
<1>3. TypeOK
  BY DEF IInv
<1> QED BY <1>2, <1>3 DEF TypeOK, senderVars, ghostVars, BufferType, PcType

\* Nothing left the kernel.
LEMMA NothingArrived ==
  ASSUME IInv, InStep, UNCHANGED <<senderVars, inbox>>, Consumed' = Consumed
  PROVE  OnTheWay'
BY DEF IInv, OnTheWay, senderVars, ghostVars

\* The first bytes left the kernel: they are the next ones of the stream.
LEMMA BytesArrived ==
  ASSUME IInv, InStep, UNCHANGED senderVars, NEW n \in Nat, n <= Len(inbox),
         inbox' = SubSeq(inbox, n + 1, Len(inbox)), Consumed' = Consumed + n
  PROVE  OnTheWay' /\ inbox' \in Seq(Byte)
<1>1. /\ UNCHANGED <<open, stream, unsent>> /\ inbox \in Seq(Byte) /\ n \in 0 .. Len(inbox)
  BY SenderStands, Typed
<1>2. /\ inbox' \in Seq(Byte) /\ Len(inbox') = Len(inbox) - n
      /\ \A i \in 1 .. Len(inbox) - n : inbox'[i] = inbox[n + i]
  BY <1>1, Cut
<1>3. Consumed \in Nat /\ Len(inbox) \in Nat /\ Len(unsent) \in Nat /\ Len(stream) \in Nat
  BY Known
<1>4. /\ Consumed + Len(inbox) + Len(unsent) <= Len(stream)
      /\ open => Consumed + Len(inbox) + Len(unsent) = Len(stream)
  BY DEF IInv, OnTheWay
<1>5. /\ \A i \in 1 .. Len(inbox) : inbox[i] = stream[Consumed + i]
      /\ \A i \in 1 .. Len(unsent) : unsent[i] = stream[Consumed + Len(inbox) + i]
  BY DEF IInv, OnTheWay
<1>6. Len(inbox') = Len(inbox) - n
  BY <1>2
<1>7. Consumed' + Len(inbox') = Consumed + Len(inbox)
  <2> DEFINE left == Len(inbox')
  <2>1. left = Len(inbox) - n
    BY <1>6
  <2> HIDE DEF left
  <2>2. Consumed' + left = Consumed + Len(inbox)
    BY <1>3, <2>1
  <2> QED BY <2>2 DEF left
<1>8. ASSUME NEW i \in 1 .. Len(inbox')
      PROVE  inbox'[i] = stream[Consumed' + i]
  <2>1. n + i \in 1 .. Len(inbox) /\ i \in 1 .. Len(inbox) - n
    BY <1>3, <1>6
  <2>2. Consumed + (n + i) = Consumed' + i
    BY <1>3, <2>1
  <2> QED BY <1>2, <1>5, <2>1, <2>2
<1> QED BY <1>1, <1>2, <1>4, <1>5, <1>7, <1>8 DEF OnTheWay

\* They are put into a buffer, which keeps what it has in front of them.
LEMMA BytesStored ==
  ASSUME IInv, InStep, NEW n \in Nat, n <= Len(inbox),
         NEW b \in BufferType, NEW at \in Nat, b.offset + at + n <= BufferSize,
         NEW new, new = Filled(b, at, SubSeq(inbox, 1, n))
  PROVE  /\ new \in BufferType /\ new.offset = b.offset
         /\ \A i \in 1 .. n : new.arr[b.offset + at + i] = stream[Consumed + i]
         /\ \A i \in 1 .. at : new.arr[b.offset + i] = b.arr[b.offset + i]
<1> DEFINE bytes == SubSeq(inbox, 1, n)
<1>1. n \in 0 .. Len(inbox) /\ inbox \in Seq(Byte)
  BY Typed
<1>2. bytes \in Seq(Byte) /\ Len(bytes) = n /\ \A i \in 1 .. n : bytes[i] = inbox[i]
  BY <1>1, Cut
<1>3. \A i \in 1 .. n : bytes[i] = stream[Consumed + i]
  BY <1>1, <1>2 DEF IInv, OnTheWay
<1> DEFINE filled == Filled(b, at, bytes)
<1>4. new = filled
  OBVIOUS
<1> HIDE DEF bytes
<1>5. /\ filled \in BufferType /\ filled.offset = b.offset
      /\ \A i \in 1 .. n : b.offset + at + i <= BufferSize => filled.arr[b.offset + at + i] = bytes[i]
      /\ \A i \in 1 .. at : b.offset + at <= BufferSize => filled.arr[b.offset + i] = b.arr[b.offset + i]
  BY <1>2, FilledBytes
<1> HIDE DEF filled
<1>6. b.offset \in Nat /\ BufferSize \in Nat
  BY Known DEF BufferType
<1>7. b.offset + at <= BufferSize /\ \A i \in 1 .. n : b.offset + at + i <= BufferSize
  BY <1>6
<1> QED BY <1>3, <1>4, <1>5, <1>7

(***************************************************************************)
(* Steps that read nothing.                                                 *)
(***************************************************************************)
\* A reader that has ended or gone astray is followed no further.
LEMMA LeavingKeeps ==
  ASSUME IInv, pc' \in {"closed", "astray"},
         UNCHANGED <<senderVars, inbox, buffer, bytesToRead, packetSize, received>>
  PROVE  IInv'
<1>1. TypeOK'
  BY DEF IInv, TypeOK, senderVars, ghostVars
<1>2. HeaderKnown' /\ ReaderShape'
  BY DEF IInv, HeaderKnown, ReaderShape, senderVars
<1>3. ~ InStep'
  BY DEF InStep
<1> QED BY <1>1, <1>2, <1>3, SenderStands DEF IInv, OnTheWay, BufferHolds

LEMMA FailuresKeep ==
  ASSUME IInv, ExtractTooEarly \/ Fails \/ FailsToNotice \/ HangUp PROVE IInv'
BY LeavingKeeps DEF ExtractTooEarly, Fails, FailsToNotice, HangUp

\* Only the place of the reader changes.
LEMMA MovingKeeps ==
  ASSUME IInv, pc = "size",
         \/ pc' = "extract" /\ reader = "multi"
         \/ pc' = "idle" /\ reader # "multi",
         UNCHANGED <<senderVars, inbox, buffer, bytesToRead, packetSize, received>>
  PROVE  IInv'
<1>1. TypeOK'
  BY DEF IInv, TypeOK, senderVars, ghostVars
<1>2. HeaderKnown' /\ ReaderShape'
  BY DEF IInv, HeaderKnown, ReaderShape, senderVars
<1>3. From' = From /\ InBuffer' = InBuffer /\ Consumed' = Consumed /\ InStep
  BY SenderStands DEF From, InBuffer, Consumed, InStep
<1>4. BufferHolds'
  BY <1>3, SenderStands DEF IInv, BufferHolds
<1> QED BY <1>1, <1>2, <1>3, <1>4, SenderStands, NothingArrived DEF IInv

LEMMA SkipReadKeeps == ASSUME IInv, SkipRead PROVE IInv'
BY MovingKeeps DEF SkipRead

LEMMA ReturnEmptyKeeps == ASSUME IInv, ReturnEmpty PROVE IInv'
BY MovingKeeps, LeavingKeeps DEF ReturnEmpty, TimesOut

LEMMA BeginKeeps == ASSUME IInv, Begin PROVE IInv'
<1>1. /\ pc = "idle" /\ pc' = "size" /\ buffer' = OffsetTo(buffer, 0) /\ bytesToRead' = 0
      /\ UNCHANGED <<senderVars, inbox, packetSize, received>>
  BY DEF Begin
<1>2. buffer' \in BufferType /\ buffer.offset' = 0
  <2>1. buffer \in BufferType /\ BufferSize \in Nat
    BY Known
  <2> QED BY <1>1, <2>1 DEF OffsetTo, BufferType
<1>3. TypeOK'
  <2>1. inbox' \in Seq(Byte) /\ received' \in Seq(Seq(Byte))
    BY <1>1, Typed
  <2>2. /\ packetSize' \in Nat /\ packetSize' < BufferSize
        /\ BufferSize \in Nat /\ buffer.offset' + bytesToRead' <= BufferSize
    BY <1>1, <1>2, Known
  <2> QED BY <1>1, <1>2, <2>1, <2>2, TypeStands DEF PcType
<1>4. bytesToRead = 0
  BY <1>1 DEF IInv, ReaderShape
<1>5. From' = From /\ InBuffer' = 0 /\ InBuffer = 0 /\ Consumed' = Consumed /\ InStep
  BY <1>1, <1>4, SenderStands DEF From, InBuffer, Consumed, InStep
<1>6. BufferHolds' /\ HeaderKnown' /\ ReaderShape'
  BY <1>1, <1>2, <1>5 DEF BufferHolds, HeaderKnown, ReaderShape
<1> QED BY <1>1, <1>3, <1>5, <1>6, SenderStands, NothingArrived DEF IInv

(***************************************************************************)
(* Steps that read.                                                         *)
(***************************************************************************)
\* While the reader holds or could hold a byte of a packet, a header is ahead.
LEMMA StreamGoesOn ==
  ASSUME IInv, InStep, NEW n \in Nat, n > 0,
         Base + n <= Consumed \/ (Consumed = Base /\ n <= Len(inbox))
  PROVE  Base < Len(stream)
<1>1. /\ Base \in Nat /\ Consumed \in Nat /\ Len(inbox) \in Nat /\ Len(unsent) \in Nat
      /\ Len(stream) \in Nat
  BY Known
<1>2. Consumed + Len(inbox) + Len(unsent) <= Len(stream)
  BY DEF IInv, OnTheWay
<1> QED BY <1>1, <1>2

LEMMA ReadSizeKeeps == ASSUME IInv, ReadSize PROVE IInv'
<1>1. /\ pc = "size" /\ reader # "multi" /\ pc' = "body" /\ 2 <= Len(inbox)
      /\ buffer' = Filled(buffer, 0, SubSeq(inbox, 1, 2))
      /\ inbox' = SubSeq(inbox, 2 + 1, Len(inbox))
      /\ packetSize' = ExtractPacketSizeFromBuffer(buffer')
      /\ UNCHANGED <<senderVars, bytesToRead, received>>
  <2>1. Len(inbox) \in Nat
    BY Known
  <2> QED BY <2>1 DEF ReadSize, Receives, SizeBytes
<1>2. /\ bytesToRead = 0 /\ buffer.offset = 0 /\ Base \in Nat /\ InStep
      /\ UNCHANGED <<reader, sent>> /\ Base' = Base
  BY <1>1, Known, SenderStands DEF IInv, ReaderShape, InStep
<1>3. Consumed = Base /\ InBuffer' = 0 /\ From' = Base + 2 /\ Consumed' = Consumed + 2
  BY <1>1, <1>2 DEF From, InBuffer, Consumed, SizeBytes
<1>4. OnTheWay' /\ inbox' \in Seq(Byte)
  BY <1>1, <1>2, <1>3, BytesArrived
<1>5. /\ buffer' \in BufferType /\ buffer'.offset = 0
      /\ buffer'.arr[1] = stream[Base + 1] /\ buffer'.arr[2] = stream[Base + 2]
  <2>1. /\ buffer \in BufferType /\ buffer.offset + 0 + 2 <= BufferSize
        /\ buffer.offset + 0 + 1 = 1 /\ buffer.offset + 0 + 2 = 2
    BY <1>2, Known DEF SizeBytes
  <2>2. /\ buffer' \in BufferType /\ buffer'.offset = buffer.offset
        /\ \A i \in 1 .. 2 : buffer'.arr[buffer.offset + 0 + i] = stream[Consumed + i]
    BY <1>1, <1>2, <2>1, BytesStored
  <2>3. 1 \in 1 .. 2 /\ 2 \in 1 .. 2
    OBVIOUS
  <2> QED BY <1>2, <1>3, <2>1, <2>2, <2>3
<1>6. Base < Len(stream)
  BY <1>1, <1>2, <1>3, StreamGoesOn
<1>7. packetSize' = Len(Upcoming) /\ packetSize' \in Nat /\ packetSize' < BufferSize
  BY <1>1, <1>5, <1>6, HeaderTells DEF ExtractPacketSizeFromBuffer
<1>8. TypeOK'
  <2>1. /\ bytesToRead' \in Nat /\ buffer.offset' + bytesToRead' <= BufferSize
        /\ received' \in Seq(Seq(Byte)) /\ pc' \in PcType
    BY <1>1, <1>2, <1>5, Known, Typed DEF PcType
  <2> QED BY <1>1, <1>4, <1>5, <1>7, <2>1, TypeStands
<1>9. HeaderKnown' /\ ReaderShape' /\ BufferHolds'
  BY <1>1, <1>2, <1>3, <1>5, <1>6, <1>7, HeaderTells
     DEF HeaderKnown, ReaderShape, BufferHolds, Upcoming
<1> QED BY <1>1, <1>4, <1>8, <1>9, SenderStands DEF IInv

LEMMA ReadBodyKeeps == ASSUME IInv, ReadBody PROVE IInv'
<1>1. /\ pc = "body" /\ pc' = "packet" /\ packetSize <= Len(inbox)
      /\ buffer' = Filled(buffer, 0, SubSeq(inbox, 1, packetSize))
      /\ inbox' = SubSeq(inbox, packetSize + 1, Len(inbox))
      /\ UNCHANGED <<senderVars, bytesToRead, packetSize, received>>
  <2>1. Len(inbox) \in Nat /\ packetSize \in Nat
    BY Known
  <2> QED BY <2>1 DEF ReadBody, Receives
<1>2. /\ reader # "multi" /\ bytesToRead = 0 /\ buffer.offset = 0 /\ Base \in Nat /\ InStep
      /\ UNCHANGED <<reader, sent>> /\ Base' = Base
  BY <1>1, Known, SenderStands DEF IInv, ReaderShape, InStep
<1>3. packetSize \in Nat /\ packetSize < BufferSize /\ BufferSize \in Nat
  BY Known
<1>4. /\ From = Base + 2 /\ Consumed = From /\ From' = From /\ InBuffer' = packetSize
      /\ Consumed' = Consumed + packetSize
  BY <1>1, <1>2, <1>3 DEF From, InBuffer, Consumed, SizeBytes
<1>5. OnTheWay' /\ inbox' \in Seq(Byte)
  BY <1>1, <1>2, <1>3, <1>4, BytesArrived
<1>6. /\ buffer' \in BufferType /\ buffer'.offset = 0
      /\ \A i \in 1 .. packetSize : buffer'.arr[0 + i] = stream[From + i]
  <2>1. buffer \in BufferType /\ buffer.offset + 0 + packetSize <= BufferSize
    BY <1>2, <1>3, Known
  <2>2. /\ buffer' \in BufferType /\ buffer'.offset = buffer.offset
        /\ \A i \in 1 .. packetSize : buffer'.arr[buffer.offset + 0 + i] = stream[Consumed + i]
    BY <1>1, <1>2, <1>3, <2>1, BytesStored
  <2>3. \A i \in 1 .. packetSize : buffer.offset + 0 + i = 0 + i
    BY <1>2
  <2> QED BY <1>2, <1>4, <2>2, <2>3
<1>7. TypeOK'
  <2>1. /\ bytesToRead' \in Nat /\ buffer.offset' + bytesToRead' <= BufferSize
        /\ received' \in Seq(Seq(Byte)) /\ pc' \in PcType
    BY <1>1, <1>2, <1>3, <1>6, Typed DEF PcType
  <2> QED BY <1>1, <1>3, <1>5, <1>6, <2>1, TypeStands
<1>8. BufferHolds'
  BY <1>1, <1>4, <1>6, SenderStands DEF BufferHolds
<1>9. HeaderKnown' /\ ReaderShape'
  BY <1>1, <1>2, <1>6 DEF IInv, HeaderKnown, ReaderShape
<1> QED BY <1>1, <1>5, <1>7, <1>8, <1>9, SenderStands DEF IInv

LEMMA ReadManyKeeps == ASSUME IInv, ReadMany PROVE IInv'
<1> DEFINE behind == OffsetBy(buffer, bytesToRead)
           fit == IF Len(inbox) <= Size(behind) THEN Len(inbox) ELSE Size(behind)
           filled == Filled(behind, 0, SubSeq(inbox, 1, fit))
<1>1. /\ pc = "size" /\ pc' = "extract" /\ reader = "multi" /\ fit > 0
      /\ buffer' = OffsetBack(filled, bytesToRead)
      /\ inbox' = SubSeq(inbox, fit + 1, Len(inbox)) /\ bytesToRead' = bytesToRead + fit
      /\ UNCHANGED <<senderVars, packetSize, received>>
  BY DEF ReadMany
<1>2. /\ bytesToRead \in Nat /\ buffer.offset \in Nat /\ BufferSize \in Nat
      /\ buffer.offset + bytesToRead <= BufferSize /\ buffer \in BufferType
  BY Known
<1>3. /\ behind \in BufferType /\ behind.offset = buffer.offset + bytesToRead
      /\ behind.arr = buffer.arr
  BY <1>2 DEF OffsetBy, BufferType
<1> HIDE DEF behind
<1>4. Size(behind) \in Nat /\ Size(behind) = BufferSize - behind.offset
  BY <1>2, <1>3 DEF Size
<1>5. fit \in Nat /\ fit <= Len(inbox) /\ behind.offset + 0 + fit <= BufferSize
  <2>1. Len(inbox) \in Nat /\ behind.offset \in Nat
    BY <1>2, <1>3, Known
  <2> QED BY <1>2, <1>4, <2>1
<1> HIDE DEF fit
<1>6. /\ Base \in Nat /\ InStep /\ UNCHANGED <<reader, sent, stream>> /\ Base' = Base
  BY <1>1, Known, SenderStands DEF InStep
<1>7. /\ From = Base /\ From' = Base /\ InBuffer = bytesToRead
      /\ InBuffer' = bytesToRead + fit /\ Consumed = Base + bytesToRead
      /\ Consumed' = Consumed + fit
  BY <1>1, <1>2, <1>5, <1>6 DEF From, InBuffer, Consumed
<1>8. OnTheWay' /\ inbox' \in Seq(Byte)
  BY <1>1, <1>5, <1>6, <1>7, BytesArrived
<1>9. /\ filled \in BufferType /\ filled.offset = behind.offset
      /\ \A i \in 1 .. fit : filled.arr[behind.offset + 0 + i] = stream[Consumed + i]
  BY <1>3, <1>5, <1>6, BytesStored
<1>10. \A j \in 1 .. bytesToRead : filled.arr[buffer.offset + j] = buffer.arr[buffer.offset + j]
  <2>1. inbox \in Seq(Byte) /\ fit \in 0 .. Len(inbox)
    BY <1>5, Typed
  <2> DEFINE bytes == SubSeq(inbox, 1, fit)
  <2>2. bytes \in Seq(Byte)
    BY <2>1, Cut
  <2> HIDE DEF bytes
  <2>3. filled = Filled(behind, 0, bytes)
    BY DEF bytes
  <2>4. \A j \in 1 .. BufferSize : j <= behind.offset => filled.arr[j] = behind.arr[j]
    BY <1>3, <2>2, <2>3, FilledInFront
  <2> HIDE DEF filled
  <2>5. \A j \in 1 .. bytesToRead : buffer.offset + j \in 1 .. BufferSize
                                     /\ buffer.offset + j <= behind.offset
    BY <1>2, <1>3
  <2> QED BY <1>3, <2>4, <2>5
<1> HIDE DEF filled
<1>11. buffer' \in BufferType /\ buffer'.offset = buffer.offset /\ buffer'.arr = filled.arr
  BY <1>1, <1>2, <1>3, <1>9 DEF OffsetBack, BufferType
<1>12. BufferHolds'
  <2> SUFFICES ASSUME NEW i \in 1 .. bytesToRead + fit
               PROVE  filled.arr[buffer.offset + i] = stream[Base + i]
    BY <1>6, <1>7, <1>11 DEF BufferHolds
  <2>1. CASE i \in 1 .. bytesToRead
    BY <1>6, <1>7, <1>10, <2>1 DEF IInv, BufferHolds
  <2>2. CASE i \notin 1 .. bytesToRead
    <3> DEFINE j == i - bytesToRead
    <3>1. /\ j \in 1 .. fit /\ behind.offset + 0 + j = buffer.offset + i
          /\ Consumed + j = Base + i
      BY <1>2, <1>3, <1>5, <1>6, <1>7, <2>2
    <3> HIDE DEF j
    <3> QED BY <1>9, <3>1
  <2> QED BY <2>1, <2>2
<1>13. TypeOK'
  <2>1. /\ bytesToRead' \in Nat /\ buffer.offset' + bytesToRead' <= BufferSize
    BY <1>1, <1>2, <1>3, <1>5, <1>11
  <2>2. /\ received' \in Seq(Seq(Byte)) /\ pc' \in PcType
        /\ packetSize' \in Nat /\ packetSize' < BufferSize
    BY <1>1, Known, Typed DEF PcType
  <2> QED BY <1>1, <1>8, <1>11, <2>1, <2>2, TypeStands
<1>14. HeaderKnown' /\ ReaderShape'
  BY <1>1, <1>6 DEF HeaderKnown, ReaderShape
<1> QED BY <1>1, <1>8, <1>12, <1>13, <1>14, SenderStands DEF IInv

LEMMA ExtractKeeps == ASSUME IInv, Extract PROVE IInv'
<1>1. /\ pc = "extract" /\ bytesToRead >= 2
      /\ packetSize' = ExtractPacketSizeFromBuffer(buffer)
      /\ bytesToRead' = bytesToRead - 2 /\ buffer' = OffsetBy(buffer, 2)
      /\ pc' = IF packetSize' > bytesToRead' THEN "rest" ELSE "packet"
      /\ UNCHANGED <<senderVars, inbox, received>>
  BY DEF Extract, SizeBytes
<1>2. /\ bytesToRead \in Nat /\ buffer.offset \in Nat /\ BufferSize \in Nat
      /\ buffer.offset + bytesToRead <= BufferSize /\ buffer \in BufferType
  BY Known
<1>3. /\ reader = "multi" /\ Base \in Nat /\ InStep
      /\ UNCHANGED <<reader, sent, stream>> /\ Base' = Base
  BY <1>1, Known, SenderStands DEF IInv, ReaderShape, InStep
<1>4. /\ From = Base /\ From' = Base + 2 /\ InBuffer = bytesToRead
      /\ InBuffer' = bytesToRead - 2 /\ Consumed = Base + bytesToRead
      /\ Consumed' = Consumed
  BY <1>1, <1>2, <1>3 DEF From, InBuffer, Consumed, SizeBytes
<1>5. buffer' \in BufferType /\ buffer'.offset = buffer.offset + 2 /\ buffer'.arr = buffer.arr
  BY <1>1, <1>2 DEF OffsetBy, BufferType
<1>6. \A i \in 1 .. bytesToRead : buffer.arr[buffer.offset + i] = stream[Base + i]
  BY <1>3, <1>4 DEF IInv, BufferHolds
<1>7. Base < Len(stream)
  <2>1. 2 \in Nat /\ 2 > 0 /\ Base + 2 <= Consumed
    BY <1>1, <1>2, <1>3, <1>4
  <2> QED BY <1>3, <2>1, StreamGoesOn
<1>8. packetSize' = Len(Upcoming) /\ packetSize' \in Nat /\ packetSize' < BufferSize
  <2>1. 1 \in 1 .. bytesToRead /\ 2 \in 1 .. bytesToRead
    BY <1>1, <1>2
  <2>2. buffer.arr[buffer.offset + 1] = stream[Base + 1]
    BY <1>6, <2>1
  <2>3. buffer.arr[buffer.offset + 2] = stream[Base + 2]
    BY <1>6, <2>1
  <2> QED BY <1>1, <1>7, <2>2, <2>3, HeaderTells DEF ExtractPacketSizeFromBuffer
<1>9. BufferHolds'
  <2> SUFFICES ASSUME NEW i \in 1 .. bytesToRead - 2
               PROVE  buffer.arr[buffer.offset + 2 + i] = stream[Base + 2 + i]
    BY <1>3, <1>4, <1>5 DEF BufferHolds
  <2>1. /\ 2 + i \in 1 .. bytesToRead /\ buffer.offset + (2 + i) = buffer.offset + 2 + i
        /\ Base + (2 + i) = Base + 2 + i
    BY <1>2, <1>3
  <2> QED BY <1>6, <2>1
<1>10. TypeOK'
  <2>1. bytesToRead' \in Nat /\ buffer.offset' + bytesToRead' <= BufferSize
    BY <1>1, <1>2, <1>5
  <2>2. /\ inbox' \in Seq(Byte) /\ received' \in Seq(Seq(Byte)) /\ pc' \in PcType
    BY <1>1, Typed DEF PcType
  <2> QED BY <1>1, <1>5, <1>8, <2>1, <2>2, TypeStands
<1>11. HeaderKnown'
  <2>1. pc' = "rest" => bytesToRead' < packetSize'
    BY <1>1, <1>2, <1>8
  <2>2. pc' = "packet" => packetSize' <= bytesToRead'
    BY <1>1, <1>2, <1>8
  <2> QED BY <1>1, <1>3, <1>7, <1>8, <2>1, <2>2, HeaderTells DEF HeaderKnown, Upcoming
<1>12. ReaderShape'
  BY <1>1, <1>3 DEF ReaderShape
<1> QED BY <1>1, <1>3, <1>4, <1>9, <1>10, <1>11, <1>12, SenderStands, NothingArrived DEF IInv

LEMMA ReadRestKeeps == ASSUME IInv, ReadRest PROVE IInv'
<1> DEFINE extra == packetSize - bytesToRead
           moved == MoveToStart(buffer)
           filled == Filled(moved, bytesToRead, SubSeq(inbox, 1, extra))
<1>1. /\ pc = "rest" /\ pc' = "packet" /\ Len(inbox) >= extra
      /\ buffer' = filled /\ inbox' = SubSeq(inbox, extra + 1, Len(inbox))
      /\ bytesToRead' = bytesToRead + extra
      /\ UNCHANGED <<senderVars, packetSize, received>>
  BY DEF ReadRest, Receives
<1>2. /\ bytesToRead \in Nat /\ packetSize \in Nat /\ packetSize < BufferSize
      /\ buffer.offset \in Nat /\ BufferSize \in Nat /\ Len(inbox) \in Nat
      /\ buffer.offset + bytesToRead <= BufferSize /\ buffer \in BufferType
  BY Known
<1>3. /\ reader = "multi" /\ bytesToRead < packetSize /\ Base \in Nat /\ InStep
      /\ UNCHANGED <<reader, sent, stream>> /\ Base' = Base
  BY <1>1, Known, SenderStands DEF IInv, ReaderShape, HeaderKnown, InStep
<1>4. extra \in Nat /\ extra <= Len(inbox) /\ bytesToRead + extra = packetSize
  BY <1>1, <1>2, <1>3
<1> HIDE DEF extra
<1>5. moved \in BufferType /\ moved.offset = 0 /\ moved.offset + bytesToRead + extra <= BufferSize
  BY <1>2, <1>4, MovedBytes
<1>6. \A i \in 1 .. bytesToRead : moved.arr[i] = buffer.arr[buffer.offset + i]
  <2>1. \A i \in 1 .. BufferSize - buffer.offset : moved.arr[i] = buffer.arr[buffer.offset + i]
    BY <1>2, MovedBytes
  <2> HIDE DEF moved
  <2>2. \A i \in 1 .. bytesToRead : i \in 1 .. BufferSize - buffer.offset
    BY <1>2
  <2> QED BY <2>1, <2>2
<1> HIDE DEF moved
<1>7. /\ From = Base + 2 /\ From' = From /\ InBuffer = bytesToRead /\ InBuffer' = packetSize
      /\ Consumed = From + bytesToRead /\ Consumed' = Consumed + extra
  BY <1>1, <1>2, <1>3, <1>4 DEF From, InBuffer, Consumed, SizeBytes
<1>8. OnTheWay' /\ inbox' \in Seq(Byte)
  BY <1>1, <1>3, <1>4, <1>7, BytesArrived
<1>9. /\ filled \in BufferType /\ filled.offset = moved.offset
      /\ \A i \in 1 .. extra : filled.arr[moved.offset + bytesToRead + i] = stream[Consumed + i]
      /\ \A i \in 1 .. bytesToRead : filled.arr[moved.offset + i] = moved.arr[moved.offset + i]
  BY <1>2, <1>3, <1>4, <1>5, BytesStored
<1> HIDE DEF filled
<1>10. BufferHolds'
  <2> SUFFICES ASSUME NEW i \in 1 .. packetSize
               PROVE  filled.arr[0 + i] = stream[From + i]
    BY <1>1, <1>3, <1>5, <1>7, <1>9 DEF BufferHolds
  <2>1. CASE i \in 1 .. bytesToRead
    <3>1. filled.arr[0 + i] = moved.arr[0 + i]
      BY <1>5, <1>9, <2>1
    <3>2. 0 + i = i
      OBVIOUS
    <3>3. buffer.arr[buffer.offset + i] = stream[From + i]
      BY <1>3, <1>7, <2>1 DEF IInv, BufferHolds
    <3> QED BY <1>6, <2>1, <3>1, <3>2, <3>3
  <2>2. CASE i \notin 1 .. bytesToRead
    <3> DEFINE j == i - bytesToRead
    <3>0. From \in Nat
      BY <1>3, <1>7
    <3>1. /\ j \in 1 .. extra /\ moved.offset + bytesToRead + j = 0 + i
          /\ Consumed + j = From + i
      BY <1>2, <1>4, <1>5, <1>7, <2>2, <3>0
    <3> HIDE DEF j
    <3> QED BY <1>9, <3>1
  <2> QED BY <2>1, <2>2
<1>11. TypeOK'
  <2>1. bytesToRead' \in Nat /\ buffer.offset' + bytesToRead' <= BufferSize
    BY <1>1, <1>2, <1>4, <1>5, <1>9
  <2>2. /\ received' \in Seq(Seq(Byte)) /\ pc' \in PcType
        /\ packetSize' \in Nat /\ packetSize' < BufferSize
    BY <1>1, <1>2, Typed DEF PcType
  <2> QED BY <1>1, <1>8, <1>9, <2>1, <2>2, TypeStands
<1>12. HeaderKnown' /\ ReaderShape'
  <2>1. packetSize <= bytesToRead'
    BY <1>1, <1>2, <1>4
  <2> QED BY <1>1, <1>3, <2>1 DEF IInv, HeaderKnown, ReaderShape
<1> QED BY <1>1, <1>8, <1>10, <1>11, <1>12, SenderStands DEF IInv

\* The bytes that a whole packet is taken from are those that were sent.
LEMMA PacketAsSent ==
  ASSUME IInv, pc = "packet"
  PROVE  /\ Len(received) < Len(sent) /\ packetSize = Len(Upcoming)
         /\ packetSize <= InBuffer /\ buffer.offset + InBuffer <= BufferSize
         /\ Upcoming \in Bodies /\ Bytes(buffer, packetSize) = Upcoming
<1>1. InStep /\ Len(received) < Len(sent) /\ packetSize = Len(Upcoming)
  BY DEF IInv, HeaderKnown, Upcoming, InStep
<1>2. Upcoming \in Bodies /\ Upcoming \in Seq(Byte) /\ StandsAt(Upcoming, Base)
  BY <1>1, PacketAhead, BodyLength
<1>3. /\ packetSize \in Nat /\ packetSize < BufferSize /\ bytesToRead \in Nat
      /\ buffer.offset \in Nat /\ BufferSize \in Nat /\ Base \in Nat
      /\ buffer.offset + bytesToRead <= BufferSize /\ buffer \in BufferType
  BY Known
<1>4. InBuffer \in Nat /\ packetSize <= InBuffer /\ buffer.offset + InBuffer <= BufferSize
  <2>1. CASE reader = "multi"
    BY <1>3, <2>1 DEF IInv, HeaderKnown, InBuffer
  <2>2. CASE reader # "multi"
    <3>1. buffer.offset = 0
      BY <2>2 DEF IInv, ReaderShape
    <3> QED BY <1>3, <2>2, <3>1 DEF InBuffer
  <2> QED BY <2>1, <2>2
<1> DEFINE bytes == Bytes(buffer, packetSize)
<1>5. /\ bytes \in Seq(Byte) /\ Len(bytes) = packetSize
      /\ \A i \in 1 .. packetSize : bytes[i] = buffer.arr[buffer.offset + i]
  <2>1. buffer.arr \in Seq(Byte) /\ Len(buffer.arr) = BufferSize
    BY <1>3 DEF BufferType
  <2>2. buffer.offset + packetSize <= Len(buffer.arr)
    BY <1>3, <1>4, <2>1
  <2> DEFINE arr == buffer.arr
             at == buffer.offset
  <2>3. arr \in Seq(Byte) /\ at \in Nat /\ at + packetSize <= Len(arr)
    BY <1>3, <2>1, <2>2
  <2>4. bytes = SubSeq(arr, at + 1, at + packetSize)
    BY DEF Bytes
  <2> HIDE DEF bytes, arr, at
  <2>5. /\ bytes \in Seq(Byte) /\ Len(bytes) = packetSize
        /\ \A i \in 1 .. packetSize : bytes[i] = arr[at + i]
    BY <1>3, <2>3, <2>4, Piece
  <2> QED BY <2>5 DEF arr, at
<1> HIDE DEF bytes
<1>6. From = Base + 2
  BY DEF From, SizeBytes
<1>7. ASSUME NEW i \in 1 .. packetSize
      PROVE  bytes[i] = Upcoming[i]
  <2>1. i \in 1 .. InBuffer
    BY <1>3, <1>4
  <2>2. buffer.arr[buffer.offset + i] = stream[From + i]
    BY <1>1, <2>1 DEF IInv, BufferHolds
  <2>3. stream[Base + 2 + i] = Upcoming[i]
    BY <1>1, <1>2 DEF StandsAt, SizeBytes
  <2> QED BY <1>5, <1>6, <2>2, <2>3
<1>8. bytes = Upcoming
  BY <1>1, <1>2, <1>5, <1>7, SameSequence
<1> QED BY <1>1, <1>2, <1>4, <1>8 DEF bytes

LEMMA TakePacketKeeps == ASSUME IInv, TakePacket PROVE IInv'
<1> DEFINE left == IF reader = "multi" THEN bytesToRead - packetSize ELSE 0
<1>1. /\ pc = "packet" /\ received' = Append(received, Bytes(buffer, packetSize))
      /\ buffer' = IF reader = "client" THEN buffer ELSE OffsetBy(buffer, packetSize)
      /\ bytesToRead' = left /\ pc' = IF left > 0 THEN "size" ELSE "idle"
      /\ UNCHANGED <<senderVars, inbox, packetSize>>
  BY DEF TakePacket, MoreToRead
<1>2. /\ Len(received) < Len(sent) /\ packetSize = Len(Upcoming)
      /\ packetSize <= InBuffer /\ buffer.offset + InBuffer <= BufferSize
      /\ Upcoming \in Bodies /\ Upcoming \in Seq(Byte) /\ received' = Append(received, Upcoming)
  BY <1>1, PacketAsSent, BodyLength
<1>3. /\ packetSize \in Nat /\ packetSize < BufferSize /\ bytesToRead \in Nat
      /\ buffer.offset \in Nat /\ BufferSize \in Nat /\ Base \in Nat
      /\ Len(received) \in Nat /\ Len(sent) \in Nat
  BY Known
<1>4. buffer \in BufferType /\ received \in Seq(Seq(Byte)) /\ inbox' \in Seq(Byte)
  BY <1>1, Typed
<1>5. received' \in Seq(Seq(Byte)) /\ Len(received') = Len(received) + 1
  BY <1>2, <1>4
<1>6. /\ InStep /\ UNCHANGED <<reader, open, sent, stream, starts, unsent>>
  BY <1>1, SenderStands DEF InStep
<1>7. left = InBuffer - packetSize /\ left \in Nat
  <2>1. CASE reader = "multi"
    BY <1>1, <1>2, <1>3, <2>1 DEF InBuffer
  <2>2. CASE reader # "multi"
    BY <1>1, <1>3, <2>2 DEF InBuffer
  <2> QED BY <2>1, <2>2
<1>8. Base' = Base + 2 + packetSize
  <2>1. starts[Len(received) + 2] = Base + SizeBytes + Len(Upcoming)
    BY <1>2, PacketAhead
  <2>2. Base' = starts[Len(received) + 2]
    <3>1. Len(received') + 1 = Len(received) + 2
      BY <1>3, <1>5
    <3> QED BY <1>6, <3>1 DEF Base
  <2> QED BY <1>2, <2>1, <2>2 DEF SizeBytes
<1> DEFINE was == InBuffer
<1>9. was = InBuffer /\ was \in Nat
  BY Known
<1>10. /\ pc' \notin {"body", "rest", "packet"} /\ InBuffer' = left
       /\ From = Base + 2 /\ From' = From + packetSize
  BY <1>1, <1>3, <1>8 DEF From, InBuffer, SizeBytes
<1>11. Consumed' = Consumed
  BY <1>3, <1>7, <1>9, <1>10 DEF Consumed
<1>12. /\ buffer' \in BufferType /\ buffer'.arr = buffer.arr
       /\ buffer'.offset = IF reader = "client" THEN buffer.offset
                                                ELSE buffer.offset + packetSize
       /\ buffer'.offset + left <= BufferSize
  <2>1. CASE reader = "client"
    BY <1>1, <1>2, <1>3, <1>4, <1>7, <1>9, <2>1
  <2>2. CASE reader # "client"
    <3>1. buffer.offset + packetSize \in 0 .. BufferSize
      BY <1>2, <1>3, <1>9
    <3>2. /\ buffer' \in BufferType /\ buffer'.arr = buffer.arr
          /\ buffer'.offset = buffer.offset + packetSize
      BY <1>1, <1>4, <2>2, <3>1 DEF OffsetBy, BufferType
    <3> QED BY <1>2, <1>3, <1>7, <1>9, <2>2, <3>2
  <2> QED BY <2>1, <2>2
<1>13. BufferHolds'
  <2> SUFFICES ASSUME NEW i \in 1 .. left
               PROVE  buffer.arr[buffer'.offset + i] = stream[From + packetSize + i]
    BY <1>6, <1>10, <1>12 DEF BufferHolds
  <2>1. reader = "multi"
    OBVIOUS
  <2>2. packetSize + i \in 1 .. InBuffer
    BY <1>3, <1>7, <1>9
  <2>3. buffer.arr[buffer.offset + (packetSize + i)] = stream[From + (packetSize + i)]
    BY <1>6, <2>2 DEF IInv, BufferHolds
  <2>4. /\ buffer.offset + (packetSize + i) = buffer'.offset + i
        /\ From + (packetSize + i) = From + packetSize + i
    BY <1>3, <1>10, <1>12, <2>1
  <2> QED BY <2>3, <2>4
<1>14. TypeOK'
  BY <1>1, <1>3, <1>4, <1>5, <1>7, <1>12, TypeStands DEF PcType
<1>15. AsSent' /\ HeaderKnown'
  BY <1>2, <1>3, <1>5, <1>6, <1>10 DEF AsSent, HeaderKnown
<1>16. ReaderShape'
  <2>1. ~ (left > 0) => left = 0
    BY <1>7
  <2> QED BY <1>1, <1>6, <2>1 DEF ReaderShape
<1> QED BY <1>1, <1>6, <1>11, <1>13, <1>14, <1>15, <1>16, SenderStands, NothingArrived DEF IInv

(***************************************************************************)
(* The theorems.                                                            *)
(***************************************************************************)
LEMMA NextKeeps == ASSUME IInv, [Next]_vars PROVE IInv'
<1>1. CASE UNCHANGED vars
  <2>1. UNCHANGED <<senderVars, inbox, buffer, pc, bytesToRead, packetSize, received>>
    BY <1>1 DEF vars, senderVars, ghostVars
  <2>2. TypeOK'
    BY <2>1 DEF IInv, TypeOK, senderVars, ghostVars
  <2>3. Base' = Base /\ stream' = stream /\ reader' = reader /\ sent' = sent
    BY <2>1, SenderStands
  <2>4. InBuffer' = InBuffer /\ From' = From /\ Consumed' = Consumed /\ InStep' = InStep
    BY <2>1, <2>3 DEF InBuffer, From, Consumed, InStep
  <2>5. HeaderKnown' /\ ReaderShape'
    BY <2>1, <2>3 DEF IInv, HeaderKnown, ReaderShape
  <2>6. BufferHolds'
    BY <2>1, <2>3, <2>4 DEF IInv, BufferHolds
  <2>7. OnTheWay'
    BY <2>1, <2>4, NothingArrived DEF OnTheWay
  <2> QED BY <2>1, <2>2, <2>5, <2>6, <2>7, SenderStands DEF IInv
<1>2. CASE Next
  BY <1>2, SendKeeps, ArriveKeeps, CloseKeeps, BeginKeeps, ReadSizeKeeps, ReadBodyKeeps,
     ReadManyKeeps, SkipReadKeeps, ExtractKeeps, ReadRestKeeps, FailuresKeep,
     ReturnEmptyKeeps, TakePacketKeeps DEF Next
<1> QED BY <1>1, <1>2

\* The invariant holds in every run.
THEOREM Invariance == Spec => []IInv
BY InitCorrect, NextKeeps, PTL DEF Spec

\* Every variable has its type: whatever sizes packets have and pieces their bytes
\* arrive in, what the reader believes to have lies within its buffer.
THEOREM TypeCorrect == Spec => []TypeOK
<1>1. IInv => TypeOK
  BY DEF IInv
<1> QED BY <1>1, Invariance, PTL

\* What the buffer still holds, the kernel and the network are the packets to come.
LEMMA NothingLost == ASSUME IInv PROVE NothingLeftBehind
<1> SUFFICES ASSUME pc \in {"idle", "size"} PROVE NothingLeftBehind
  BY DEF NothingLeftBehind
<1> DEFINE held == Bytes(buffer, bytesToRead)
           ahead == held \o inbox \o unsent
<1>1. InStep /\ From = Base /\ InBuffer = bytesToRead /\ Consumed = Base + bytesToRead
  <2>1. Base \in Nat
    BY Known
  <2> QED BY <2>1 DEF InStep, From, InBuffer, Consumed
<1>2. /\ bytesToRead \in Nat /\ buffer.offset \in Nat /\ BufferSize \in Nat /\ Base \in Nat
      /\ buffer.offset + bytesToRead <= BufferSize /\ buffer \in BufferType
      /\ Len(inbox) \in Nat /\ Len(unsent) \in Nat /\ Len(stream) \in Nat
      /\ Base <= Len(stream)
  BY Known
<1>3. inbox \in Seq(Byte) /\ unsent \in Seq(Byte) /\ stream \in Seq(Byte)
  BY Typed
<1>4. /\ held \in Seq(Byte) /\ Len(held) = bytesToRead
      /\ \A i \in 1 .. bytesToRead : held[i] = buffer.arr[buffer.offset + i]
  <2> DEFINE arr == buffer.arr
             at == buffer.offset
  <2>1. arr \in Seq(Byte) /\ Len(arr) = BufferSize /\ at \in Nat
    BY <1>2 DEF BufferType
  <2>2. at + bytesToRead <= Len(arr)
    BY <1>2, <2>1
  <2>3. held = SubSeq(arr, at + 1, at + bytesToRead)
    BY DEF Bytes
  <2> HIDE DEF held, arr, at
  <2>4. /\ held \in Seq(Byte) /\ Len(held) = bytesToRead
        /\ \A i \in 1 .. bytesToRead : held[i] = arr[at + i]
    BY <1>2, <2>1, <2>2, <2>3, Piece
  <2> QED BY <2>4 DEF arr, at
<1>5. \A i \in 1 .. bytesToRead : held[i] = stream[Base + i]
  BY <1>1, <1>4 DEF IInv, BufferHolds
<1>6. /\ Consumed + Len(inbox) + Len(unsent) <= Len(stream)
      /\ open => Consumed + Len(inbox) + Len(unsent) = Len(stream)
      /\ \A i \in 1 .. Len(inbox) : inbox[i] = stream[Consumed + i]
      /\ \A i \in 1 .. Len(unsent) : unsent[i] = stream[Consumed + Len(inbox) + i]
  BY <1>1 DEF IInv, OnTheWay
<1> HIDE DEF held
<1> DEFINE both == held \o inbox
<1>7. both \in Seq(Byte) /\ Len(both) = bytesToRead + Len(inbox)
  BY <1>3, <1>4, Joined
<1>8. ASSUME NEW i \in 1 .. Len(both) PROVE both[i] = stream[Base + i]
  <2>1. \A j \in 1 .. Len(held) : both[j] = held[j]
    BY <1>3, <1>4, Joined
  <2>2. \A j \in 1 .. Len(inbox) : both[Len(held) + j] = inbox[j]
    BY <1>3, <1>4, Joined
  <2> HIDE DEF both
  <2>3. CASE i \in 1 .. bytesToRead
    BY <1>4, <1>5, <2>1, <2>3
  <2>4. CASE i \notin 1 .. bytesToRead
    <3> DEFINE j == i - bytesToRead
    <3>1. j \in 1 .. Len(inbox) /\ bytesToRead + j = i /\ Consumed + j = Base + i
      BY <1>1, <1>2, <1>7, <2>4
    <3> HIDE DEF j
    <3> QED BY <1>4, <1>6, <2>2, <3>1
  <2> QED BY <2>3, <2>4
<1> DEFINE all == both \o unsent
<1>9. ahead = all
  BY DEF held
<1> HIDE DEF both, ahead
<1>10. all \in Seq(Byte) /\ Len(all) = Len(both) + Len(unsent)
  BY <1>3, <1>7, Joined
<1>11. ASSUME NEW i \in 1 .. Len(all) PROVE all[i] = stream[Base + i]
  <2>1. \A j \in 1 .. Len(both) : all[j] = both[j]
    BY <1>3, <1>7, Joined
  <2>2. \A j \in 1 .. Len(unsent) : all[Len(both) + j] = unsent[j]
    BY <1>3, <1>7, Joined
  <2>3. Len(both) \in Nat
    BY <1>2, <1>7
  <2> HIDE DEF all
  <2>4. CASE i \in 1 .. Len(both)
    BY <1>8, <2>1, <2>4
  <2>5. CASE i \notin 1 .. Len(both)
    <3> DEFINE j == i - Len(both)
    <3>1. j \in 1 .. Len(unsent) /\ Len(both) + j = i
      BY <1>2, <1>10, <2>3, <2>5
    <3>2. Consumed + Len(inbox) + j = Base + i
      <4>1. Len(both) = bytesToRead + Len(inbox) /\ j \in Nat
        BY <1>7, <3>1
      <4>2. Base \in Nat /\ bytesToRead \in Nat /\ Len(inbox) \in Nat
        BY <1>2
      <4>3. Consumed = Base + bytesToRead /\ Len(both) + j = i
        BY <1>1, <3>1
      <4> HIDE DEF j
      <4> QED BY <4>1, <4>2, <4>3
    <3> HIDE DEF j
    <3> QED BY <1>6, <2>2, <3>1, <3>2
  <2> QED BY <2>4, <2>5
<1>12. /\ Base + Len(all) <= Len(stream) /\ Len(all) \in Nat
       /\ open => Base + Len(all) = Len(stream)
  <2>1. Len(all) = bytesToRead + Len(inbox) + Len(unsent)
    BY <1>7, <1>10
  <2> HIDE DEF all
  <2> QED BY <1>1, <1>2, <1>6, <2>1
<1> HIDE DEF all
<1> DEFINE rest == SubSeq(stream, Base + 1, Len(stream))
<1>13. /\ rest \in Seq(Byte) /\ Len(rest) = Len(stream) - Base
       /\ \A i \in 1 .. Len(stream) - Base : rest[i] = stream[Base + i]
  BY <1>2, <1>3, Cut
<1>14. rest = Remaining
  BY DEF Remaining, Base
<1> HIDE DEF rest
<1>15. Len(all) <= Len(rest) /\ (open => Len(all) = Len(rest))
  <2>1. Len(rest) = Len(stream) - Base
    BY <1>13
  <2> QED BY <1>2, <1>12, <2>1
<1>16. \A i \in 1 .. Len(all) : all[i] = rest[i]
  <2> SUFFICES ASSUME NEW i \in 1 .. Len(all) PROVE all[i] = rest[i]
    OBVIOUS
  <2>1. i \in 1 .. Len(stream) - Base
    BY <1>2, <1>12
  <2> QED BY <1>11, <1>13, <2>1
<1>17. open => all = rest
  BY <1>10, <1>13, <1>15, <1>16, SameSequence
<1>18. IsPrefix(all, rest)
  BY <1>10, <1>13, <1>15, <1>16, PrefixByBytes
<1>19. pc = "idle" => bytesToRead = 0
  BY DEF IInv, ReaderShape
<1>20. Bytes(buffer, bytesToRead) \o inbox \o unsent = all
  BY <1>9 DEF ahead, held
<1> QED BY <1>14, <1>17, <1>18, <1>19, <1>20 DEF NothingLeftBehind

\* Between two packets nothing is lost or left over, in whatever pieces the bytes came.
THEOREM NothingStaysBehind == Spec => []NothingLeftBehind
<1>1. IInv => NothingLeftBehind
  BY NothingLost
<1> QED BY <1>1, Invariance, PTL

(***************************************************************************)
(* The packets that are made are those that were sent.                      *)
(***************************************************************************)
Over == pc \in {"closed", "astray"}

LEMMA QuietStep ==
  ASSUME UNCHANGED <<sent, received>>, Over' \/ (Over' <=> Over)
  PROVE  [Stream!Next]_(Stream!vars)
<1>1. CASE Over'
  BY <1>1 DEF Over, Stream!Next, Stream!GiveUp
<1>2. CASE Over' <=> Over
  <2>1. (pc \in {"closed", "astray"})' = (pc \in {"closed", "astray"})
    BY <1>2 DEF Over
  <2> QED BY <2>1 DEF Stream!vars
<1> QED BY <1>1, <1>2

LEMMA StreamInit == Init => Stream!Init
BY DEF Init, Stream!Init

LEMMA StreamSend == ASSUME NEW body \in Bodies, Send(body) PROVE Stream!Next
<1>1. sent' = Append(sent, body) /\ UNCHANGED <<received, pc>>
  BY DEF Send
<1>2. (pc \in {"closed", "astray"})' = (pc \in {"closed", "astray"})
  BY <1>1
<1> QED BY <1>1, <1>2 DEF Stream!Next, Stream!Send

LEMMA StreamReceive == ASSUME IInv, TakePacket PROVE Stream!Next
<1>1. /\ pc = "packet" /\ received' = Append(received, Bytes(buffer, packetSize))
      /\ UNCHANGED sent /\ pc' \in {"size", "idle"}
  BY DEF TakePacket, senderVars, ghostVars
<1>2. /\ Len(received) < Len(sent)
      /\ received' = Append(received, sent[Len(received) + 1])
  BY <1>1, PacketAsSent DEF Upcoming
<1>3. /\ ~ (pc \in {"closed", "astray"})
      /\ (pc \in {"closed", "astray"})' = (pc \in {"closed", "astray"})
  BY <1>1
<1>4. Stream!Receive
  BY <1>1, <1>2, <1>3, Zenon DEF Stream!Receive
<1> QED BY <1>4 DEF Stream!Next

LEMMA StreamStep == ASSUME IInv, [Next]_vars PROVE [Stream!Next]_(Stream!vars)
<1>1. CASE UNCHANGED vars
  BY <1>1, QuietStep DEF vars, Over
<1>2. CASE \E body \in Bodies : Send(body)
  BY <1>2, StreamSend
<1>3. CASE TakePacket
  BY <1>3, StreamReceive
<1>4. CASE Arrive \/ \E n \in 0 .. Len(unsent) : Close(n)
  BY <1>4, QuietStep DEF Arrive, Close, ghostVars, Over
<1>5. CASE Begin \/ ReadSize \/ ReadBody \/ ReadMany
  BY <1>5, QuietStep DEF Begin, ReadSize, ReadBody, ReadMany, senderVars, ghostVars, Over
<1>6. CASE SkipRead \/ Extract \/ ReadRest
  BY <1>6, QuietStep DEF SkipRead, Extract, ReadRest, senderVars, ghostVars, Over
<1>7. CASE ExtractTooEarly \/ Fails \/ FailsToNotice \/ ReturnEmpty \/ HangUp
  BY <1>7, QuietStep
     DEF ExtractTooEarly, Fails, FailsToNotice, ReturnEmpty, HangUp, senderVars, ghostVars, Over
<1> QED BY <1>1, <1>2, <1>3, <1>4, <1>5, <1>6, <1>7 DEF Next

\* Whatever pieces the bytes arrive in and whichever reader reads them, the packets
\* it makes are those that were sent, each once, in order, until it gives up.
THEOREM StreamImplemented == Spec => ImplementsStream
<1>1. IInv /\ [Next]_vars => [Stream!Next]_(Stream!vars)
  BY StreamStep
<1> QED BY <1>1, StreamInit, Invariance, PTL DEF Spec, ImplementsStream, Stream!Spec
=============================================================================
