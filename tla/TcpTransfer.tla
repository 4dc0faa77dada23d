----------------------------- MODULE TcpTransfer -----------------------------
(***************************************************************************)
(* The loops of pc::network::TCP around send(2) and recv(2), one call at a  *)
(* time: sendRaw, recvFixedBytes and recvAsManyAsPossibleAsync, with the    *)
(* retries of HandleError. A byte is its position in the message that is    *)
(* sent, or in the stream that is received.                                 *)
(***************************************************************************)
EXTENDS Integers, Sequences

CONSTANTS
  Sizes,       \* numbers of bytes asked for
  SizeMax,     \* the largest size_t, which -1 wraps to
  MaxMajor,    \* major failures after which a call gives up (5 in the code)
  MaxAsync     \* EAGAINs that make a major failure (5 in the code)

ASSUME SizesAssumption ==
  Sizes \subseteq Nat \ {0} /\ SizeMax \in Nat /\ \A s \in Sizes : s < SizeMax
ASSUME LimitsAssumption == {MaxMajor, MaxAsync} \subseteq Nat \ {0}

VARIABLES
  call,         \* the call in progress, and where its loop is
  total,        \* total
  asyncFails,   \* asyncFailCounter
  majorFails,   \* majorFailCounter
  closed,       \* result.SocketClosed
  bytes,        \* the bytes the kernel took from, or put into, the buffer
  failed,       \* ghost: the attempts of this call that failed
  result        \* what the last call returned

vars == <<call, total, asyncFails, majorFails, closed, bytes, failed, result>>

Errors == {"again", "recoverable", "fatal", "other"}
Functions == {"sendRaw", "recvFixedBytes", "recvAsync"}

Running == call.pc = "loop"
Is(function) == Running /\ call.function = function

Init ==
  /\ call = [pc |-> "idle", function |-> "sendRaw", size |-> 0, dontWait |-> TRUE]
  /\ total = 0 /\ asyncFails = 0 /\ majorFails = 0 /\ closed = FALSE
  /\ bytes = <<>>
  /\ failed = 0
  /\ result = [NoOfBytes |-> 0, SocketClosed |-> FALSE]

Begin(function, size, dontWait) ==
  /\ call.pc = "idle"
  /\ call' = [pc |-> "loop", function |-> function, size |-> size,
              dontWait |-> dontWait]
  /\ total' = 0 /\ asyncFails' = 0 /\ majorFails' = 0 /\ closed' = FALSE
  /\ bytes' = <<>>
  /\ failed' = 0
  /\ UNCHANGED result

\* The failed attempts of one call are counted up to one more than this.
FailLimit == MaxMajor * MaxAsync

\* break, return
Exit == call' = [call EXCEPT !.pc = "exit"]

(***************************************************************************)
(* HandleError                                                              *)
(***************************************************************************)
MayRetry(error) == error \in {"again", "recoverable"}

BecomesMajor(error) ==
  \/ error = "recoverable"
  \/ error = "again" /\ asyncFails + 1 >= MaxAsync

MajorKept(error) == majorFails
MajorAfter(error) == IF BecomesMajor(error) THEN majorFails + 1 ELSE majorFails

HandleError(error) ==
  /\ majorFails' = MajorAfter(error)
  /\ asyncFails' = IF error # "again" THEN asyncFails
                   ELSE IF BecomesMajor(error) THEN 0 ELSE asyncFails + 1
  /\ failed' = IF failed <= FailLimit THEN failed + 1 ELSE failed

\* A fixed transfer that met an error: it goes on, or gives the socket up.
GivesUp == majorFails' >= MaxMajor

RetryOrExit(error) ==
  /\ HandleError(error)
  /\ closed' = (error = "fatal" \/ (MayRetry(error) /\ GivesUp))
  /\ IF MayRetry(error) /\ ~ GivesUp THEN UNCHANGED call ELSE Exit

(***************************************************************************)
(* sendRaw: every send(2) starts at msg and offers len bytes.               *)
(***************************************************************************)
SendTakes(n) ==
  /\ Is("sendRaw") /\ total < call.size
  /\ n \in 1 .. call.size
  /\ bytes' = bytes \o [i \in 1 .. n |-> i]
  /\ total' = total + n
  /\ UNCHANGED <<call, asyncFails, majorFails, closed, failed, result>>

SendFails(error) ==
  /\ Is("sendRaw") /\ total < call.size
  /\ RetryOrExit(error)
  /\ UNCHANGED <<total, bytes, result>>

(***************************************************************************)
(* recvFixedBytes: a call that may wait makes a single attempt.             *)
(***************************************************************************)
\* data() + total
AtStart == 0
WriteOffset == total

\* The bytes n that come next in the stream are put at an offset.
Stored(offset, n) ==
  [i \in 1 .. (IF offset + n > Len(bytes) THEN offset + n ELSE Len(bytes)) |->
     IF i \in offset + 1 .. offset + n THEN total + i - offset ELSE bytes[i]]

RecvGets(n) ==
  /\ Is("recvFixedBytes") /\ total < call.size
  /\ n \in 1 .. call.size - total
  /\ bytes' = Stored(WriteOffset, n)
  /\ total' = total + n
  /\ IF call.dontWait THEN UNCHANGED call ELSE Exit
  /\ UNCHANGED <<asyncFails, majorFails, closed, failed, result>>

\* The peer closed: recv returns 0.
RecvEnds ==
  /\ Is("recvFixedBytes") /\ total < call.size
  /\ Exit
  /\ UNCHANGED <<total, asyncFails, majorFails, closed, bytes, failed, result>>

RecvFails(error) ==
  /\ Is("recvFixedBytes") /\ total < call.size
  /\ call.dontWait
  /\ RetryOrExit(error)
  /\ UNCHANGED <<total, bytes, result>>

SignedMinusOne == -1
MinusOne == SizeMax

\* total += recv, before the error is looked at; total is still 0.
RecvFailsWaiting ==
  /\ Is("recvFixedBytes") /\ total < call.size
  /\ ~ call.dontWait
  /\ total' = MinusOne
  /\ Exit
  /\ UNCHANGED <<asyncFails, majorFails, closed, bytes, failed, result>>

(***************************************************************************)
(* recvAsManyAsPossibleAsync: one recv, repeated after a recoverable error. *)
(***************************************************************************)
AsyncGets(n) ==
  /\ Is("recvAsync")
  /\ n \in 1 .. call.size
  /\ bytes' = Stored(0, n)
  /\ total' = n
  /\ Exit
  /\ UNCHANGED <<asyncFails, majorFails, closed, failed, result>>

AsyncEnds ==
  /\ Is("recvAsync")
  /\ closed' = TRUE
  /\ Exit
  /\ UNCHANGED <<total, asyncFails, majorFails, bytes, failed, result>>

\* It calls itself again with new counters, however often that happened before.
AsyncFails(error) ==
  /\ Is("recvAsync")
  /\ closed' = (error = "fatal")
  /\ IF error = "recoverable" THEN UNCHANGED call ELSE Exit
  /\ UNCHANGED <<total, asyncFails, majorFails, bytes, failed, result>>

Return ==
  /\ \/ call.pc = "exit"
     \/ Running /\ total >= call.size /\ call.function # "recvAsync"
  /\ result' = [NoOfBytes |-> total, SocketClosed |-> closed]
  /\ call' = [call EXCEPT !.pc = "idle"]
  /\ UNCHANGED <<total, asyncFails, majorFails, closed, bytes, failed>>

(***************************************************************************)
(* The specification.                                                       *)
(***************************************************************************)
Transfer ==
  \/ \E n \in 1 .. call.size : SendTakes(n) \/ RecvGets(n) \/ AsyncGets(n)
  \/ \E error \in Errors : SendFails(error) \/ RecvFails(error) \/ AsyncFails(error)
  \/ RecvEnds \/ RecvFailsWaiting \/ AsyncEnds
  \/ Return

Next ==
  \/ \E function \in Functions, size \in Sizes, dontWait \in BOOLEAN :
       Begin(function, size, dontWait)
  \/ Transfer

Spec == Init /\ [][Next]_vars

\* A send(2) or recv(2) that does not wait returns; another may not.
FairSpec == Spec /\ WF_vars(call.dontWait /\ Transfer)

(***************************************************************************)
(* Properties.                                                              *)
(***************************************************************************)
\* The local variables and the Result hold values of their types.
TypeOK ==
  /\ call \in [pc : {"idle", "loop", "exit"}, function : Functions,
               size : {0} \cup Sizes, dontWait : BOOLEAN]
  /\ {total, asyncFails, majorFails, failed} \subseteq Nat
  /\ closed \in BOOLEAN
  /\ bytes \in Seq(Nat)
  /\ result \in [NoOfBytes : Nat, SocketClosed : BOOLEAN]

Fixed == call.function \in {"sendRaw", "recvFixedBytes"}

\* A fixed transfer gives up: whatever mixture of errors it meets, with bytes
\* moving in between or not, no more than 25 attempts of it fail.
FailuresBounded == Fixed => failed <= FailLimit

\* A fixed transfer that does not wait returns, and so OnReadPoll, which reads
\* under the read lock, gives the lock back.
CallReturns == Running /\ Fixed /\ call.dontWait ~> call.pc = "idle"

\* What was received stands in the buffer as it came in the stream, each byte
\* where NoOfBytes says it is, however often the loop was interrupted.
ReceivedInOrder ==
  call.function # "sendRaw" /\ call.dontWait =>
    bytes = [i \in 1 .. total |-> i]

\* "Send might not send all values" (TCP.hpp:319): what the kernel took is the
\* message from its start, also if it took several sends.
SentInOrder ==
  call.function = "sendRaw" => bytes = [i \in 1 .. Len(bytes) |-> i]
=============================================================================
