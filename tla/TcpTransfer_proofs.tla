------------------------- MODULE TcpTransfer_proofs -------------------------
(***************************************************************************)
(* For any limits of the retries and any number of bytes: a fixed transfer  *)
(* gives up after MaxMajor * MaxAsync failed attempts, in whatever order    *)
(* the kinds of errors come, and what is received stands in order.          *)
(***************************************************************************)
EXTENDS TcpTransfer, TLAPS

\* While the loop runs neither counter has reached its limit, and together they
\* account for every attempt that failed.
Accounted ==
  Running /\ Fixed => /\ majorFails < MaxMajor /\ asyncFails < MaxAsync
                      /\ failed <= majorFails * MaxAsync + asyncFails

\* A receiving loop has its bytes in order; a call that may wait and
\* recvAsManyAsPossibleAsync leave it with the first bytes they get.
Progress ==
  Running /\ call.function # "sendRaw" =>
    /\ bytes = [i \in 1 .. total |-> i]
    /\ call.function = "recvAsync" => total = 0

IInv == TypeOK /\ Accounted /\ FailuresBounded /\ Progress /\ ReceivedInOrder

\* The two counters as the digits of one number: a major failure carries.
LEMMA Digits ==
  ASSUME NEW major \in Nat, NEW limit \in Nat \ {0}, NEW top \in Nat, major < top
  PROVE  /\ major * limit \in Nat /\ top * limit \in Nat
         /\ (major + 1) * limit = major * limit + limit
         /\ major * limit + limit <= top * limit
<1>1. /\ major * limit \in Nat /\ top * limit \in Nat
      /\ (major + 1) * limit = major * limit + limit
  OBVIOUS
<1>2. PICK rest \in Nat : top = (major + 1) + rest
  <2>1. top - (major + 1) \in Nat /\ top = (major + 1) + (top - (major + 1))
    OBVIOUS
  <2> QED BY <2>1
<1>3. top * limit = (major + 1) * limit + rest * limit /\ rest * limit \in Nat
  BY <1>2
<1> QED BY <1>1, <1>3

\* HandleError, and what sendRaw and recvFixedBytes do with its answer.
LEMMA RetryKeeps ==
  ASSUME TypeOK, Accounted, Running, Fixed, NEW error \in Errors, RetryOrExit(error)
  PROVE  /\ {asyncFails', majorFails', failed'} \subseteq Nat /\ closed' \in BOOLEAN
         /\ call' \in {call, [call EXCEPT !.pc = "exit"]}
         /\ Accounted' /\ failed' <= FailLimit
<1>1. /\ MaxMajor \in Nat \ {0} /\ MaxAsync \in Nat \ {0}
      /\ majorFails \in Nat /\ asyncFails \in Nat /\ failed \in Nat
  BY LimitsAssumption DEF TypeOK
<1>2. /\ majorFails < MaxMajor /\ asyncFails < MaxAsync
      /\ failed <= majorFails * MaxAsync + asyncFails
  BY DEF Accounted
<1>3. /\ majorFails * MaxAsync \in Nat /\ FailLimit \in Nat
      /\ (majorFails + 1) * MaxAsync = majorFails * MaxAsync + MaxAsync
      /\ majorFails * MaxAsync + MaxAsync <= FailLimit
  BY <1>1, <1>2, Digits DEF FailLimit
<1>4. failed < FailLimit /\ failed' = failed + 1
  BY <1>1, <1>2, <1>3 DEF RetryOrExit, HandleError
<1>5. \/ /\ BecomesMajor(error) /\ majorFails' = majorFails + 1
         /\ asyncFails' \in 0 .. MaxAsync - 1
         /\ asyncFails' = 0 \/ asyncFails' = asyncFails
      \/ /\ ~ BecomesMajor(error) /\ majorFails' = majorFails
         /\ IF error = "again" THEN asyncFails' = asyncFails + 1 /\ asyncFails' < MaxAsync
                               ELSE asyncFails' = asyncFails
  BY <1>1, <1>2 DEF RetryOrExit, HandleError, MajorAfter, BecomesMajor
<1>6. asyncFails' \in Nat /\ majorFails' \in Nat /\ closed' \in BOOLEAN
  BY <1>1, <1>5 DEF RetryOrExit
<1>7. call' \in {call, [call EXCEPT !.pc = "exit"]}
  BY DEF RetryOrExit, Exit
<1>8. Accounted'
  <2>1. CASE MayRetry(error) /\ ~ GivesUp
    <3>1. majorFails' < MaxMajor
      BY <1>1, <1>6, <2>1 DEF GivesUp
    <3>2. asyncFails' < MaxAsync
      BY <1>1, <1>2, <1>5
    <3>3. failed' <= majorFails' * MaxAsync + asyncFails'
      <4>1. CASE majorFails' = majorFails + 1
        <5>1. majorFails' * MaxAsync = majorFails * MaxAsync + MaxAsync
          BY <1>3, <4>1
        <5>2. failed + 1 <= majorFails * MaxAsync + MaxAsync
          <6> HIDE DEF FailLimit
          <6> DEFINE product == majorFails * MaxAsync
          <6>1. product \in Nat /\ failed <= product + asyncFails
            BY <1>2, <1>3
          <6> HIDE DEF product
          <6>2. failed + 1 <= product + MaxAsync
            BY <1>1, <1>2, <6>1
          <6> QED BY <6>2 DEF product
        <5>3. failed' <= majorFails' * MaxAsync /\ failed' \in Nat
          BY <1>1, <1>4, <5>1, <5>2
        <5>4. majorFails' * MaxAsync \in Nat
          BY <1>1, <1>3, <5>1
        <5> HIDE DEF FailLimit
        <5> QED BY <1>6, <5>3, <5>4
      <4>2. CASE majorFails' = majorFails /\ error = "again"
        BY <1>1, <1>2, <1>3, <1>4, <1>5, <4>2
      <4>3. error = "again" \/ majorFails' = majorFails + 1
        BY <1>5, <2>1 DEF MayRetry, BecomesMajor
      <4> QED BY <1>5, <4>1, <4>2, <4>3
    <3> QED BY <3>1, <3>2, <3>3 DEF Accounted
  <2>2. CASE ~ (MayRetry(error) /\ ~ GivesUp)
    <3>1. call'.pc = "exit"
      BY <2>2 DEF RetryOrExit, Exit, TypeOK
    <3> QED BY <3>1 DEF Accounted, Running
  <2> QED BY <2>1, <2>2
<1>9. failed' <= FailLimit
  BY <1>1, <1>3, <1>4
<1> QED BY <1>1, <1>4, <1>6, <1>7, <1>8, <1>9

\* The next n bytes of the stream, written behind those that are there.
LEMMA StoredInOrder ==
  ASSUME NEW n \in Nat, total \in Nat, bytes = [i \in 1 .. total |-> i]
  PROVE  Stored(total, n) = [i \in 1 .. total + n |-> i]
<1>1. Len(bytes) = total
  OBVIOUS
<1>2. Stored(total, n) =
        [i \in 1 .. total + n |->
           IF i \in total + 1 .. total + n THEN total + i - total ELSE bytes[i]]
  BY <1>1 DEF Stored
<1>3. \A i \in 1 .. total + n :
        (IF i \in total + 1 .. total + n THEN total + i - total ELSE bytes[i]) = i
  OBVIOUS
<1> QED BY <1>2, <1>3

(***************************************************************************)
(* One lemma for each loop.                                                 *)
(***************************************************************************)
\* A function is called with fresh counters.
LEMMA BeginKeeps ==
  ASSUME IInv, NEW function \in Functions, NEW size \in Sizes, NEW dontWait \in BOOLEAN,
         Begin(function, size, dontWait)
  PROVE  IInv'
<1>1. /\ call' = [pc |-> "loop", function |-> function, size |-> size,
                  dontWait |-> dontWait]
      /\ total' = 0 /\ asyncFails' = 0 /\ majorFails' = 0 /\ closed' = FALSE
      /\ bytes' = <<>> /\ failed' = 0 /\ result' = result
  BY DEF Begin
<1>2. TypeOK'
  <2>1. call' \in [pc : {"idle", "loop", "exit"}, function : Functions,
                   size : {0} \cup Sizes, dontWait : BOOLEAN]
    BY <1>1
  <2>2. bytes' \in Seq(Nat)
    BY <1>1
  <2>3. {total', asyncFails', majorFails', failed'} \subseteq Nat
    BY <1>1
  <2>4. closed' \in BOOLEAN /\ result' \in [NoOfBytes : Nat, SocketClosed : BOOLEAN]
    BY <1>1, Zenon DEF IInv, TypeOK
  <2> QED BY <2>1, <2>2, <2>3, <2>4 DEF TypeOK
<1>3. MaxMajor \in Nat \ {0} /\ MaxAsync \in Nat \ {0}
  BY LimitsAssumption
<1>4. FailLimit \in Nat
  BY <1>3 DEF FailLimit
<1>5. Accounted' /\ FailuresBounded'
  BY <1>1, <1>3, <1>4 DEF Accounted, FailuresBounded
<1>6. Progress' /\ ReceivedInOrder'
  <2>1. <<>> = [i \in 1 .. 0 |-> i]
    OBVIOUS
  <2> QED BY <1>1, <2>1 DEF Progress, ReceivedInOrder
<1> QED BY <1>2, <1>5, <1>6 DEF IInv

\* sendRaw.
LEMMA SendTakesKeeps ==
  ASSUME IInv, NEW n \in 1 .. call.size, SendTakes(n) PROVE IInv'
<1>1. /\ call.function = "sendRaw" /\ total' = total + n
      /\ bytes' = bytes \o [i \in 1 .. n |-> i]
      /\ UNCHANGED <<call, asyncFails, majorFails, closed, failed, result>>
  BY DEF SendTakes, Is
<1>2. n \in Nat
  BY SizesAssumption DEF IInv, TypeOK
<1>3. bytes' \in Seq(Nat)
  <2>1. [i \in 1 .. n |-> i] \in Seq(Nat)
    BY <1>2
  <2> QED BY <1>1, <2>1 DEF IInv, TypeOK
<1>4. TypeOK'
  BY <1>1, <1>2, <1>3 DEF IInv, TypeOK
<1>5. /\ Accounted' /\ FailuresBounded' /\ Progress' /\ ReceivedInOrder'
  BY <1>1 DEF IInv, Accounted, FailuresBounded, Progress, ReceivedInOrder, Running,
              Fixed, Is
<1> QED BY <1>4, <1>5 DEF IInv

\* An attempt of a fixed transfer that failed.
LEMMA FailsKeeps ==
  ASSUME IInv, NEW error \in Errors, SendFails(error) \/ RecvFails(error) PROVE IInv'
<1>1. Running /\ Fixed /\ RetryOrExit(error) /\ UNCHANGED <<total, bytes, result>>
  BY DEF SendFails, RecvFails, Is, Fixed
<1>2. /\ {asyncFails', majorFails', failed'} \subseteq Nat /\ closed' \in BOOLEAN
      /\ call' \in {call, [call EXCEPT !.pc = "exit"]}
      /\ Accounted' /\ failed' <= FailLimit
  BY <1>1, RetryKeeps DEF IInv
<1>3. TypeOK'
  BY <1>1, <1>2 DEF IInv, TypeOK
<1>4. call'.function = call.function /\ call'.dontWait = call.dontWait
  BY <1>2 DEF IInv, TypeOK
<1>5. FailuresBounded' /\ Progress' /\ ReceivedInOrder'
  BY <1>1, <1>2, <1>4 DEF IInv, FailuresBounded, Progress, ReceivedInOrder, Is, Fixed
<1> QED BY <1>2, <1>3, <1>5 DEF IInv

\* recvFixedBytes.
LEMMA RecvGetsKeeps ==
  ASSUME IInv, NEW n \in 1 .. call.size, RecvGets(n) PROVE IInv'
<1>1. /\ Running /\ call.function = "recvFixedBytes" /\ total' = total + n
      /\ bytes' = Stored(total, n)
      /\ UNCHANGED <<asyncFails, majorFails, closed, failed, result>>
  BY DEF RecvGets, Is, WriteOffset
<1>2. call' \in {call, [call EXCEPT !.pc = "exit"]}
  BY DEF RecvGets, Exit
<1>3. n \in Nat /\ total \in Nat
  BY SizesAssumption DEF IInv, TypeOK
<1>4. bytes' = [i \in 1 .. total' |-> i] /\ total' \in Nat
  BY <1>1, <1>3, StoredInOrder DEF IInv, Progress
<1>5. bytes' \in Seq(Nat)
  BY <1>4
<1>6. TypeOK'
  <2>1. call' \in [pc : {"idle", "loop", "exit"}, function : Functions,
                   size : {0} \cup Sizes, dontWait : BOOLEAN]
    BY <1>2 DEF IInv, TypeOK
  <2>2. total' \in Nat
    BY <1>1, <1>3
  <2> QED BY <1>1, <1>5, <2>1, <2>2 DEF IInv, TypeOK
<1>7. /\ call'.function = call.function /\ call'.dontWait = call.dontWait
      /\ call'.pc \in {call.pc, "exit"}
  BY <1>2 DEF IInv, TypeOK
<1>8. Accounted' /\ FailuresBounded'
  BY <1>1, <1>7 DEF IInv, Accounted, FailuresBounded, Running, Fixed
<1>9. Progress' /\ ReceivedInOrder'
  BY <1>1, <1>7, <1>4 DEF Progress, ReceivedInOrder
<1> QED BY <1>6, <1>8, <1>9 DEF IInv

\* The peer closed, or the only attempt of a call that may wait failed.
LEMMA RecvStopsKeeps == ASSUME IInv, RecvEnds \/ RecvFailsWaiting PROVE IInv'
<1>1. /\ call.function = "recvFixedBytes" /\ call' = [call EXCEPT !.pc = "exit"]
      /\ total' \in {total, SizeMax} /\ (call.dontWait => total' = total)
      /\ UNCHANGED <<asyncFails, majorFails, closed, bytes, failed, result>>
  BY DEF RecvEnds, RecvFailsWaiting, Is, Exit, MinusOne
<1>2. TypeOK'
  BY <1>1, SizesAssumption DEF IInv, TypeOK
<1>3. /\ call'.function = call.function /\ call'.dontWait = call.dontWait
      /\ call'.pc = "exit"
  BY <1>1 DEF IInv, TypeOK
<1>4. /\ Accounted' /\ FailuresBounded' /\ Progress' /\ ReceivedInOrder'
  BY <1>1, <1>3 DEF IInv, Accounted, FailuresBounded, Progress, ReceivedInOrder,
                    Running, Fixed, Is
<1> QED BY <1>2, <1>4 DEF IInv

\* recvAsManyAsPossibleAsync.
LEMMA AsyncKeeps ==
  ASSUME IInv,
         \/ \E n \in 1 .. call.size : AsyncGets(n)
         \/ AsyncEnds \/ \E error \in Errors : AsyncFails(error)
  PROVE  IInv'
<1>1. /\ Is("recvAsync") /\ total = 0 /\ bytes = <<>>
      /\ call' \in {call, [call EXCEPT !.pc = "exit"]} /\ closed' \in BOOLEAN
      /\ UNCHANGED <<asyncFails, majorFails, failed, result>>
  <2>1. /\ Is("recvAsync") /\ call' \in {call, [call EXCEPT !.pc = "exit"]}
        /\ UNCHANGED <<asyncFails, majorFails, failed, result>>
    BY DEF AsyncGets, AsyncEnds, AsyncFails, Exit
  <2>2. closed' \in BOOLEAN
    BY DEF IInv, TypeOK, AsyncGets, AsyncEnds, AsyncFails
  <2>3. total = 0 /\ bytes = [i \in 1 .. 0 |-> i]
    BY <2>1 DEF IInv, Progress, Is
  <2>4. [i \in 1 .. 0 |-> i] = <<>>
    OBVIOUS
  <2> QED BY <2>1, <2>2, <2>3, <2>4
<1>2. /\ call'.function = "recvAsync" /\ call.function = "recvAsync"
      /\ call'.dontWait = call.dontWait
  BY <1>1 DEF IInv, TypeOK, Is
<1>3. Accounted' /\ FailuresBounded'
  BY <1>2 DEF Accounted, FailuresBounded, Fixed
<1>4. CASE UNCHANGED <<total, bytes>>
  <2>1. TypeOK'
    BY <1>1, <1>4 DEF IInv, TypeOK
  <2>2. bytes' = [i \in 1 .. total' |-> i] /\ total' = 0
    BY <1>1, <1>4 DEF IInv, Progress, Is
  <2>3. Progress' /\ ReceivedInOrder'
    BY <2>2 DEF Progress, ReceivedInOrder
  <2> QED BY <1>3, <2>1, <2>3 DEF IInv
<1>5. ASSUME NEW n \in 1 .. call.size, AsyncGets(n) PROVE IInv'
  <2>1. /\ n \in Nat /\ total' = n /\ bytes' = Stored(0, n)
        /\ call'.pc = "exit"
    BY <1>5, SizesAssumption DEF IInv, TypeOK, AsyncGets, Exit
  <2>2. bytes' = [i \in 1 .. n |-> i]
    <3>1. bytes = [i \in 1 .. total |-> i] /\ total \in Nat /\ total + n = n
      BY <1>1, <2>1
    <3> QED BY <1>1, <2>1, <3>1, StoredInOrder
  <2>3. bytes' \in Seq(Nat)
    BY <2>1, <2>2
  <2>4. TypeOK'
    BY <1>1, <2>1, <2>3 DEF IInv, TypeOK
  <2>5. Progress' /\ ReceivedInOrder'
    BY <2>1, <2>2 DEF Progress, ReceivedInOrder, Is, Running
  <2> QED BY <1>3, <2>4, <2>5 DEF IInv
<1> QED BY <1>4, <1>5 DEF AsyncEnds, AsyncFails

LEMMA ReturnKeeps == ASSUME IInv, Return PROVE IInv'
<1>1. /\ call' = [call EXCEPT !.pc = "idle"]
      /\ result' = [NoOfBytes |-> total, SocketClosed |-> closed]
      /\ UNCHANGED <<total, asyncFails, majorFails, closed, bytes, failed>>
  BY DEF Return
<1>2. TypeOK'
  BY <1>1 DEF IInv, TypeOK
<1>3. /\ call'.function = call.function /\ call'.dontWait = call.dontWait
      /\ call'.pc = "idle"
  BY <1>1 DEF IInv, TypeOK
<1>4. /\ Accounted' /\ FailuresBounded' /\ Progress' /\ ReceivedInOrder'
  BY <1>1, <1>3 DEF IInv, Accounted, FailuresBounded, Progress, ReceivedInOrder,
                    Running, Fixed, Is
<1> QED BY <1>2, <1>4 DEF IInv

(***************************************************************************)
(* The invariant and what follows from it.                                  *)
(***************************************************************************)
LEMMA InitIInv == Init => IInv
<1> SUFFICES ASSUME Init PROVE IInv
  OBVIOUS
<1>1. FailLimit \in Nat
  BY LimitsAssumption DEF FailLimit
<1>2. TypeOK
  <2>1. call \in [pc : {"idle", "loop", "exit"}, function : Functions,
                  size : {0} \cup Sizes, dontWait : BOOLEAN]
    BY DEF Init, Functions
  <2>2. bytes \in Seq(Nat)
    BY DEF Init
  <2>3. {total, asyncFails, majorFails, failed} \subseteq Nat
    BY DEF Init
  <2>4. closed \in BOOLEAN
    BY Zenon DEF Init
  <2>5. result \in [NoOfBytes : Nat, SocketClosed : BOOLEAN]
    <3>1. result = [NoOfBytes |-> 0, SocketClosed |-> FALSE] /\ 0 \in Nat
      BY DEF Init
    <3> QED BY <3>1
  <2> QED BY <2>1, <2>2, <2>3, <2>4, <2>5 DEF TypeOK
<1>3. Accounted /\ FailuresBounded /\ Progress
  BY <1>1 DEF Init, Accounted, FailuresBounded, Progress, Running, Is
<1>4. ReceivedInOrder
  BY DEF Init, ReceivedInOrder
<1> QED BY <1>2, <1>4, <1>3 DEF IInv

LEMMA NextIInv == IInv /\ [Next]_vars => IInv'
<1> SUFFICES ASSUME IInv, [Next]_vars PROVE IInv'
  OBVIOUS
<1>1. CASE \E function \in Functions, size \in Sizes, dontWait \in BOOLEAN :
             Begin(function, size, dontWait)
  BY <1>1, BeginKeeps
<1>2. CASE \E n \in 1 .. call.size : SendTakes(n)
  BY <1>2, SendTakesKeeps
<1>3. CASE \E n \in 1 .. call.size : RecvGets(n)
  BY <1>3, RecvGetsKeeps
<1>4. CASE \E error \in Errors : SendFails(error) \/ RecvFails(error)
  BY <1>4, FailsKeeps
<1>5. CASE RecvEnds \/ RecvFailsWaiting
  BY <1>5, RecvStopsKeeps
<1>6. CASE \/ \E n \in 1 .. call.size : AsyncGets(n)
           \/ AsyncEnds \/ \E error \in Errors : AsyncFails(error)
  BY <1>6, AsyncKeeps
<1>7. CASE Return
  BY <1>7, ReturnKeeps
<1>8. CASE UNCHANGED vars
  BY <1>8 DEF vars, IInv, TypeOK, Accounted, FailuresBounded, Progress,
              ReceivedInOrder, Running, Fixed
<1> QED BY <1>1, <1>2, <1>3, <1>4, <1>5, <1>6, <1>7, <1>8 DEF Next, Transfer

\* What the loops of TCP.hpp rely on between two system calls.
THEOREM Invariance == Spec => []IInv
  BY InitIInv, NextIInv, PTL DEF Spec

\* The counters of sendRaw and recvFixedBytes and their results keep their types.
THEOREM TypeCorrect == Spec => []TypeOK
<1>1. IInv => TypeOK
  BY DEF IInv
<1> QED BY Invariance, <1>1, PTL

\* HandleError ends sendRaw and recvFixedBytes after MaxMajor * MaxAsync failed
\* attempts at the latest, whatever errors come in whatever order.
THEOREM RetriesEnd == Spec => []FailuresBounded
<1>1. IInv => FailuresBounded
  BY DEF IInv
<1> QED BY Invariance, <1>1, PTL

\* recvFixedBytes and recvAsManyAsPossibleAsync put each byte where it belongs,
\* across retries and partial receives of any size.
THEOREM BytesInOrder == Spec => []ReceivedInOrder
<1>1. IInv => ReceivedInOrder
  BY DEF IInv
<1> QED BY Invariance, <1>1, PTL
=============================================================================
