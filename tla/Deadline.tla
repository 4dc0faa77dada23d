------------------------------ MODULE Deadline ------------------------------
(***************************************************************************)
(* pc::deadliner::Deadline over pc::queue, a ring of the times of the last  *)
(* packets. The clock is read inside the lock by increment, but before the  *)
(* lock is taken by the two questions, so that increments come in between.  *)
(* A build with assertions aborts when the time it read is then too old.    *)
(***************************************************************************)
EXTENDS Integers, Sequences, FiniteSets

CONSTANTS
  MaxCount,            \* maxCount at construction
  MaxTime,             \* Deadline::maxTime
  MaxHealthCheckTime,  \* Deadline::maxHealthCheckTime
  Resizes,             \* arguments MaxCount(newMaxCount) is called with
  MaxTicks,            \* bound: how often the clock moves on
  MaxStamps            \* bound: calls of increment

ASSUME CountAssumption == MaxCount \in Nat \ {0} /\ Resizes \subseteq Nat \ {0}
ASSUME TimeAssumption == MaxTime \in Nat /\ MaxHealthCheckTime \in Nat
ASSUME BoundAssumption == MaxTicks \in Nat /\ MaxStamps \in Nat

VARIABLES
  items,     \* queue::items, indexed from 0
  front,     \* queue::front
  rear,      \* queue::rear
  maxCount,  \* queue::maxCount
  clock,     \* timer::now
  stamps,    \* ghost: every time increment stored
  call,      \* the question a thread is about to have answered, and curTime
  answer,    \* what the last question returned
  asserts,   \* whether the build defines no NDEBUG; it never changes
  aborted    \* an assertion failed: the process is gone

ringVars == <<items, front, rear, maxCount>>
buildVars == <<asserts, aborted>>
vars == <<items, front, rear, maxCount, clock, stamps, call, answer, asserts, aborted>>

\* The value of a default-constructed timespec, long before the program runs.
Epoch == 0
Start == MaxTime + MaxHealthCheckTime + 1

Resized(size) ==
  [i \in 0 .. size - 1 |-> IF i \in DOMAIN items THEN items[i] ELSE Epoch]

\* operator bool of the queue
FullUnlessWrapped == front = 0 /\ rear = maxCount - 1
Full == \/ front = 0 /\ rear = maxCount - 1
        \/ front = rear + 1

First == items[front]
Last == items[rear]

Init ==
  /\ items = [i \in 0 .. MaxCount - 1 |-> Epoch]
  /\ front = -1 /\ rear = -1 /\ maxCount = MaxCount
  /\ clock = Start
  /\ stamps = <<>>
  /\ call = [question |-> "none", at |-> 0]
  /\ answer = FALSE
  /\ asserts \in BOOLEAN /\ aborted = FALSE

Tick == /\ clock < Start + MaxTicks
        /\ clock' = clock + 1
        /\ UNCHANGED <<ringVars, stamps, call, answer, buildVars>>

(***************************************************************************)
(* increment: a full ring gives up its first entry.                         *)
(***************************************************************************)
FrontAfterAdd == IF Full THEN (front + 1) % maxCount
                 ELSE IF front = -1 THEN 0 ELSE front

RearRunsOn == rear + 1
RearAfterAdd == (rear + 1) % maxCount

Increment ==
  /\ Len(stamps) < MaxStamps
  /\ front' = FrontAfterAdd
  /\ rear' = RearAfterAdd
  /\ items' = [items EXCEPT ![RearAfterAdd] = clock]
  /\ stamps' = Append(stamps, clock)
  /\ UNCHANGED <<maxCount, clock, call, answer, buildVars>>

(***************************************************************************)
(* operator bool and HealthCheckNeeded: the clock, then the lock.           *)
(***************************************************************************)
ReadClock(question) ==
  /\ call.question = "none"
  /\ call' = [question |-> question, at |-> clock]
  /\ UNCHANGED <<ringVars, clock, stamps, answer, buildVars>>

Breaches == Full /\ call.at - First <= MaxTime

Silent == rear # -1 /\ call.at - Last > MaxHealthCheckTime

\* assert(curTime > ...): operator> of timer.hpp is true of equal times.
BreachAsserted == Full => call.at >= First
SilenceAsserted == rear # -1 => call.at >= Last

Answered == call' = [question |-> "none", at |-> 0]
            /\ UNCHANGED <<ringVars, clock, stamps, buildVars>>

AnswerBreach == /\ call.question = "breach"
                /\ asserts => BreachAsserted
                /\ answer' = Breaches
                /\ Answered

AnswerSilence == /\ call.question = "silence"
                 /\ asserts => SilenceAsserted
                 /\ answer' = Silent
                 /\ Answered

Abort == /\ asserts
         /\ \/ call.question = "breach" /\ ~ BreachAsserted
            \/ call.question = "silence" /\ ~ SilenceAsserted
         /\ aborted' = TRUE
         /\ UNCHANGED <<ringVars, clock, stamps, call, answer, asserts>>

(***************************************************************************)
(* MaxCount(newMaxCount)                                                    *)
(***************************************************************************)
\* The copying loop runs from front up to, and without, rear.
Unwrapped(size) ==
  LET copied == (rear - front) % maxCount
  IN [j \in 0 .. size - 1 |-> IF j < copied THEN items[(front + j) % maxCount]
                                            ELSE Epoch]

\* A ring that goes around is laid out from 0; another is resized as it is.
GrowInPlace(size) == maxCount < size /\ UNCHANGED <<items, front, rear>>
Grow(size) ==
  /\ maxCount < size
  /\ IF front > rear
       THEN items' = Unwrapped(size) /\ front' = 0 /\ rear' = maxCount
       ELSE items' = Resized(size) /\ UNCHANGED <<front, rear>>

\* A smaller ring keeps its storage and its indices.
Shrink(size) == size < maxCount /\ UNCHANGED <<items, front, rear>>

\* Bound: the limit is changed once.
ChangeMaxCount(size) ==
  /\ maxCount = MaxCount
  /\ Grow(size) \/ Shrink(size)
  /\ maxCount' = size
  /\ UNCHANGED <<clock, stamps, call, answer, buildVars>>

Step == \/ Tick \/ Increment \/ AnswerBreach \/ AnswerSilence \/ Abort
        \/ \E question \in {"breach", "silence"} : ReadClock(question)
        \/ \E size \in Resizes : ChangeMaxCount(size)

\* Nothing happens any more in a process that aborted.
Dead == aborted /\ UNCHANGED vars

Next == (~ aborted /\ Step) \/ Dead

Spec == Init /\ [][Next]_vars

(***************************************************************************)
(* Properties.                                                              *)
(***************************************************************************)
Times == {Epoch} \cup Start .. Start + MaxTicks

\* The members of queue and Deadline hold values of their types.
TypeOK ==
  /\ \E size \in {MaxCount} \cup Resizes : items \in [0 .. size - 1 -> Times]
  /\ {front, rear} \subseteq {-1} \cup DOMAIN items
  /\ maxCount \in {MaxCount} \cup Resizes
  /\ clock \in Start .. Start + MaxTicks
  /\ stamps \in Seq(Times)
  /\ call \in [question : {"none", "breach", "silence"}, at : {0} \cup Times]
  /\ {answer, asserts, aborted} \subseteq BOOLEAN

\* The ring answers as if it remembered every packet: operator bool is true
\* exactly when maxCount packets came within maxTime of the question, and
\* HealthCheckNeeded exactly when the last one is older than maxHealthCheckTime.
\* Increments that come between reading the clock and the lock make no answer
\* wrong, but a build with assertions aborts exactly when the last packet
\* (HealthCheckNeeded) or the last maxCount packets (operator bool) are later than
\* the time that was read (Deadline.hpp:96 and 110).
\* Once the limit was changed it still never limits too early, or by one packet.
Window == INSTANCE RateWindow WITH limit <- maxCount
ImplementsWindow == Window!Spec

\* Add, First and Last never leave the storage (vector::operator[] does not
\* check), although changing the limit leaves the indices where they are or moves
\* them beyond what was copied.
IndicesInBounds ==
  /\ front # -1 => front \in DOMAIN items
  /\ rear # -1 => rear \in DOMAIN items
  /\ (rear + 1) % maxCount \in DOMAIN items
=============================================================================
