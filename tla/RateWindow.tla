----------------------------- MODULE RateWindow -----------------------------
(***************************************************************************)
(* What a Deadline promises, whatever it stores: it remembers when packets  *)
(* came, and tells whether limit of them came within MaxTime and whether    *)
(* the last of them came more than MaxHealthCheckTime ago. Its answers are  *)
(* exact until the limit is changed, and one-sided after that. With         *)
(* assertions it stops when packets overtook a question.                    *)
(***************************************************************************)
EXTENDS Integers, Sequences, FiniteSets

CONSTANTS MaxCount, MaxTime, MaxHealthCheckTime

VARIABLES
  clock,   \* the time
  stamps,  \* when packets came
  limit,   \* how many packets are too many, at first MaxCount
  call,    \* the question being answered and the time it was asked at
  answer,  \* the last answer given
  asserts, \* whether there are assertions
  aborted  \* whether one of them failed

buildVars == <<asserts, aborted>>
vars == <<clock, stamps, limit, call, answer, asserts, aborted>>

\* The packets that are at most age old at the time of the call.
Within(age) == {i \in DOMAIN stamps : call.at - stamps[i] <= age}

TooMany(n) == Cardinality(Within(MaxTime)) >= n

\* n packets are later than the time the question was asked at.
Overtaken(n) == Cardinality(Within(-1)) >= n

SilentTooLong == stamps # <<>> /\ Within(MaxHealthCheckTime) = {}

Init == /\ clock \in Nat
        /\ stamps = <<>>
        /\ limit = MaxCount
        /\ call = [question |-> "none", at |-> 0]
        /\ answer = FALSE
        /\ asserts \in BOOLEAN /\ aborted = FALSE

Tick == clock' = clock + 1 /\ UNCHANGED <<stamps, limit, call, answer, buildVars>>

Record == /\ stamps' = Append(stamps, clock)
          /\ UNCHANGED <<clock, limit, call, answer, buildVars>>

Change == limit' \in Nat \ {0} /\ UNCHANGED <<clock, stamps, call, answer, buildVars>>

Ask(question) ==
  /\ call.question = "none"
  /\ call' = [question |-> question, at |-> clock]
  /\ UNCHANGED <<clock, stamps, limit, answer, buildVars>>

\* A smaller limit never makes a breach of fewer packets than it says; a larger
\* one may count a packet that never came.
ReplyBreach ==
  /\ call.question = "breach"
  /\ answer' \in BOOLEAN
  /\ limit = MaxCount => /\ answer' = TooMany(limit)
                         /\ ~ (asserts /\ Overtaken(limit))
  /\ limit < MaxCount => (answer' => TooMany(limit))
  /\ limit > MaxCount => (answer' => TooMany(limit - 1))

\* A larger limit may forget the last packet.
ReplySilence ==
  /\ call.question = "silence"
  /\ answer' \in BOOLEAN
  /\ limit <= MaxCount => /\ answer' = SilentTooLong
                          /\ ~ (asserts /\ Overtaken(1))
  /\ limit > MaxCount => (SilentTooLong => answer')

Reply == /\ ReplyBreach \/ ReplySilence
         /\ call' = [question |-> "none", at |-> 0]
         /\ UNCHANGED <<clock, stamps, limit, buildVars>>

\* Nobody answers a question that was overtaken, where there are assertions.
Stop == /\ asserts
        /\ \/ call.question = "breach" /\ Overtaken(IF limit > MaxCount THEN limit - 1 ELSE limit)
           \/ call.question = "silence" /\ Overtaken(1)
        /\ aborted' = TRUE
        /\ UNCHANGED <<clock, stamps, limit, call, answer, asserts>>

Next == /\ ~ aborted
        /\ \/ Tick \/ Record \/ Change \/ Reply \/ Stop
           \/ \E question \in {"breach", "silence"} : Ask(question)

Spec == Init /\ [][Next]_vars
=============================================================================
