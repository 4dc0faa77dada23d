--------------------------- MODULE MCServerBuilds ---------------------------
(***************************************************************************)
(* Both threading builds of ServerLearnProtocol in one instance: which one  *)
(* runs is chosen at the start and never changes. The module that is        *)
(* extended is the build with one thread (SeparateExec = FALSE in the       *)
(* configuration). The fairness is that of the threads.                     *)
(***************************************************************************)
EXTENDS ServerLearnProtocol

VARIABLE separate  \* whether the build defines PC_SEPARATE_POLL_EXEC_WRITE

Separate == INSTANCE ServerLearnProtocol WITH SeparateExec <- TRUE

buildVars == <<vars, separate>>

BuildInit == Init /\ separate \in BOOLEAN

BuildNext == /\ IF separate THEN Separate!Next ELSE Next
             /\ UNCHANGED separate

\* A step of one of the builds, where the builds differ.
Only(build, step) == separate = build /\ step /\ UNCHANGED separate

BuildExecStep == Only(FALSE, ExecStep) \/ Only(TRUE, Separate!ExecStep)
BuildPollStep == Only(FALSE, PollStep) \/ Only(TRUE, Separate!PollStep)

\* ... and where they do not.
Either(step) == step /\ UNCHANGED separate

\* The threads of the data path move on, and so does a health check that holds
\* the lock. SF is for the steps that wait for the write lock, which readers hold
\* only now and then.
DataPathSpec == /\ BuildInit /\ [][BuildNext]_buildVars
                /\ WF_buildVars(BuildExecStep) /\ WF_buildVars(Either(HealthMark))
                /\ SF_buildVars(BuildPollStep) /\ SF_buildVars(Either(AddStep))

\* Besides, time passes and the health check wakes up every ten seconds.
HealthFairness == /\ WF_buildVars(Either(HealthStep))
                  /\ \A f \in Fds : WF_buildVars(Either(TimePasses(f)))

(***************************************************************************)
(* Properties, of either build, that need the health check.                 *)
(***************************************************************************)
\* With the health check, every connection is closed in the end, with no help
\* from its peer: silent clients are found, warned, shut down and closed.
HealthCheckReaps == HealthFairness => EveryConnectionReaped

\* With the health check, no peer that does not read blocks Write for ever, even
\* when the thread that blocks is the one that polls.
HealthCheckReleases == HealthFairness => BlockedSendReleased
=============================================================================
