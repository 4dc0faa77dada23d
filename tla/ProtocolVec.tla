---------------------------- MODULE ProtocolVec ----------------------------
(***************************************************************************)
(* The server as a whole (main.cxx): the vector of protocols with a polling *)
(* thread each, the balancer they share (module Priority), the acceptor,    *)
(* the health-check thread, and downCallback, which moves clients from the  *)
(* most to the least loaded protocol when others were closed. The build is  *)
(* the default one: PC_SWITCH_CLIENTS_BETWEEN_THREADS_BALANCE is defined,   *)
(* and each thread polls, executes and writes.                              *)
(*                                                                          *)
(* Packets are left to ServerLearnProtocol. What stays of them here is that *)
(* reading from a client stamps it, that a request or an empty packet resets *)
(* its flag, and that writing to a client that does not read blocks.        *)
(***************************************************************************)
EXTENDS Priority, FiniteSets

CONSTANTS
  Fds,       \* descriptors, numbered in the order the client maps iterate
  NoSocket,  \* -1 in the code, with its own place in that order
  Conns,     \* connections peers open, each at most once
  None       \* no connection

ASSUME FdsAssumption == Fds \subseteq Nat /\ IsFiniteSet(Fds)
ASSUME NoSocketAssumption == NoSocket \in Nat \ Fds
ASSUME NoneAssumption == None \notin Conns

VARIABLES
  fdOwner,         \* kernel: the connection behind each descriptor, or None
  conn,            \* kernel and peer: the state of each connection
  clientInfos,     \* of each protocol: its clients with terminateOnNextCycle
  ePollIn,         \* of each protocol: its interest list
  stamped,         \* of each protocol: sockets with an entry in mostRecentTimestamps
  packetsToWrite,  \* of each protocol: sockets a heartbeat is queued for
  poll,            \* of each protocol: its thread's program counter and locals
  callbackMutex,   \* the thread that holds the mutex of downCallback, or Count
  health,          \* execHealthCheck: the protocol it is at and its locals
  main,            \* the accept loop of main: program counter and child
  crashed          \* the process died of a dereferenced end()

balancerVars == <<sizes, minIdx, maxIdx, scan, chosen, closed>>
kernelVars == <<fdOwner, conn>>
clientVars == <<clientInfos, ePollIn, stamped>>
fleetVars == <<balancerVars, kernelVars, clientVars, packetsToWrite, poll,
               callbackMutex, health, main, crashed>>

Sockets == Fds \cup {NoSocket}

Registered(p) == DOMAIN clientInfos[p]

\* A polling thread holds its write lock over the whole of ClientInfos::close;
\* every other locked section is a single step here.
LockFreeOf(p) == poll[p].pc # "closing"

ShutDown(fds) ==
  [c \in Conns |-> IF \E f \in fds \cap Fds : fdOwner[f] = c THEN "over" ELSE conn[c]]

\* begin() of the unordered map: its bucket order is that of small numbers.
OldestIn(p) == CHOOSE f \in Registered(p) : \A g \in Registered(p) : f <= g

Kept(p, f) == clientInfos[p]
Without(p, f) == [g \in Registered(p) \ {f} |-> clientInfos[p][g]]

\* ClientInfos::insert, which keeps an entry that is there. EPoll::Add(-1) fails
\* and is ignored.
Inserted(p, f, flag) ==
  [clientInfos EXCEPT ![p] = [g \in Registered(p) \cup {f} |->
                                IF g \in Registered(p) THEN clientInfos[p][g] ELSE flag]]
WatchedEvenIfInvalid(p, f) == [ePollIn EXCEPT ![p] = @ \cup {f}]
WatchedUnlessElsewhere(p, f) ==
  IF \E q \in Indices : f \in ePollIn[q] THEN ePollIn
                                        ELSE [ePollIn EXCEPT ![p] = @ \cup {f}]
Watched(p, f) == [ePollIn EXCEPT ![p] = @ \cup ({f} \cap Fds)]

IdlePoll == [pc |-> "wait", hup |-> {}, in |-> {}, terminate |-> {}, writing |-> {},
             count |-> 0, prev |-> NoSocket, maxIdx |-> 0, minIdx |-> 0,
             moved |-> NoSocket, flag |-> FALSE]

FleetInit ==
  /\ Init
  /\ fdOwner = [f \in Fds |-> None]
  /\ conn = [c \in Conns |-> "new"]
  /\ clientInfos = [p \in Indices |-> [f \in {} |-> FALSE]]
  /\ ePollIn = [p \in Indices |-> {}]
  /\ stamped = [p \in Indices |-> {}]
  /\ packetsToWrite = [p \in Indices |-> {}]
  /\ poll = [p \in Indices |-> IdlePoll]
  /\ callbackMutex = Count
  /\ health = [at |-> 0, selected |-> {}]
  /\ main = [pc |-> "accept", child |-> NoSocket]
  /\ crashed = FALSE

(***************************************************************************)
(* Peers.                                                                   *)
(***************************************************************************)
\* A peer hangs: it sends nothing any more and does not read.
PeerStalls(c) ==
  /\ conn[c] = "open"
  /\ conn' = [conn EXCEPT ![c] = "stuck"]
  /\ UNCHANGED <<balancerVars, fdOwner, clientVars, packetsToWrite, poll,
                 callbackMutex, health, main, crashed>>

\* A peer closes its end of the connection, or dies.
PeerCloses(c) ==
  /\ conn[c] \in {"open", "stuck"}
  /\ conn' = [conn EXCEPT ![c] = "over"]
  /\ UNCHANGED <<balancerVars, fdOwner, clientVars, packetsToWrite, poll,
                 callbackMutex, health, main, crashed>>

(***************************************************************************)
(* The acceptor: accept, NextIndex, then ServerLearnProtocol::Add.          *)
(***************************************************************************)
Accept(c, f) ==
  /\ main.pc = "accept" /\ conn[c] = "new" /\ fdOwner[f] = None
  /\ fdOwner' = [fdOwner EXCEPT ![f] = c]
  /\ conn' = [conn EXCEPT ![c] = "open"]
  /\ main' = [pc |-> "next", child |-> f]
  /\ UNCHANGED <<balancerVars, clientVars, packetsToWrite, poll, callbackMutex,
                 health, crashed>>

AcceptorPicks ==
  /\ main.pc = "next" /\ NextIndex
  /\ main' = [main EXCEPT !.pc = "insert"]
  /\ UNCHANGED <<kernelVars, clientVars, packetsToWrite, poll, callbackMutex,
                 health, crashed>>

AcceptorInserts ==
  /\ main.pc = "insert" /\ LockFreeOf(chosen)
  /\ clientInfos' = Inserted(chosen, main.child, FALSE)
  /\ ePollIn' = Watched(chosen, main.child)
  /\ main' = [main EXCEPT !.pc = "inc"]
  /\ UNCHANGED <<balancerVars, kernelVars, stamped, packetsToWrite, poll,
                 callbackMutex, health, crashed>>

AcceptorCountsAnew ==
  /\ main.pc = "inc" /\ LockFree
  /\ sizes' = Increased(minIdx)
  /\ scan' = 0
  /\ chosen' = Count
  /\ stamped' = [stamped EXCEPT ![chosen] = @ \cup {main.child}]
  /\ main' = [pc |-> "accept", child |-> NoSocket]
  /\ UNCHANGED <<minIdx, maxIdx, closed, kernelVars, clientInfos, ePollIn,
                 packetsToWrite, poll, callbackMutex, health, crashed>>

\* incPriority, and updateSingle, which takes a lock that nothing else waits with.
AcceptorCounts ==
  /\ main.pc = "inc" /\ IncPriority
  /\ stamped' = [stamped EXCEPT ![chosen] = @ \cup {main.child}]
  /\ main' = [pc |-> "accept", child |-> NoSocket]
  /\ UNCHANGED <<kernelVars, clientInfos, ePollIn, packetsToWrite, poll,
                 callbackMutex, health, crashed>>

(***************************************************************************)
(* A polling thread: PollRead and CloseSocketConnections.                   *)
(***************************************************************************)
\* The loop head and ePollIn.Wait: whoever hung up is reported again and again,
\* and any client that is alive may have sent something. The interest list is
\* not the list of clients: it keeps those that were moved elsewhere.
PollWait(p) ==
  LET behind(f) == conn[fdOwner[f]]
  IN /\ poll[p].pc = "wait" /\ Registered(p) # {}
     /\ \E readable \in SUBSET {f \in ePollIn[p] : behind(f) = "open"} :
          poll' = [poll EXCEPT ![p].pc = "loop", ![p].in = readable,
                               ![p].hup = {f \in ePollIn[p] : behind(f) = "over"}]
     /\ UNCHANGED <<balancerVars, kernelVars, clientVars, packetsToWrite,
                    callbackMutex, health, main, crashed>>

\* What comes of a client that has input: its deadline was crossed and nothing is
\* read; a read fails, and the connection is shut down; or a packet is read: one
\* with a request, an empty one, or one of the set-up.
Outcomes == {"crossed", "fails", "Send", "Blank", "Setup"}

\* OnReadPoll, under the read lock. Requests wait to be executed, the replies of the
\* set-up to be written; only Send and Blank reset the flag.
PollLoop(p) ==
  LET known == (poll[p].in \ poll[p].hup) \cap Registered(p)
  IN /\ poll[p].pc = "loop"
     /\ \E outcome \in [known -> Outcomes] :
          LET having(kinds) == {f \in known : outcome[f] \in kinds}
              terminate == poll[p].hup \cup (poll[p].in \ Registered(p))
                             \cup having({"crossed", "fails"})
          IN /\ clientInfos' = [clientInfos EXCEPT ![p] =
                   [f \in Registered(p) |-> @[f] /\ f \notin having({"Send", "Blank"})]]
             /\ stamped' = [stamped EXCEPT ![p] = @ \cup having({"Send", "Blank", "Setup"})]
             /\ packetsToWrite' = [packetsToWrite EXCEPT ![p] = @ \cup having({"Setup"})]
             /\ conn' = ShutDown(having({"fails"}))
             /\ poll' = [poll EXCEPT ![p].hup = {}, ![p].in = {},
                                     ![p].terminate = terminate,
                                     ![p].writing = having({"Send"}),
                                     ![p].pc = IF terminate = {} THEN "work" ELSE "close"]
     /\ UNCHANGED <<balancerVars, fdOwner, ePollIn, callbackMutex, health, main, crashed>>

\* ClientInfos::close takes the write lock and drops the sockets it does not know;
\* with none left CloseSocketConnections returns.
PollClose(p) ==
  LET known == poll[p].terminate \cap Registered(p)
  IN /\ poll[p].pc = "close"
     /\ poll' = [poll EXCEPT ![p].pc = IF known = {} THEN "work" ELSE "closing",
                             ![p].terminate = known,
                             ![p].count = Cardinality(known)]
     /\ UNCHANGED <<balancerVars, kernelVars, clientVars, packetsToWrite,
                    callbackMutex, health, main, crashed>>

\* One turn of its loop: decPriority, erase, ::close. The kernel forgets the
\* descriptor in every interest list; the timestamps keep it.
CloseOne(p, f) ==
  /\ poll[p].pc = "closing" /\ f \in poll[p].terminate
  /\ DecPriority(p)
  /\ clientInfos' = [clientInfos EXCEPT ![p] = Without(p, f)]
  /\ ePollIn' = [q \in Indices |-> ePollIn[q] \ {f}]
  /\ conn' = [conn EXCEPT ![fdOwner[f]] = "gone"]
  /\ fdOwner' = [fdOwner EXCEPT ![f] = None]
  /\ poll' = [poll EXCEPT ![p].terminate = @ \ {f},
                          ![p].pc = IF poll[p].terminate = {f} THEN "callback" ELSE @]
  /\ UNCHANGED <<stamped, packetsToWrite, callbackMutex, health, main, crashed>>

(***************************************************************************)
(* downCallback(idx, count), by the thread that closed count clients.       *)
(***************************************************************************)
callbackFrame == <<kernelVars, packetsToWrite, health, main>>

\* A break: the guard gives the mutex back, and the thread goes on to execute.
Break(p) ==
  /\ callbackMutex' = Count
  /\ poll' = [poll EXCEPT ![p] = [IdlePoll EXCEPT !.pc = "work",
                                                  !.writing = poll[p].writing]]

GoesOn(p, pc) ==
  /\ poll' = [poll EXCEPT ![p].pc = pc]
  /\ UNCHANGED callbackMutex

CallbackEnter(p) ==
  /\ poll[p].pc = "callback" /\ callbackMutex = Count
  /\ callbackMutex' = p
  /\ poll' = [poll EXCEPT ![p].pc = "max"]
  /\ UNCHANGED <<balancerVars, clientVars, callbackFrame, crashed>>

\* balancer.MaxIndex(), and in another locked section balancer.NextIndex().
ReadMaxIndex(p) ==
  /\ poll[p].pc = "max" /\ LockFree
  /\ poll' = [poll EXCEPT ![p].pc = "min", ![p].maxIdx = maxIdx]
  /\ UNCHANGED <<balancerVars, clientVars, callbackMutex, callbackFrame, crashed>>

ReadMinIndex(p) ==
  /\ poll[p].pc = "min" /\ LockFree
  /\ IF poll[p].maxIdx = minIdx THEN Break(p)
       ELSE /\ poll' = [poll EXCEPT ![p].pc = "empty", ![p].minIdx = minIdx]
            /\ UNCHANGED callbackMutex
  /\ UNCHANGED <<balancerVars, clientVars, callbackFrame, crashed>>

CheckEmpty(p) ==
  /\ poll[p].pc = "empty" /\ LockFreeOf(poll[p].maxIdx)
  /\ IF Registered(poll[p].maxIdx) = {} THEN Break(p) ELSE GoesOn(p, "oldest")
  /\ UNCHANGED <<balancerVars, clientVars, callbackFrame, crashed>>

\* OldestSocket reads begin(); when the last client was closed meanwhile that is
\* end(), whose node pointer is no valid address.
LookAtOldest(p) ==
  LET from == poll[p].maxIdx
  IN /\ poll[p].pc = "oldest" /\ LockFreeOf(from)
     /\ crashed' = (Registered(from) = {})
     /\ IF Registered(from) # {} /\ OldestIn(from) = poll[p].prev
          THEN Break(p) ELSE GoesOn(p, "remove")
     /\ UNCHANGED <<balancerVars, clientVars, callbackFrame>>

\* RemoveOldestClientAndReturn; nobody left gives a client whose socket is -1.
RemoveOldest(p) ==
  LET from == poll[p].maxIdx
      found == Registered(from) # {}
      f == IF found THEN OldestIn(from) ELSE NoSocket
  IN /\ poll[p].pc = "remove" /\ LockFreeOf(from)
     /\ clientInfos' = [clientInfos EXCEPT ![from] = Without(from, f)]
     /\ poll' = [poll EXCEPT ![p].pc = "dec", ![p].prev = f, ![p].moved = f,
                             ![p].flag = found /\ clientInfos[from][f]]
     /\ UNCHANGED <<balancerVars, ePollIn, stamped, callbackMutex, callbackFrame,
                    crashed>>

DecMoved(p) ==
  /\ poll[p].pc = "dec" /\ DecPriority(poll[p].maxIdx)
  /\ GoesOn(p, "add")
  /\ UNCHANGED <<clientVars, callbackFrame, crashed>>

AddMovedAsNew(p) ==
  LET to == poll[p].minIdx
  IN /\ poll[p].pc = "add" /\ LockFreeOf(to)
     /\ clientInfos' = Inserted(to, poll[p].moved, FALSE)
     /\ ePollIn' = Watched(to, poll[p].moved)
     /\ GoesOn(p, "inc")
     /\ UNCHANGED <<balancerVars, stamped, callbackFrame, crashed>>

\* Add, with the client as it was; the old interest list and timestamps keep it too.
AddMoved(p) ==
  LET to == poll[p].minIdx
  IN /\ poll[p].pc = "add" /\ LockFreeOf(to)
     /\ clientInfos' = Inserted(to, poll[p].moved, poll[p].flag)
     /\ ePollIn' = Watched(to, poll[p].moved)
     /\ GoesOn(p, "inc")
     /\ UNCHANGED <<balancerVars, stamped, callbackFrame, crashed>>

\* The next turn of the loop, if there is one.
NextTurn(p) ==
  IF poll[p].count = 1 THEN Break(p)
  ELSE /\ callbackMutex' = Count
       /\ poll' = [poll EXCEPT ![p].pc = "callback", ![p].count = @ - 1,
                               ![p].moved = NoSocket, ![p].flag = FALSE]

\* incPriority and updateSingle, the last of Add.
StampMoved(p) ==
  /\ poll[p].pc = "inc"
  /\ stamped' = [stamped EXCEPT ![poll[p].minIdx] = @ \cup {poll[p].moved}]
  /\ NextTurn(p)
  /\ UNCHANGED <<clientInfos, ePollIn, callbackFrame, crashed>>

MovedUncounted(p) == StampMoved(p) /\ UNCHANGED balancerVars
CountMoved(p) == StampMoved(p) /\ IncPriorityMoved(poll[p].minIdx)

(***************************************************************************)
(* Execute and Write.                                                       *)
(***************************************************************************)
\* Execute gives up the requests when no client is left; all others are written,
\* and the heartbeats with them.
ExecuteAndGather(p) ==
  LET requests == IF Registered(p) = {} THEN {} ELSE poll[p].writing
      all == requests \cup packetsToWrite[p]
  IN /\ poll[p].pc = "work"
     /\ packetsToWrite' = [packetsToWrite EXCEPT ![p] = {}]
     /\ poll' = [poll EXCEPT ![p] = IF all = {} THEN IdlePoll
                                     ELSE [IdlePoll EXCEPT !.pc = "write", !.writing = all]]
     /\ UNCHANGED <<balancerVars, kernelVars, clientVars, callbackMutex, health,
                    main, crashed>>

\* send blocks as long as a peer does not read and nobody ends the connection.
Behind(f) == IF f \in Fds /\ fdOwner[f] # None THEN conn[fdOwner[f]] ELSE "gone"

WriteReturns(p) ==
  /\ poll[p].pc = "write" /\ \A f \in poll[p].writing : Behind(f) # "stuck"
  /\ poll' = [poll EXCEPT ![p] = IdlePoll]
  /\ UNCHANGED <<balancerVars, kernelVars, clientVars, packetsToWrite,
                 callbackMutex, health, main, crashed>>

\* A failure makes Write return before it comes to one that would block.
WriteFails(p) ==
  /\ poll[p].pc = "write" /\ \E f \in poll[p].writing : Behind(f) \in {"over", "gone"}
  /\ poll' = [poll EXCEPT ![p] = IdlePoll]
  /\ UNCHANGED <<balancerVars, kernelVars, clientVars, packetsToWrite,
                 callbackMutex, health, main, crashed>>

(***************************************************************************)
(* execHealthCheck, over all protocols in turn.                             *)
(***************************************************************************)
healthFrame == <<balancerVars, fdOwner, ePollIn, stamped, poll, callbackMutex,
                 main, crashed>>

\* ExecHealthCheck of the next protocol, in one step here. Which entries are old is
\* up to the time. A client that was not told yet is told and kept out; one that
\* was told is shut down; one that is not among the clients stays selected, too.
HealthChecks(old) ==
  LET p == health.at
      told == {f \in old \cap Registered(p) : clientInfos[p][f]}
      warned == (old \cap Registered(p)) \ told
  IN /\ health.at < Count /\ old \subseteq stamped[p] /\ LockFreeOf(p)
     /\ clientInfos' = [clientInfos EXCEPT ![p] =
                          [f \in Registered(p) |-> @[f] \/ f \in warned]]
     /\ conn' = ShutDown(told)
     /\ packetsToWrite' = [packetsToWrite EXCEPT ![p] = @ \cup warned]
     /\ health' = [at |-> health.at + 1, selected |-> health.selected \cup (old \ warned)]
     /\ UNCHANGED healthFrame

\* CloseSockets
HealthCloses ==
  /\ health.at = Count
  /\ conn' = ShutDown(health.selected)
  /\ health' = [at |-> 0, selected |-> {}]
  /\ UNCHANGED <<clientInfos, packetsToWrite, healthFrame>>

(***************************************************************************)
(* The specification.                                                       *)
(***************************************************************************)
AcceptorStep == AcceptorPicks \/ AcceptorInserts \/ AcceptorCounts

\* The loop of SetMinMaxIdx, whoever holds the balancer's lock.
ScanStep == /\ Scan
            /\ UNCHANGED <<kernelVars, clientVars, packetsToWrite, poll,
                           callbackMutex, health, main, crashed>>

CallbackStep(p) ==
  \/ CallbackEnter(p) \/ ReadMaxIndex(p) \/ ReadMinIndex(p) \/ CheckEmpty(p)
  \/ LookAtOldest(p) \/ RemoveOldest(p) \/ DecMoved(p) \/ AddMoved(p) \/ CountMoved(p)

PollStep(p) ==
  \/ PollWait(p) \/ PollLoop(p) \/ PollClose(p) \/ \E f \in Fds : CloseOne(p, f)
  \/ CallbackStep(p) \/ ExecuteAndGather(p) \/ WriteReturns(p)

HealthStep ==
  HealthCloses \/ \E old \in SUBSET Sockets : HealthChecks(old)

PeerStep == \E c \in Conns : \/ PeerStalls(c) \/ PeerCloses(c)
                             \/ \E f \in Fds : Accept(c, f)

\* Nothing happens any more in a process that died.
Dead == crashed /\ UNCHANGED fleetVars

FleetNext ==
  \/ ~ crashed /\ (\/ PeerStep \/ AcceptorStep \/ ScanStep \/ HealthStep
                   \/ \E p \in Indices : PollStep(p) \/ WriteFails(p))
  \/ Dead

FleetSpec == FleetInit /\ [][FleetNext]_fleetVars

(***************************************************************************)
(* Properties.                                                              *)
(***************************************************************************)
\* Every variable holds a value of the type its declaration in the code gives it.
FleetTypeOK ==
  /\ fdOwner \in [Fds -> Conns \cup {None}]
  /\ conn \in [Conns -> {"new", "open", "stuck", "over", "gone"}]
  /\ \A p \in Indices : /\ Registered(p) \subseteq Sockets
                        /\ clientInfos[p] \in [Registered(p) -> BOOLEAN]
  /\ ePollIn \in [Indices -> SUBSET Fds]
  /\ stamped \in [Indices -> SUBSET Sockets]
  /\ packetsToWrite \in [Indices -> SUBSET Sockets]
  /\ poll \in [Indices ->
       [pc : {"wait", "loop", "close", "closing", "callback", "max", "min", "empty",
              "oldest", "remove", "dec", "add", "inc", "work", "write"},
        hup : SUBSET Fds, in : SUBSET Fds, terminate : SUBSET Fds,
        writing : SUBSET Sockets, count : 0 .. Cardinality(Fds), prev : Sockets,
        maxIdx : Indices, minIdx : Indices, moved : Sockets, flag : BOOLEAN]]
  /\ callbackMutex \in 0 .. Count
  /\ health \in [at : 0 .. Count, selected : SUBSET Sockets]
  /\ main \in [pc : {"accept", "next", "insert", "inc"}, child : Sockets]
  /\ crashed \in BOOLEAN

\* A client on its way from one protocol to another.
InTransit(p) == poll[p].pc \in {"dec", "add"}

\* Every open descriptor is in exactly one place: a client of one protocol, in the
\* hands of the acceptor or in those of a thread that moves it. Nothing is
\* registered twice, lost between two protocols, or registered and closed.
OneHome ==
  \A f \in Fds :
    LET homes == {p \in Indices : f \in Registered(p)}
        movers == {p \in Indices : InTransit(p) /\ poll[p].moved = f}
        child == {i \in {Count} : main.pc \in {"next", "insert"} /\ main.child = f}
    IN Cardinality(homes) + Cardinality(movers) + Cardinality(child)
         = IF fdOwner[f] = None THEN 0 ELSE 1

\* A thread sees the events of all its clients, although moving a client leaves it
\* in the interest list of the old protocol and closing takes it out of all.
ClientsPolled == \A p \in Indices : Registered(p) \cap Fds \subseteq ePollIn[p]

\* A thread was told that f is readable, and reads from it.
ReadFrom(f) ==
  \E p \in Indices : /\ poll[p].pc = "loop" /\ poll'[p].pc # "loop"
                     /\ f \in poll[p].in \ poll'[p].terminate

\* The health check has marked the client, wherever it is.
Warned(f) ==
  \/ \E p \in Indices : f \in Registered(p) /\ clientInfos[p][f]
  \/ \E p \in Indices : InTransit(p) /\ poll[p].moved = f /\ poll[p].flag

\* A client that was warned stays warned on its way to another protocol and there,
\* until a thread reads from it: moving a client that hangs does not save it, nor does
\* an event that a thread was told of before and makes nothing of.
WarningKept ==
  [][\A f \in Fds :
       Warned(f) /\ fdOwner'[f] = fdOwner[f] => Warned(f)' \/ ReadFrom(f)]_fleetVars

\* The balancer never shows less load than there are clients, counted over all
\* protocols: a client is taken off one load only to be counted on another, and
\* a refused decPriority errs on the other side. Per protocol it does not hold.
LoadCoversFleet ==
  LET clients == {r \in Indices \X Fds : r[2] \in Registered(r[1])}
      load == UNION {{p} \X (1 .. sizes[p]) : p \in Indices}
      onTheWay == Cardinality({p \in Indices : poll[p].pc \in {"add", "inc"}})
                    + IF main.pc = "inc" THEN 1 ELSE 0
  IN Weight * Cardinality(clients) <= Cardinality(load) + Weight * onTheWay

\* What the fleet does to the balancer is what Priority says may be done to it, so
\* that its theorems hold here.
ImplementsPriority == Spec

\* The health check ends only connections whose client it had told so in an
\* earlier cycle: a socket it does not know is ignored, as "By terminating now /
\* We effectively ignore this" says (ClientInfos.hpp:152-153).
UnknownSocketsIgnored ==
  [][\A c \in Conns :
       /\ health # health' /\ conn[c] \in {"open", "stuck"} /\ conn'[c] = "over"
       => \E p \in Indices : \E f \in Registered(p) \cap Fds :
            fdOwner[f] = c /\ clientInfos[p][f]]_fleetVars
=============================================================================
