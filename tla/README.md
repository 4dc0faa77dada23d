# A verification of TCP-UDP-Raw-Linux-Socket

TLA+ models of the polling TCP server of this repository (`src/`), the TLC runs
that check them on small instances, and proofs, checked by TLAPS, that hold for
every size. Lines are given as `file:line` below `src/`.

* [1. The system](#1-the-system): parts, state, interaction, what is hard
* [2. The modules](#2-the-modules): how definitions correspond to the code
* [3. The runs](#3-the-runs): what each one shows, with which bounds
* [4. Fairness](#4-fairness)
* [5. The proofs](#5-the-proofs)
* [6. Where code and comments differ](#6-where-code-and-comments-differ)
* [7. What is not modelled](#7-what-is-not-modelled)
* [8. The plan](#8-the-plan)

## 1. The system

The repository is a header-only C++98 library (`deadliner`, `loadbalancer`,
`memory`, `network`, `orderedhashset`, `poll`, `protocol`, `queue`, `threads`,
`timer`, `profiler`, `lexical_cast`, `templates`, `pqpp`) and samples. The program
that puts the parts together is the polling server, `sample/poll/server`, with
its counterpart `sample/poll/client`. It has no tests and no prose documentation;
what it promises is in its comments and assertions.

| Part | State | Operations | Correct when |
|---|---|---|---|
| Server data path (`ClientInfos`, `ServerLearnProtocol`, `main.cxx`) | clients by descriptor, the epoll set, the lists of packets read and to write | `insert`, `Update`, `PollRead`, `Execute`, `Write`, `close`, `ExecHealthCheck`, `CloseSockets` | descriptors do not leak and are not closed twice; an answer reaches who asked, in order, and only after the callback ran; dead clients are got rid of |
| Rate limit (`Deadline`, `queue`) | a ring of times | `increment`, `operator bool`, `HealthCheckNeeded`, `MaxCount` | it answers as if it remembered every packet |
| Timestamps (`MostRecentTimestamps`, `OrderedHashSet`) | a list of (socket, second), a mapper | `updateFor`, `updateSingle`, `remove`, `getSocketsLessThanTimestamp` | silent sockets are selected, others and closed ones are not |
| Load balancer (`priority`) | loads, least and most loaded index | `NextIndex`, `incPriority`, `decPriority` | the indices are extreme, the loads balanced, no load shows less than its clients |
| TCP transfers (`TCP`, `Result`) | counters of one call | `sendRaw`, `recvFixedBytes`, `recvAsManyAsPossibleAsync`, `HandleError` | a call ends, moves each byte once and in order, and reports what it did |
| Packets (`Packet`, `Commands`, `Buffer`) | bytes and an offset | marshalling, reading | what is written is read back |
| Fleet (`main.cxx`: the vector of protocols) | the protocols, who is registered where, who is on the way | accepting, `downCallback`, `execHealthCheck` | every client is in exactly one place and its events are seen there; loads cover the clients |
| Client (`ClientLearnProtocol`) | a deadline | `SetupConnection`, `Read`, `Write`, the two loops of the sample | set-up ends, heartbeats are answered, answers come, the program returns |
| Locks and threads | | guards, condition variable, `Atomic` | mutual exclusion, no lost wake-up |
| Database, addresses, UDP, utilities | little or none | | |

**Interaction.** `main` accepts a connection, asks the balancer for the least
loaded protocol and calls `Add`. Each protocol has a thread `PollAndRead` that
waits for events, reads packets into `packetsToRead`, closes connections that
ended, and, unless `PC_SEPARATE_POLL_EXEC_WRITE` gives that to another thread,
calls `Execute` (which runs the callback on `packetsToRead` and moves the result
to `packetsToWrite`) and `Write`. A health-check thread wakes up every ten
seconds, selects sockets whose time stamp is old, sends a heartbeat to those it
sees for the first time, and shuts down those that were told before and have not
sent anything since. When a polling thread closed clients it calls `downCallback`,
which takes as many clients from the most loaded protocol and adds them to the
least loaded one. The threads share the client map under a read-write lock,
the lists under locks of their own, and descriptors: plain integers that the
kernel gives away again as soon as `::close` returned. The client sets its
connection up, writes until a write fails, and then reads, answering heartbeats,
until the connection is over.

**What is hard.** Between reading a descriptor from a list and using it the
descriptor may be closed and reused. The read lock does not exclude two readers,
and both `OnReadPoll` and the health check write to a client's record under it.
Clocks are read before locks are taken. A send blocks, a receive sleeps and
retries, both while others wait. A failed send ends a batch that holds the
answers of others. `OrderedHashSet` never removes anything. The list
`hazards` of `PROJECT.json` names each of these at its line, with the properties
that watch it, or why none does.

**The builds.** `sample/poll/server/CMakeLists.txt:38-46` and the sources know
several switches. The models take `PC_SEPARATE_POLL_EXEC_WRITE` (constant
`SeparateExec`) and `PC_OPTIMIZE_READ_MULTIPLE_SINGLE_SHOT` (constant
`MultiShot`) as parameters and assume the real network
(no `PC_NETWORK_MOCK`) and no database. Whether the lock is a mutex or a spin
lock makes no difference to them.

## 2. The modules

### `ServerLearnProtocol`: one protocol, all its threads

The module has the kernel (which connection is behind a descriptor, what is in
flight), the peers, and four threads with a program counter each. Steps are as
large as a lock lets them be: what happens under the write lock is one action,
what happens under the read lock is as many actions as a concurrent reader
could tell apart.

| Action | Code |
|---|---|
| `PeerSend`, `PeerReceive`, `PeerClose`, `TimePasses` | the environment |
| `Accept` | `server.accept()`, `main.cxx:205-220`; any free descriptor, a connection never twice |
| `Insert`, `IncPriority`, `UpdateSingle` | the three calls of `ServerLearnProtocol::Add`, each under its own lock |
| `PollUpdate` | loop head of `PollAndRead` and `ClientInfos::Update` |
| `PollWait` | `epoll_wait`, outside every lock, with at most `pollInEvents.size()` events |
| `EventTerminates`, `EventReads` | one turn of `OnReadPoll`'s loop over the events, which the kernel returns in any order |
| `ReadPacket`, `ReadFails` | one turn of `ReadForSingleSocket`'s loop |
| `PollFinish` | the lock released, `readList` spliced, `updateFor` |
| `PollClose` | `CloseSocketConnections`, with `ClientInfos::close` and `decPriority` |
| `ExecTake`, `ExecRun` | `Execute`: take `packetsToRead`, run the callback under the read lock, splice |
| `WriteGather`, `WriteSends`, `WriteFails` | `Write`: take `packetsToWrite`, then send packet by packet without a lock |
| `HealthSelect` ... `HealthWarn` | `ExecHealthCheck`; the flag `terminateOnNextCycle` is read in one step (`HealthCondemns`, `HealthSpares`) and set in another (`HealthMark`), as in the code |
| `HealthClose` | `CloseSockets`, after everything was decided and without a lock |

Abstractions. A packet is a command with ghost fields: the connection it came
from, its number, and whether the callback ran; the code's packet carries a
descriptor only, and the ghosts are there for the properties alone. A `Deadline`
is reduced to how many packets it holds (the ring is exactly a window over them,
`Deadline` shows): a full one breaches, since whether its first entry is recent
is up to time, and every packet that fills it may be too many. The time stamps
are reduced to the sets `stamped` and `expired`, which only grow. That is what the
list does, though not what its comments say (section 6): the mapper of
`MostRecentTimestamps` stays empty, so nothing is taken away, and the lemmas
`StampsStay` and `ExpiredStays` of `MostRecentTimestamps_proofs` follow. `"PART"` stands for a packet whose header
arrives and whose body does not: `recvFixedBytes` retries, gives up, and the
socket is shut down. The balancer is one number, in units of one client, as
there is one protocol here; several, and `downCallback`, are in `ProtocolVec`.

`MCServerBuilds` has both threading builds in one instance: a variable says which
one was compiled, is chosen at the start and never changes, and the steps are those of the
module, with `SeparateExec` set to `FALSE`, or of an instance of it with `TRUE`. What either
build must do in the end is stated once for both.

### `ProtocolVec`: all protocols, the balancer and the acceptor

It extends `Priority`, so that every step that touches a load is a step of that
module, and adds what the server does around it. Each polling thread and the
acceptor has a program counter; every locked section of the code is a step.

| Action | Code |
|---|---|
| `PeerStalls`, `PeerCloses` | the environment: a peer that stops reading and writing, one that closes |
| `Accept`, `AcceptorPicks`, `AcceptorInserts`, `AcceptorCounts` | `main.cxx:205-220` and `Add`: `accept`, `NextIndex`, `insert`, `incPriority` with `updateSingle` |
| `PollWait`, `PollLoop` | `Wait` on the interest list, and `OnReadPoll` |
| `PollClose`, `CloseOne` | `CloseSocketConnections` and the loop of `ClientInfos::close`, one client at a time, under its write lock throughout |
| `CallbackEnter`, `ReadMaxIndex`, `ReadMinIndex`, `CheckEmpty`, `LookAtOldest`, `RemoveOldest`, `DecMoved`, `AddMoved`, `CountMoved` | `downCallback`, one locked section each, up to `Add` of the moved client |
| `ScanStep` | the loop of `SetMinMaxIdx`, whoever runs it |
| `ExecuteAndGather`, `WriteReturns`, `WriteFails` | `Execute` and `Write` |
| `HealthChecks`, `HealthCloses` | `execHealthCheck`: each protocol in turn, then `CloseSockets` |

Abstractions. Packets are left to `ServerLearnProtocol`; what stays is what comes of
each client that has input (`Outcomes`): its deadline was crossed and it is to be closed;
a read fails and it is shut down as well; or a packet is read, which stamps it, and
of which only a request or an empty one resets its flag. Only requests and the
replies of the set-up are written, and writing to a client that hangs blocks until its
connection ends. `ExecHealthCheck` of one protocol is a single
step (its inner steps are in `ServerLearnProtocol`). `begin()` of the client map is
the client with the smallest number, which is what the hash map of small integers
makes of it; `NoSocket`, the `-1` of the code, is given a place of its own in
that order. `crashed` records that `OldestSocket` read through `end()`: the process is
gone then and nothing happens any more.

### `ClientLearnProtocol`: the client against its connection

The client's thread is the one program counter of `func`: `SetupConnection`, the
loop that writes until a write fails, the loop that reads. The server's side is
what `ServerLearnProtocol` may do to one connection.

| Action | Code |
|---|---|
| `SetupWrites`, `SetupNames`, `SetupReads`, `SetupWriteFails`, `SetupReadFails` | `SetupConnection`: two exchanges, each half of which may fail; the sample goes on anyway |
| `ClientWrites`, `ClientWriteFails`, `ClientLimited` | `Write` and the first loop |
| `ClientReads`, `ClientReadsNothing`, `ClientEnds` | `Read` and the second loop; every result counts, `Empty` too |
| `ClientReplies`, `ClientReplyFails`, `ClientReplyLimited` | the reply to a heartbeat, whose result is ignored |
| `ServerReads`, `ServerWrites`, `ServerLoses`, `ServerBreaches` | `OnReadPoll`, `Write`, a failed `Write` to another client of the batch, a crossed deadline |
| `HealthWarns`, `HealthEnds` | the two cycles of the health check |
| `ClientForgets`, `ServerForgets`, `SilenceLasts` | time |

Abstractions. A deadline is the number of its entries that are young: the window of
`RateWindow` without its times, each of which may leave at any moment. The three
lists of the server are one queue per connection (`RepliesInOrder` of
`ServerLearnProtocol` says that order is kept through them). Packets are whole;
`Framing` has their bytes. Two ghosts are there for properties alone: `lost`, the
requests whose answer went down with a batch, and `unheeded`, why the
last warning will never be answered.

### `Deadline` and `RateWindow`

`Deadline` is the ring of `queue.hpp` with `front`, `rear` and its storage, and
the two questions, which read the clock before they take the lock. `RateWindow`
remembers every packet and counts. `asserts` says whether the build has assertions
and never changes; `Abort` is the assertion of either question that fails when packets
came between its reading the clock and the lock, with times later than it read. `ImplementsWindow`
is the refinement: what is answered, and when a build with assertions aborts. It is
exact (equality of answers) as long as `MaxCount(n)` is not called. Afterwards
it is one-sided: a smaller limit never calls fewer packets a breach; a larger one
counts one packet at most that never came, and may call a client silent that is not,
since the copying loop (`queue.hpp:62`) stops one short of the newest entry.

### `MostRecentTimestamps`

The list with its entries in order, the `mapper` that nothing fills, and threads
that fix the time stamp when they call and append when they get the lock. An
entry has a ghost field, the second it was really put in the list. The sockets of one
call are different, so the loop of `updateFor` over `insert` is one expression: what the
mapper knows of them is erased, then they are appended in order. A search reads the
clock before it takes the lock, so `Selected` takes the time as a parameter and
`SelectedInTime` speaks of every time the search may have read.

### `Priority`

`SetMinMaxIdx` one index per step, so that the proof can say what a scan has
seen; the lock keeps others out meanwhile. `NextIndex` and `incPriority` by the
acceptor are separate, as in `main.cxx:213-214`, and other threads close
clients in between. `IncPriorityMoved` is the `incPriority` at the end of
`downCallback`, for an index that was read long before. `ProtocolVec` composes the
module with everything that calls it, and the refinement `ImplementsPriority`, checked
and proved, carries its theorems over.

### `TcpTransfer`

The loops around `send(2)` and `recv(2)`, one system call per step, with any
outcome the kernel may produce: some bytes, none, or an error of each class that
`HandleError` distinguishes. A byte is its position in the message or stream.
`SizeMax` is the value `-1` wraps to in a `size_t`.

### `Framing` and `PacketStream`

One connection: the sender marshals packets, the network delivers their bytes in
pieces of any size, and one of three readers, chosen in `Init`, takes them
apart: `ReadForSingleSocket` in either build, or the client's `RawPacket::Read`
with its timeouts. A byte is a number below `Radix`, a size two of them. `Buffer` has
its storage, which keeps the bytes of earlier reads, and its offset; `new char[]`
leaves it uninitialized, and the model starts with zeros, since a reader looks at
bytes it did not receive only where it is about to be astray. Two ghosts, `stream`
and `starts`, remember all bytes that crossed the wire and where each packet
begins among them.

| Action | Code |
|---|---|
| `Send`, `Arrive`, `Close` | `RawPacket::Write` with `Marshall`, the network, a sender that closes or dies within a packet |
| `Begin`, `HangUp` | what `OnReadPoll` saw of the socket; the client calls `Read` at any time |
| `ReadSize`, `ReadBody` | one packet per read, `recvFixedBytes` twice; and `RawPacket::Read` |
| `ReadMany`, `SkipRead`, `Extract`, `ReadRest` | several packets per read: a big read unless a header is in the buffer, the header, the rest of the packet |
| `TakePacket` | the `NetworkPacket` made, the offset moved, the condition of the loop |
| `Fails`, `ReturnEmpty` | a failed receive; a timeout of the client |
| `ExtractTooEarly`, `FailsToNotice` | the reader goes astray: a header that is not there, a short count taken for success. So does `ReturnEmpty` after a header was read |

`PacketStream` is what users of a reader count on: the packets sent, each once
and in order, until the reader gives up. Once a reader is astray the code goes on
with whatever the buffer has; the model stops there, so the refinement
speaks of everything up to that point.

## 3. The runs

| Run | Shows | Bounds, and why they are enough |
|---|---|---|
| `server_pair` | Two clients at once, polling and executing in one thread. `AnswersOwnRequests`: no answer reaches another connection although only the descriptor is kept. `CallbackRanOnEverything`. `CapacityCovers`: the event array has room for every client when no update is due. `LoadCoversClients`: the balancer never shows less than the clients there are, although `Add` counts late. `TypeOK`. | Two descriptors, two connections, one packet each. A limit of one packet makes every packet possibly too many, so a client can be closed with its input unread, next to one that is served. The event array starts at one, so the second client makes it grow. |
| `server_reuse` | A separate executor, one descriptor that serves two clients in turn. `NoDescriptorLeaked`: the open descriptors are exactly the registered clients and the one being added, and so is the interest list. `NameMatchesConnection`: the client id never survives its connection. `CloseJustified`: only a connection that is over is closed. | One descriptor forces the reuse that more would merely allow. |
| `server_builds` | Both threading builds. `RequestsAnswered`: without any help of the health check every request is answered as long as no connection fails. `HealthCheckReaps`: with it, every connection is closed in the end, whatever the peer does or fails to do. `HealthCheckReleases`: a send to a client that does not read returns. `RepliesInOrder`: the answers keep the order of the requests through `readList`, `packetsToRead`, `tempList`, `packetsToWrite` and `tempWriteList`. | One client and two packets: two requests may be in the same list or in different ones, and the send buffer fills. Several packets per read. No symmetry. |
| `deadline` | `ImplementsWindow`: every answer is that of a memory of all packets, whatever came between clock and lock, and a build with assertions aborts exactly when what came overtook the question. `IndicesInBounds`, `TypeOK`. | Limit three, changed once to two or four at any moment or never; seven packets go around the ring twice; the clock moves through both limits. |
| `timestamps_shared` | `SelectedInTime`: although entries may be out of order and the search stops at the first young one, it passes over nothing that was put in the list `Timeout` seconds before the time it read; `TypeOK`. | Two threads suffice to put two entries in the wrong order; four entries, two sockets, three seconds and a timeout of two. |
| `fleet` | `OneHome`: every open descriptor is in exactly one place, registered with one protocol, with the acceptor, or with a thread that moves it. `ClientsPolled`: the thread of a protocol is told of all its clients' events. `WarningKept`: a client that was warned stays so while it is moved, until it is read from; an event that comes to nothing does not count. `LoadCoversFleet`: the loads never show fewer clients than there are. `ImplementsPriority`, and with it `IndicesExtreme` and `Balanced` (all loads within one client of each other as long as none was closed). `TypeOK`, `FleetTypeOK`. | Three protocols, so that the least, the most loaded and the closing one differ; two descriptors and two connections, so that a protocol can become empty between two calls of `downCallback` and a number can be reused. `MaxLoad` is never reached. The theorems about the balancer cover every number. |
| `client` | `JoinedIsNamed`: once `SetupConnection` succeeded every answer is made with the client's name. `WarningAccountedFor`: a client stays warned only while the heartbeat or the reply to it is under way, or for a reason that is named. `RequestsSettled`: every request is answered and handed to the caller, unless a batch was lost or the connection ended. `ClientReturns`: once the connection is over, the program returns. `TypeOK`. | A limit of three packets is crossed while writing and again while reading, and the server's before the client's; a connection that holds two packets either way is full; two requests follow the four packets of the set-up. |
| `transfer_retries` | `FailuresBounded` (no more than 5 x 5 failed attempts), `CallReturns`, `ReceivedInOrder`, `TypeOK`. | The constants 5 and 5 are those of the code; transfers of one and of three bytes, so that there are partial ones in two ways. |
| `framing` | `ImplementsStream`: whatever pieces the bytes arrive in, each reader makes of them the packets that were sent, or gives up. `NothingLeftBehind`: between two packets the buffer, the kernel and the network hold exactly the packets to come, and a read that is over left nothing in the buffer. `TypeOK`, with the bounds of the buffer. | Base three, and bodies of two and of three bytes, so that sizes need both digits; a buffer of nine bytes holds two packets and one byte of a third, or less, and so has every boundary. Three packets fill it more than once. The reader may stop for good, so deadlock is not checked. |
| `fleet_unknown`, `transfer_partial`, `framing_split` | Expected violations, section 6. | |

`MaxSend`, `MaxClock`, `MaxTicks`, `MaxStamps`, `MaxEntries`, `MaxLoad`, `MaxPackets` and
`MaxRequests` bound what would grow for ever; they stand in guards and are named as bounds where
they are declared. Symmetry (`MCServerLearnProtocol`, `MCProtocolVec`) is used by the runs that
check safety only. Every property has a mutant in `PROJECT.json`: an operator of
the model changed as a slip in that code would change it, with which the run
finds the property violated.

## 4. Fairness

`DataPathSpec` (`MCServerBuilds`) assumes that the threads are scheduled. `WF` for the executor and
for a health check that is inside the read lock: nothing they wait for but each
other's completion, and `WriteSends` is not enabled while the peer does not read.
`SF` for the polling thread and `Add`: both wait for the write lock, which readers
take now and then, so their step is disabled again and again; the lock does not
starve a writer for ever. `HealthFairness` adds that time passes and that the health
check runs (`sleep(10)` returns); the properties that need it say so as its
consequence. Nothing is assumed of peers: they may stay
silent, never read, and never close. In `TcpTransfer` only calls with
`MSG_DONTWAIT` are fair, since others may wait for ever in the kernel.

`FairSpec` of `ClientLearnProtocol`: the client's thread runs (a call of it returns
after its timeout at the latest), the server's threads read and write (what
`RequestsAnswered` shows of them), and the oldest entry of the client's deadline gets
too old. Not assumed: that a health check runs, that the server forgets, or that a
batch is lost. `ProtocolVec` is checked for safety only; its liveness would need
`SF` for each thread at each lock, and the product is out of TLC's time.

`CallReturns` is stated for `sendRaw` and `recvFixedBytes`:
`recvAsManyAsPossibleAsync` calls itself after a recoverable error with fresh
counters, so nothing bounds how often.

## 5. The proofs

For all values of the constants that satisfy the assumptions named beside them
(descriptors are finitely many, sizes are positive, flags are Boolean).

**`ServerLearnProtocol_proofs`.** `TypeCorrect`, `DescriptorsSafe`
(`NoDescriptorLeaked`) and `ClosingJustified` (`CloseJustified`).
`NoDescriptorLeaked` is not inductive: `EventReads` would read from a descriptor
that nobody owns if the event were stale, `PollClose` would be free to close a
reused number, and so on. The invariant `IInv` adds what each thread remembers
between two of its steps and why it is still true:

* `EventsValid`: the events the polling thread holds, and the descriptor it is
  reading, belong to registered clients whose connection is still there (only
  this thread closes), and those with input have it or have hung up meanwhile.
* `TerminateValid`: a descriptor in `socketsToTerminate` that is registered is
  still the one that hung up, was shut down or used up its deadline. None of these
  can be undone before this thread closes it.
* `OwnedOpen`: behind a descriptor is a connection that is open or that
  its peer closed.
* `TurnValid`, `SendValid`, `MarkValid`, `ChildValid`: a merged executor has its
  turn only in the polling thread's `work` phase; a batch being sent is not empty;
  the client being marked is registered, which the read lock ensures; the
  acceptor's child is a descriptor.

There is one lemma per action, with one step per conjunct it can disturb; frame
lemmas (`Frames`, `EventFrame`, `OwnedFrame`, ...) say which conjuncts an action
leaves alone because it does not touch their variables. `ClosingJustified` follows
from `TerminateValid` at the only action that closes.

**`ServerPackets_proofs`.** `EventsHaveRoom` (`CapacityCovers`), `LoadIsCounted`
(`LoadCoversClients`), `NamesAreOwn` (`NameMatchesConnection`); and for the build with one
thread that takes one packet per read (`Plain`), `AnswersReachTheirPeers`
(`AnswersOwnRequests`) and `CallbackRanFirst` (`CallbackRanOnEverything`).

* The counts rest on cardinalities of the registered clients: `Insert` raises the
  number and asks for an update in one locked section, the balancer's count follows later and
  may lack the one client that is being added.
* The names need that what waits in a connection's inbox is its own (`InboxOwn`); closing
  leaves nothing to the next client with the number, since `insert` makes a new one.
* A packet in a list carries a descriptor only. The invariant `Rounds` says that while
  it is in any of the five lists its client is registered, behind the
  same connection, and neither condemned nor still to be dealt with in this round
  (`Served`): the polling thread, the only one that closes, has dealt with it. By the time it
  polls again the lists are empty but for heartbeats (`Stages`).
* `RepliesOrdered` (`RepliesInOrder`), in every build. A request has a ticket, its client and its number.
  `Line` compares the tickets of any two places a request passes through, from what a
  peer may still send (`Coming`) and what waits in a connection (`Waiting`) over the five
  lists to what was received (`Replied`): of one client, no ticket in a later place is behind
  one in an earlier place. All pairs are needed, since a place between may be empty. A splice
  moves a list behind the one in front of it, so it keeps `Line` and the order within lists
  (`OrderJoined`); a batch or a connection that is dropped takes tickets out of the line
  (`FewerInLine`).

**`ProtocolVec_proofs`, the balancer on its own.** `TypeCorrect`, `ExtremesFound`, `StaysBalanced`,
of `Priority`. The invariant says that `minIdx` and `maxIdx` are extreme among the indices the scan
has passed (`ScannedSoFar`: the stale start value is repaired by the time the scan
ends, whatever it was), and that the index the acceptor holds stays a least
loaded one as long as nobody closes clients (`ChosenIsLeast`). Counting a moved client
keeps all of it (`IncPriorityMovedKeeps`).

**`ProtocolVec_proofs`, the fleet.** `BalancerImplemented` (`ImplementsPriority`): each step of the
fleet is a step of `Priority` or changes none of its variables. With it the theorems
above hold of the fleet, for any number of protocols (`FleetBalanced`). Then
`FleetTypesCorrect` (`FleetTypeOK`), `AllPolled` (`ClientsPolled`), `EachHasOneHome`
(`OneHome`), `MovingKeepsWarning` (`WarningKept`) and `LoadsCoverClients`
(`LoadCoversFleet`). That a client is in one place does
not follow from the places alone. The invariant adds what threads know while they hold no
lock:

* A client that is moved is in the hands of one thread, and in no protocol
  (`InOnePlace`). `callbackMutex` alone does not give that: other threads
  close clients meanwhile.
* The descriptors a thread still has to close are clients of its protocol
  (`TerminateKnown`): `ClientInfos::close` counted them under the write lock that it
  holds throughout, so no move takes one of them away.
* What `NextIndex` and the two indices of `downCallback` returned are indices
  (`ChosenKnown`), however late they are used.

`MovingKeepsWarning` needs, beyond these, that the flag travels with the client: a thread
that holds one has its flag (`WarnedMoving`), and a registered one has it in the
map (`WarnedIn`).

`LoadsCoverClients` compares the clients of all protocols, as pairs of a protocol and a
descriptor, with the units of load of all protocols, as pairs of a protocol and a number
up to its load. The property is not inductive: a client in a thread's hands is registered
nowhere, so `AddMoved` would add one out of nothing. `OwedIsCovered` counts such clients
too (`Movers`) and subtracts the counts that are still to come (`Uncounted`, and
`AcceptorOwes`). `OwedShifts` then says what each step has to show: when the clients
owed grow by `b`, the load grows by `b` clients at least, with `b` one of -1, 0 and 1. A
`decPriority` that is refused and one for the socket -1 both fit.

**`ClientLearnProtocol_proofs`.** `TypeCorrect`, `JoinedAreNamed` (`JoinedIsNamed`) and
`WarningsAccountedFor` (`WarningAccountedFor`). `JoinedIsNamed` is not inductive: it is
`JOIN` that tells the client, so the invariant has to say of the packets under way that
a `JOIN` is there only if the server has the name (`JoinMeansNamed`), and that no request
is under way during the set-up (`SetupQuiet`), so that none can have been answered
without it. `Numbered` is what the type of the answers that were handed over rests on.
The lemmas group the steps by what they leave alone: those of the client that
receive nothing (`SendingKeeps`), those that receive (`Received`), and those of the
server that make no answer (`TrafficKeeps`); `ServerReads` stands alone.

**`TcpTransfer_proofs`.** `TypeCorrect`, `RetriesEnd` (`FailuresBounded`) and
`BytesInOrder` (`ReceivedInOrder`). The bound on failed attempts is the product of two
limits, and the counters are reset in different places. `Accounted` reads them as
the digits of one number: `asyncFails` counts up to `MaxAsync` and carries into
`majorFails`, and a success in between resets neither. So
`failed <= majorFails * MaxAsync + asyncFails`, whatever comes in which order. `Progress` says that the
buffer holds the first `total` bytes of the stream while the loop runs.

**`Deadline_proofs`.** `TypeCorrect`, `StorageRespected` (`IndicesInBounds`, with
every change of the limit) and `WindowImplemented` (`ImplementsWindow`, when
`Resizes = {}`: no program here changes the limit). The invariant says which packet each
slot of the ring holds (`PacketAt`: counted back from `rear`, once around at most), and
that packets are in the order of their times (`InOrder`). The first entry of a full ring
is then the packet `MaxCount` packets ago. If it is young so are all later ones,
if it is not no earlier one is: the cardinality of the window is at least
`MaxCount` exactly when it is young (`FullWithin`, for any age). Of the age -1, it says when
the last `MaxCount` packets overtook the question, and so when the assertion fails
(`BreachExact`, `SilenceExact`).

**`Framing_proofs`.** `TypeCorrect`, `NothingStaysBehind` (`NothingLeftBehind`) and
`StreamImplemented` (`ImplementsStream`), for the three readers, packets of any size and a buffer
of any size from that of a header to `Radix * Radix`, where a size still fits its two
bytes. The invariant is about positions in the stream: `StreamOfPackets` says where the header and the body of each
packet stand in it, `BufferHolds` that the buffer has from its offset on the bytes of the
stream from `From`, where the reader is, and `OnTheWay` that the kernel
and the network have all that comes after. `HeaderKnown` and `ReaderShape` say what a reader knows at each
program counter. A reader that follows its packets' sizes is then always at a
packet's start, and what it hands over is the packet that was sent there (with
the arithmetic of two digits). For the readers of one packet nothing is left
in the buffer; for the other the rest stays, in front of what the next read adds.

**`MostRecentTimestamps_proofs`.** `TypeCorrect` and `NonePassedOver` (`SelectedInTime`),
for any number of threads and sockets. The mapper
stays empty (`NothingMapped`: the code never fills it), so the list only grows. Entries are stamped before they are
put in (`StampedBefore`) and stand in the order they were put in (`InOrderPutIn`), in
whatever order their times are: when `Timeout` seconds have passed since an entry
was put in, every entry in front of it is old too. The lemmas `StampsStay` and
`ExpiredStays` are there for `ServerLearnProtocol`, which rests on them; they say what the
code does, not that it should.

**Only model-checked.** Liveness and fairness are beyond TLAPS. The refinement of
`Deadline` after a change of the limit is checked on the instance of section 3.

## 6. Where code and comments differ

* `UnknownSocketsIgnored` (`fleet_unknown`): for a selected socket that is not a
  client of the protocol, "By terminating now / We effectively ignore this"
  (`ClientInfos.hpp:152-153`). But the socket stays selected, entries are never removed
  from the time stamps, and `CloseSockets` shuts down whatever is behind the number. So a
  client that was moved is ended, without a warning, by the entry it left in its
  old protocol, however well the new one serves it; and so is a new client
  that got the number of a closed one.
* `SentInOrder` (`transfer_partial`): "Send might not send all values"
  (`TCP.hpp:319`). After a partial send the loop sends the whole message again from
  its start.
* `HeaderAvailable` (`framing_split`): "We know at least one packet is available"
  (`ClientInfos.hpp:398`). With several packets per read, the first read may return one
  byte; the size is then made of it and an old byte, and
  `bytesToRead - SizeBytes` wraps around.

Seen on the way, and part of the models, without a run of their own:

* `OrderedHashSet::insert` never puts a key into `mapper`, against "If already present /
  Remove" (`OrderedHashSet.hpp:58-59`): old entries stay. So `remove` removes nothing,
  against "Remove socket" (`MostRecentTimestamps.hpp:102` and `108`) and "Remove them from
  timestamp" (`ServerLearnProtocol.hpp:120`). A busy client is thus selected in every cycle, and lives only because its packets
  reset `terminateOnNextCycle`.
* "Input is sorted by ascending order" (`MostRecentTimestamps.hpp:85`) is false of
  states that two threads reach: each reads the clock before the lock, and the later time may
  be appended first. Breaking off there costs a delay of `Timeout` at most (`SelectedInTime`).
* `assert(curTime > queue.Last())` and `assert(curTime > queue.First())`
  (`Deadline.hpp:96` and `110`), and "in our case left sec > right sec always" (`:38`): the time
  is read before the lock, so packets that another thread counts in between have later
  times, and a build with assertions aborts (`Abort` of `Deadline`; no
  `CMakeLists.txt` here sets `NDEBUG`). Without assertions the answer is right all the same
  (`ImplementsWindow`). It takes two threads on one `Deadline`: in the
  programs here each is asked and incremented by one thread at a time, and `HealthCheckNeeded`
  has no caller. `operator>` (`timer.hpp:4`) is true of equal times, so these do not abort.
* A peer that closes within a packet leaves a short count that `IsFailure` takes
  for success, which `RawPacket::Read` asserts cannot be (`Packet.hpp:179`):
  `RecvEnds` of `TcpTransfer`, `FailsToNotice` of `Framing`. In the server, the body is
  completed by what an earlier packet, of any client of the thread, left in the buffer
  (`ClientInfos.hpp:412-418`): the name of another client may become this one's
  `clientId`, or a request nobody sent may be queued. `NameMatchesConnection` and its theorem
  `NamesAreOwn` hold for whole packets only (section 7).
* When the first byte of a header is the last of the buffer, `recv` is called with size
  0 and its 0 ends a healthy connection (`Fails` of `Framing`).
* A client whose second receive times out forgets the header it has read
  (`ReturnEmpty` of `Framing`).
* `downCallback` asks `empty()`, looks at the oldest client and removes it under three
  locks. When the last client is closed in between, `OldestSocket` dereferences `end()`
  (`ClientInfos.hpp:277`; `crashed` of `ProtocolVec`), or `RemoveOldestClientAndReturn`
  (`ClientInfos.hpp:268`) returns a client with socket -1, which `Add` registers, counts
  and stamps.
* The old protocol keeps a moved client in its interest list: its thread is woken by
  every event of the client, finds no client to close, and goes round again until
  the client is gone. What the client asked before it was moved may be
  written back without the callback having run.
* A polling thread whose `socketsToTerminate` names a descriptor it does not have any more
  may be given, by a move, a new client with that number before it gets to close:
  `CloseJustified`, proved for one protocol, is not claimed of the fleet.
* A client's load is counted on another protocol than the one it is closed in when
  moves and closes cross; with three clients one protocol's load may be below its
  clients, only the sum is not (`LoadCoversFleet`).
* `SetupConnection` does not answer heartbeats: one that comes then is taken for a wrong
  packet and ends the set-up, which the sample ignores (`SetupReads`).
* A heartbeat is counted before the reply and may be the packet that crosses the limit;
  the reply is refused and nobody looks at the result (`ClientReplyLimited`).
* The server counts the connection and the packet with the name, the client
  neither: a client that keeps to its own limit may break the server's.
* The destructor of `EPoll` closes the descriptor when it is invalid
  (`EPoll.hpp:20`); as the protocols are copied into a vector once, this is what
  keeps the copies usable. The guard in `Atomic` copies a `SpinLock` instead of guarding it
  (`Atomic.hpp:24`), so the modules take its accesses as bare steps.

Two limits of what holds. `AnswersOwnRequests` holds for the merged build
with one packet per read only: with `PC_SEPARATE_POLL_EXEC_WRITE` the writer may send to a
descriptor that was closed and reused since the packet was read. With
`PC_OPTIMIZE_READ_MULTIPLE_SINGLE_SHOT` one thread is enough: a read that fails after
an earlier packet of the same read (`ReadFails`; `ClientInfos.hpp:443-449`) has the socket
closed while that packet waits in `packetsToRead`, and a client that
is given the number before `Write` receives the answer. The proof of
`AnswersReachTheirPeers` found this, and TLC confirms it on one descriptor and two connections. And `RequestsAnswered` says
"as long as no connection fails" because one failed send makes `Write` return
and drops the answers that others wait for.

## 7. What is not modelled

* What a reader does once it is astray, and packets longer than the buffer, which
  the programs do not send. In `ServerLearnProtocol` a read yields whole packets, or fails:
  all that is said of names, answers and their order there is said of whole packets.
* An error of `send` that belongs to no class (`TCP.hpp:183`): `Write` loses that packet and
  goes on with the next (`ClientInfos.hpp:293-298`). On a connection whose peer is gone this is a
  step of `ServerLearnProtocol` (`Delivered` drops the packet); on a healthy one it is
  not, and would be an exception to `RequestsAnswered`.
* The fleet with a separate executor per protocol, or without
  `PC_SWITCH_CLIENTS_BETWEEN_THREADS_BALANCE`. The first would add steps that
  `server_builds` has, the second take away those of `downCallback`.
* Packets in the fleet, and bytes in the client's model: each is in a module of its own.
* Mutexes, the spin lock and the condition variable themselves. The wait in
  `Execute` ends after five seconds in any case, so a lost signal delays only.
* `clientId` is a string that the polling thread assigns under the read lock, while
  a separate executor may copy it: a data race. The model takes the assignment
  as one step.
* Database, addresses, UDP, profiler, conversions: single calls of a library or
  no state.
* `changeMaxCount`, `setPriority`, `Reset`, `EPoll::Remove`, the balancer `naive` and
  `MaxCount(n)` have no caller. `Deadline` covers `MaxCount`, once: a second change after a reduction makes
  the storage smaller than `rear` and is undefined behaviour.

## 8. The plan

1. *Done:* `ServerLearnProtocol` with both builds, `Deadline`/`RateWindow`,
   `MostRecentTimestamps`, `Priority`, `ProtocolVec`, `TcpTransfer`,
   `Framing`/`PacketStream`, `ClientLearnProtocol`, and the proofs of section 5.
2. The one-sided refinement of the window after a change of the limit.
3. Liveness of the fleet, if a smaller abstraction of it can be found; the condition
   variable of `Execute` and the semaphore.
