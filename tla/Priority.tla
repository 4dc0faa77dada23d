------------------------------ MODULE Priority ------------------------------
(***************************************************************************)
(* pc::balancer::priority: the load of each protocol, and the indices of    *)
(* the least and the most loaded one. Every change of a load scans all of   *)
(* them, one index per step here, before the lock is given back. The        *)
(* acceptor asks for the least loaded index and counts the client there     *)
(* later, when the lock has been released and other threads had a go. A     *)
(* thread that closed clients moves others from the most to the least       *)
(* loaded protocol; ProtocolVec composes all of this with the protocols.    *)
(***************************************************************************)
EXTENDS Integers

CONSTANTS
  Count,    \* number of protocols, sizes.size()
  Weight,   \* what a client counts for, DeadlineMaxCount()
  MaxLoad   \* bound: load of one protocol

ASSUME CountAssumption == Count \in Nat \ {0}
ASSUME WeightAssumption == Weight \in Nat \ {0} /\ MaxLoad \in Nat

VARIABLES
  sizes,   \* sizes
  minIdx,  \* minIdx
  maxIdx,  \* maxIdx
  scan,    \* the loop index of SetMinMaxIdx; Count when the lock is free
  chosen,  \* the index NextIndex gave the acceptor, or Count
  closed   \* ghost: whether a client was ever closed

vars == <<sizes, minIdx, maxIdx, scan, chosen, closed>>

Indices == 0 .. Count - 1
LockFree == scan = Count

Init == /\ sizes = [i \in Indices |-> 0]
        /\ minIdx = 0 /\ maxIdx = 0
        /\ scan = Count
        /\ chosen = Count
        /\ closed = FALSE

\* The acceptor's *balancer, which is NextIndex.
NextIndex ==
  /\ LockFree /\ chosen = Count
  /\ chosen' = minIdx
  /\ UNCHANGED <<sizes, minIdx, maxIdx, scan, closed>>

Increased(index) == [sizes EXCEPT ![index] = @ + Weight]

\* incPriority, by the acceptor.
IncPriority ==
  /\ LockFree /\ chosen \in Indices
  /\ sizes[chosen] + Weight <= MaxLoad
  /\ sizes' = Increased(chosen)
  /\ scan' = 0
  /\ chosen' = Count
  /\ UNCHANGED <<minIdx, maxIdx, closed>>

\* incPriority, by a thread that moves a client after others were closed; the
\* load it moves was taken off another index by decPriority.
IncPriorityMoved(index) ==
  /\ LockFree /\ closed
  /\ sizes[index] + Weight <= MaxLoad
  /\ sizes' = Increased(index)
  /\ scan' = 0
  /\ UNCHANGED <<minIdx, maxIdx, chosen, closed>>

\* decPriority, by a thread that closes a client: refused when too little is
\* left, and then nothing is scanned.
DecreasedUnchecked(index) == [sizes EXCEPT ![index] = @ - Weight]
Decreased(index) ==
  IF sizes[index] >= Weight THEN [sizes EXCEPT ![index] = @ - Weight] ELSE sizes

NoScan(index) == Count
ScanAfterDec(index) == IF sizes[index] >= Weight THEN 0 ELSE Count

DecPriority(index) ==
  /\ LockFree
  /\ sizes' = Decreased(index)
  /\ scan' = ScanAfterDec(index)
  /\ closed' = TRUE
  /\ UNCHANGED <<minIdx, maxIdx, chosen>>

\* SetMinMaxIdx, for one index.
BecomesMinSwapped(i) == sizes[i] > sizes[minIdx]
BecomesMin(i) == sizes[i] = 0 \/ sizes[i] < sizes[minIdx]
BecomesMax(i) == sizes[i] > sizes[maxIdx]

Scan ==
  /\ scan < Count
  /\ minIdx' = IF BecomesMin(scan) THEN scan ELSE minIdx
  /\ maxIdx' = IF BecomesMax(scan) THEN scan ELSE maxIdx
  /\ scan' = scan + 1
  /\ UNCHANGED <<sizes, chosen, closed>>

Next == \/ NextIndex \/ IncPriority \/ Scan
        \/ \E i \in Indices : DecPriority(i) \/ IncPriorityMoved(i)

Spec == Init /\ [][Next]_vars

(***************************************************************************)
(* Properties.                                                              *)
(***************************************************************************)
\* The members hold values of their types, the indices valid ones.
TypeOK ==
  /\ sizes \in [Indices -> Nat]
  /\ minIdx \in Indices /\ maxIdx \in Indices
  /\ scan \in 0 .. Count
  /\ chosen \in 0 .. Count
  /\ closed \in BOOLEAN

\* Whenever the lock is free, minIdx is a least and maxIdx a most loaded index:
\* scanning from the indices of before, which the change may have made wrong,
\* finds the new ones.
IndicesExtreme ==
  LockFree => \A i \in Indices : sizes[minIdx] <= sizes[i] /\ sizes[i] <= sizes[maxIdx]

\* As long as no client was closed, the acceptor keeps the protocols balanced:
\* no protocol has two clients more than another.
Balanced ==
  ~ closed => \A i, j \in Indices : sizes[i] <= sizes[j] + Weight
=============================================================================
