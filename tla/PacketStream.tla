---------------------------- MODULE PacketStream ----------------------------
(***************************************************************************)
(* What a reader of packets promises to those who use it: the packets of    *)
(* the other side, whole, each once and in order, until it gives up.        *)
(***************************************************************************)
EXTENDS Naturals, Sequences

CONSTANT Packets

VARIABLES sent, received, over

vars == <<sent, received, over>>

Init == sent = <<>> /\ received = <<>> /\ over = FALSE

Send == /\ \E packet \in Packets : sent' = Append(sent, packet)
        /\ UNCHANGED <<received, over>>

Receive == /\ ~ over /\ Len(received) < Len(sent)
           /\ received' = Append(received, sent[Len(received) + 1])
           /\ UNCHANGED <<sent, over>>

GiveUp == over' = TRUE /\ UNCHANGED <<sent, received>>

Next == Send \/ Receive \/ GiveUp

Spec == Init /\ [][Next]_vars
=============================================================================
