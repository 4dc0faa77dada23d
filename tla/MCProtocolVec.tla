--------------------------- MODULE MCProtocolVec ---------------------------
(***************************************************************************)
(* Model-checking instances of ProtocolVec.                                 *)
(***************************************************************************)
EXTENDS ProtocolVec, TLC

\* Connections are interchangeable. Descriptors and protocols are not: the client
\* maps iterate over the former, and SetMinMaxIdx over the latter, in order.
Symmetry == Permutations(Conns)
=============================================================================
