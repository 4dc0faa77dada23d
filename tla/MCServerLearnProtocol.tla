----------------------- MODULE MCServerLearnProtocol -----------------------
(***************************************************************************)
(* Model-checking instances of ServerLearnProtocol.                         *)
(***************************************************************************)
EXTENDS ServerLearnProtocol, TLC

\* Descriptors are interchangeable, and so are connections: no definition picks
\* a particular one. Used by the runs without liveness properties only.
Symmetry == Permutations(Fds) \cup Permutations(Conns)
=============================================================================
