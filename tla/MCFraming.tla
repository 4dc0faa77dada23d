----------------------------- MODULE MCFraming -----------------------------
(* Two bodies, of lengths that need both bytes of a size in base 3. *)
EXTENDS Framing

MCBodies == {<<1, 2>>, <<2, 1, 0>>}
=============================================================================
