----------------------------- MODULE MCTunnels -----------------------------
(* Small instances of Tunnels for TLC. *)
EXTENDS Tunnels, TLC

Symmetry == Permutations(Req)
=============================================================================
