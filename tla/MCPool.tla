------------------------------- MODULE MCPool -------------------------------
(* A small instance of Pool.  Six backends are the fewest for which          *)
(* heap.Remove has to move an element up.                                    *)
EXTENDS Pool, TLC

Symmetry == Permutations(Backend)
=============================================================================
