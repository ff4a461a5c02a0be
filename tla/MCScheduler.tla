---------------------------- MODULE MCScheduler ----------------------------
(* Small instances of Scheduler for TLC.  Requests are interchangeable; the  *)
(* addresses and the Backend objects are not, their order is the weight.     *)
EXTENDS Scheduler, TLC

Symmetry == Permutations(Req)
=============================================================================
