----------------------------- MODULE MCStreamd -----------------------------
(* Small instances of Streamd for TLC. *)
EXTENDS Streamd

(* The client of the second stream asks, the service answers twice on the   *)
(* first; only the sockets of the first stream are closed by their far      *)
(* ends, the second stream stays.                                           *)
Talk == [director |-> [n \in Index |-> IF n = 2 THEN 1 ELSE 0],
         agent |-> [n \in Index |-> IF n = 1 THEN 2 ELSE 0]]
First == [director |-> {1}, agent |-> {1}]
FirstClient == [director |-> {1}, agent |-> {}]
=============================================================================
