------------------------------ MODULE MCEngine ------------------------------
(* Small instances of Engine for TLC: the drivers that probe all servers at   *)
(* once, galera with two directors, and galera with a member that is none.    *)
EXTENDS Engine, TLC

Configurations ==
  {[service |-> Tcp, backend |-> <<1>>, remote |-> TRUE],
   [service |-> "http", backend |-> <<1, 2>>, remote |-> FALSE],
   [service |-> "ext", backend |-> <<2>>, remote |-> FALSE],
   [service |-> Galera, backend |-> <<1, 2>>, remote |-> FALSE],
   [service |-> Galera, backend |-> <<1>>, remote |-> FALSE]}
=============================================================================
