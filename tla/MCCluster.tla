----------------------------- MODULE MCCluster -----------------------------
(* Two processes, each in a container of its own, on one host or on two; the  *)
(* containers may give them the same process id.                              *)
EXTENDS Cluster

Processes == {1, 2}
Spaces == <<1, 2>>
Id(ip, pid) == [ip |-> ip, pid |-> pid]
Assignments ==
  {<<Id("h1", 1), Id("h1", 1)>>, <<Id("h1", 1), Id("h1", 2)>>,
   <<Id("h1", 1), Id("h2", 1)>>}
=============================================================================
