------------------------------ MODULE MCDaemon ------------------------------
(* Two instances, a tcp and a unix listener.                                  *)
EXTENDS Daemon, TLC

\* Two in the foreground, two daemons, one of each.
AllModes ==
  {<<Foreground, Foreground>>, <<Supervised, Supervised>>, <<Foreground, Supervised>>}
AnyMode == [Inst -> {Foreground, Supervised}]
=============================================================================
