------------------------------- MODULE Engine -------------------------------
(***************************************************************************)
(* engine.Serve with -ipvs: the wrangler sends its reports on the status   *)
(* channel, the ipvs engine brings the table of the kernel in line with    *)
(* them.  The process is stopped, killed and started again.                *)
(***************************************************************************)
EXTENDS Wrangler

CONSTANT MaxRules

VARIABLES
  pc, backends, obsolete, fresh, service, table, rules, failed, latest

I == INSTANCE Ipvs WITH remote <- settings.remote

ivars == <<pc, backends, obsolete, fresh, service, table, rules, failed, latest>>
evars == <<wvars, ivars>>
wranglerOnly == <<settings, director, known, round, world>>

Init == WInit /\ I!IInit

Start == (I!StartLocal \/ I!StartRemote) /\ UNCHANGED wranglerOnly
Schedule == \E a \in Addr : I!Schedule(a) /\ UNCHANGED wranglerOnly
Stop == \E ok \in BOOLEAN : I!Stop(ok) /\ UNCHANGED wranglerOnly
Clean == \E ok \in BOOLEAN : I!Clean(ok) /\ WGone
Crash == I!Crash /\ WGone

\* The wrangler runs while the process does.
Watch == pc # "down" /\ Monitor /\ UNCHANGED ivars
ProbeGoesOn(a) == (Talk(a) \/ Hang(a)) /\ UNCHANGED ivars
ProbeEnds(a) == \E up \in BOOLEAN : Probe(a, up) /\ UNCHANGED ivars
Toggle(a) == Change(a) /\ UNCHANGED ivars

Next ==
  \/ Start \/ Stop \/ Clean \/ Crash
  \/ Schedule
  \/ Watch
  \/ \E a \in Addr : ProbeGoesOn(a) \/ ProbeEnds(a) \/ Toggle(a)

Spec == Init /\ [][Next]_evars

\* The goroutines go on.  One condition for all is enough: each round waits for
\* its probes, and the status channel makes the wrangler wait for the engine, so
\* that none of them can be left out for ever.
Works == Schedule \/ Watch \/ \E a \in Addr : ProbeGoesOn(a) \/ ProbeEnds(a)
Fairness == WF_evars(Works)

FairSpec == Spec /\ Fairness

-----------------------------------------------------------------------------
(* Properties. *)

\* The table of the kernel and the map that stands for it differ in nothing but
\* servers whose command failed, in every state of the handling of a report and
\* also when an earlier process left without cleaning up.
TableTracked ==
  pc # "down" => (table \ backends) \cup (backends \ table) \subseteq failed

\* Between two reports the engine knows exactly the servers of the last one.
ReportApplied == pc = "loop" => backends = latest

\* When the servers stop changing, the table becomes the set of configured
\* servers that are alive, if any is, no command fails and the process runs on
\* ("full set of backends needed by the ipvs engine", wrangler.go:82).
Live == alive \cap ToSet(settings.backend)
Calm ==
  /\ settings.service # Galera
  /\ <>[](pc \notin {"clean up", "down"} /\ failed = {} /\ Live # {} /\ \A a \in Addr : talk[a] # Stuck)
  /\ <>[][UNCHANGED alive]_evars
Follows == Calm => <>[](table = Live)
=============================================================================
