-------------------------------- MODULE Ipvs --------------------------------
(***************************************************************************)
(* The ipvs engine of gbalancer (engine/ipvs/ipvs.go) with the part of the *)
(* kernel it drives: one virtual service and its table of real servers,    *)
(* which outlive the process.  The engine never reads the table back.      *)
(* On the machine of the clients it adds a local route to the service      *)
(* (LocalSchedule), else a rule that translates the source of what the     *)
(* machine forwards (RemoteSchedule).                                      *)
(*                                                                         *)
(* One command is one step; it may fail without effect, and most failures  *)
(* are only logged.                                                        *)
(***************************************************************************)
EXTENDS Integers, FiniteSets, Sequences

CONSTANT
  MaxRules    \* bound on the rules that failed commands leave behind

VARIABLES
  remote,     \* the -remote flag, which no step changes
  status,     \* the status channel, from which reports are taken
  pc,         \* "down" (no process), "set up" (the service was created),
              \* "loop" (select), "handle" (a report), "clean up" (deferred calls)
  backends,   \* IPvs.backends
  obsolete,   \* of the report being handled: backends still to be removed
  fresh,      \*   and addresses still to be added
  service,    \* kernel: whether the virtual service exists
  table,      \* kernel: its real servers
  rules,      \* kernel: how many SNAT rules it has for the service
  failed,     \* history: addresses with a failed command in this process
  latest      \* history: the last report taken

process == <<pc, backends, obsolete, fresh, failed, latest>>
kernel == <<service, table, rules>>
ivars == <<process, kernel>>

IInit ==
  /\ pc = "down" /\ backends = {} /\ obsolete = {} /\ fresh = {}
  /\ service = FALSE /\ table = {} /\ rules = 0
  /\ failed = {} /\ latest = {}

\* ensureCommands: with -remote the switches of the kernel are set first, and
\* if that fails the process exits, as it does if ipvsadm -A fails, which it
\* does at least if the service exists.
Creates_Anyway == TRUE
Creates == ~ service

Create(then) ==
  /\ pc = "down" /\ Creates
  /\ pc' = then
  /\ service' = TRUE
  /\ UNCHANGED <<status, backends, obsolete, fresh, table, rules, failed, latest>>

\* AddLocalRoute follows at once: the route is kept for other instances when the
\* process ends, and nothing here depends on it.
StartLocal == ~ remote /\ Create("loop")
StartRemote == remote /\ Create("set up")

\* RemoteSchedule appends the rule; the outcome is not looked at.
AppendRule(ok) ==
  /\ pc = "set up" /\ remote
  /\ rules' = IF ok THEN rules + 1 ELSE rules
  /\ rules' <= MaxRules
  /\ pc' = "loop"
  /\ UNCHANGED <<status, backends, obsolete, fresh, service, table, failed, latest>>

\* The first loop over the backends: those absent from the report S.
Absent_Never(S) == {}
Absent(S) == backends \ S

\* case backends := <-status
Take ==
  /\ pc = "loop" /\ status # <<>>
  /\ status' = Tail(status)
  /\ LET S == Head(status)
     IN obsolete' = Absent(S) /\ fresh' = S \ backends /\ latest' = S
  /\ pc' = "handle"
  /\ UNCHANGED <<backends, kernel, failed>>

\* The outcome of a command about a: it is recorded nowhere.
Outcome(a, ok, changed) ==
  IF ok THEN table' = changed /\ UNCHANGED failed
        ELSE failed' = failed \cup {a} /\ UNCHANGED table

\* ipvsadm -d, which fails at least if the table has no such server.
RemoveBackend(a, ok) ==
  /\ pc = "handle" /\ a \in obsolete /\ (ok => a \in table)
  /\ obsolete' = obsolete \ {a}
  /\ backends' = backends \ {a}
  /\ Outcome(a, ok, table \ {a})
  /\ UNCHANGED <<status, pc, fresh, service, rules, latest>>

\* ipvsadm -a, which fails at least if the table has that server.
AddBackend(a, ok) ==
  /\ pc = "handle" /\ obsolete = {} /\ a \in fresh /\ (ok => a \notin table)
  /\ fresh' = fresh \ {a}
  /\ backends' = backends \cup {a}
  /\ Outcome(a, ok, table \cup {a})
  /\ UNCHANGED <<status, pc, obsolete, service, rules, latest>>

Handled ==
  /\ pc = "handle" /\ obsolete = {} /\ fresh = {}
  /\ pc' = "loop"
  /\ UNCHANGED <<status, backends, obsolete, fresh, kernel, failed, latest>>

\* The process is over and with it all its memory.
Gone ==
  /\ pc' = "down" /\ backends' = {} /\ obsolete' = {} /\ fresh' = {}
  /\ failed' = {} /\ latest' = {}

\* case <-i.done, some time after main.Stop closed it: the deferred calls, the
\* last one first.  With -remote that is iptables -D, ...
Stop(ok) ==
  /\ pc = "loop" /\ remote
  /\ ok => rules > 0
  /\ rules' = IF ok THEN rules - 1 ELSE rules
  /\ pc' = "clean up"
  /\ UNCHANGED <<status, backends, obsolete, fresh, service, table, failed, latest>>

\* ... and then ipvsadm -D, which takes the real servers with it.
Clean(ok) ==
  /\ pc = IF remote THEN "clean up" ELSE "loop"
  /\ Gone
  /\ IF ok THEN service' = FALSE /\ table' = {} ELSE UNCHANGED <<service, table>>
  /\ UNCHANGED rules

\* The process is killed.
Crash == pc # "down" /\ Gone /\ UNCHANGED kernel

EventLoop(a) ==
  \/ Take
  \/ \E ok \in BOOLEAN : RemoveBackend(a, ok) \/ AddBackend(a, ok)
  \/ Handled

\* LocalSchedule and RemoteSchedule up to the deferred calls.
Schedule(a) ==
  \/ \E ok \in BOOLEAN : AppendRule(ok)
  \/ EventLoop(a)
=============================================================================
