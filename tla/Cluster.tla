------------------------------ MODULE Cluster ------------------------------
(***************************************************************************)
(* Registration and leadership of ldirector over etcd (cluster/client.go). *)
(* A process takes the key of its node, then the key of the leader; each   *)
(* key has a time to live, and a goroutine per key refreshes it by         *)
(* compare-and-swap after a third of that time.                            *)
(*                                                                         *)
(* etcd and its client library are external.  A request may take effect    *)
(* and its answer be lost; the library then sends it again, and gives up   *)
(* after a while.  An index is only ever compared with that of the key, so *)
(* a key carries the process whose remembered index is the key's.          *)
(*                                                                         *)
(* Time: the behaviours with prompt TRUE have a clock and processes that   *)
(* are at most Delay late; with prompt FALSE a process may be stopped for  *)
(* any time, so a key may expire whenever.                                 *)
(***************************************************************************)
EXTENDS Integers, FiniteSets

CONSTANTS
  Proc,        \* processes; one that is over may be started again
  Clients,     \* possible assignments of IPAddress and Pid to the processes
  Space,       \* process id namespace of each process
  Leader,      \* LeaderPath
  TTL,         \* ttl, in ticks
  Delay,       \* longest time of a request, or of handling its answer
  MaxFaults,   \* bound on kills and on requests that go wrong
  None

Host == {f[p].ip : f \in Clients, p \in Proc}
Pid == {f[p].pid : f \in Clients, p \in Proc}
Key == {Leader} \cup Host   \* a host stands for its NodePath
Node(k) ==
  [value : IF k = Leader THEN Host ELSE Pid, left : 0 .. TTL,
   owner : Proc \cup {None}, index : Proc \cup {None}]
Sleep_TTL == TTL
Sleep == TTL \div 3

ASSUME ClusterAssumption ==
  /\ IsFiniteSet(Proc) /\ IsFiniteSet(Clients)
  /\ \A f \in Clients : DOMAIN f = Proc
  /\ DOMAIN Space = Proc
  /\ Leader \notin Host
  /\ TTL \in Nat /\ Delay \in Nat /\ 3 * Delay + TTL \div 3 < TTL
  /\ MaxFaults \in Nat
  /\ None \notin Proc /\ \A k \in Key : None \notin Node(k)

VARIABLES
  prompt,   \* whether processes keep time
  client,   \* Client of each process
  pc,       \* main: "off", "find", "lock" (Register), "lead" (BecomeLeader), "leader"
  call,     \* the goroutine of a process for a key: "idle", "sent", "ok", "failed"
  clock,    \* how long it has been so
  key,      \* etcd: None, or a node: the value, the time left, the process that
            \*   created the key (history) and the one that knows its index
  faults

cvars == <<prompt, client, pc, call, clock, key, faults>>

Value(p, k) == IF k = Leader THEN client[p].ip ELSE client[p].pid

\* main of p is in Lock for k, or the refreshing goroutine for k exists.
Creating(p, k) == \/ pc[p] = "lock" /\ k = client[p].ip
                  \/ pc[p] = "lead" /\ k = Leader
Holds(p, k) == \/ pc[p] \in {"lead", "leader"} /\ k = client[p].ip
               \/ pc[p] = "leader" /\ k = Leader

\* The goroutine must go on when it has been in its state for this long.
Limit(p, k) == IF call[p][k] = "idle" THEN Sleep ELSE Delay
Waiting(p, k) == call[p][k] # "idle" \/ Holds(p, k)

CInit ==
  /\ prompt \in BOOLEAN
  /\ client \in Clients
  /\ pc = [p \in Proc |-> "off"]
  /\ call = [p \in Proc |-> [k \in Key |-> "idle"]]
  /\ clock = [p \in Proc |-> [k \in Key |-> 0]]
  /\ key = [k \in Key |-> None]
  /\ faults = 0

Fault == faults < MaxFaults /\ faults' = faults + 1

Become(p, k, c) ==
  /\ call' = [call EXCEPT ![p][k] = c]
  /\ clock' = [clock EXCEPT ![p][k] = 0]

-----------------------------------------------------------------------------
(* The process. *)

Start(p) ==
  /\ pc[p] = "off"
  /\ pc' = [pc EXCEPT ![p] = "find"]
  /\ UNCHANGED <<prompt, client, call, clock, key, faults>>

\* The process is over; nobody knows the indexes it knew, and its keys stay.
Forgotten(p, n) ==
  IF n = None THEN None
  ELSE [n EXCEPT !.index = IF @ = p THEN None ELSE @, !.owner = IF @ = p THEN None ELSE @]

Exit(p) ==
  /\ pc' = [pc EXCEPT ![p] = "off"]
  /\ call' = [call EXCEPT ![p] = [k \in Key |-> "idle"]]
  /\ clock' = [clock EXCEPT ![p] = [k \in Key |-> 0]]
  /\ key' = [k \in Key |-> Forgotten(p, key[k])]
  /\ UNCHANGED <<prompt, client>>

Kill(p) == pc[p] # "off" /\ Exit(p) /\ Fault

\* kill(pid, 0): a process of the same namespace, maybe the caller itself.
Running(p, pid) == \E q \in Proc : Space[q] = Space[p] /\ client[q].pid = pid /\ pc[q] # "off"

\* FindInstance found a process: Register returns an error, and main exits.
InstanceFound(p) ==
  /\ pc[p] = "find"
  /\ key[client[p].ip] # None /\ Running(p, key[client[p].ip].value)
  /\ Exit(p) /\ UNCHANGED faults

\* It found none, or could not ask; main calls Lock.
NoInstance(p) ==
  /\ pc[p] = "find"
  /\ \/ /\ key[client[p].ip] # None => ~ Running(p, key[client[p].ip].value)
        /\ UNCHANGED faults
     \/ Fault
  /\ pc' = [pc EXCEPT ![p] = "lock"]
  /\ Become(p, client[p].ip, "sent")
  /\ UNCHANGED <<prompt, client, key>>

\* The end of a sleep: of the goroutine that refreshes, or of BecomeLeader.
Wake_Refresh(p, k) ==
  /\ call[p][k] = "idle"
  /\ Holds(p, k) /\ (prompt => clock[p][k] = Sleep)
  /\ Become(p, k, "sent")
  /\ UNCHANGED <<prompt, client, pc, key, faults>>
Wake(p, k) ==
  /\ call[p][k] = "idle"
  /\ \/ Holds(p, k) /\ (prompt => clock[p][k] = Sleep)
     \/ Creating(p, k)
  /\ Become(p, k, "sent")
  /\ UNCHANGED <<prompt, client, pc, key, faults>>

-----------------------------------------------------------------------------
(* etcd. *)

\* Create asks for a key that does not exist, CompareAndSwap for one with the
\* value and the index of the caller.
Accepts_AnyIndex(p, k) ==
  IF Creating(p, k) THEN key[k] = None
  ELSE key[k] # None /\ key[k].value = Value(p, k)
Accepts(p, k) ==
  IF Creating(p, k) THEN key[k] = None
  ELSE key[k] # None /\ key[k].value = Value(p, k) /\ key[k].index = p

Written(p, k, answered) ==
  [value |-> Value(p, k), left |-> IF prompt THEN TTL ELSE 0,
   owner |-> IF Creating(p, k) THEN p ELSE key[k].owner,
   index |-> IF answered THEN p ELSE None]

\* The request takes effect and the answer arrives, or is lost and the library
\* sends the request again.
Serve(p, k) ==
  /\ call[p][k] = "sent" /\ Accepts(p, k)
  /\ \/ /\ key' = [key EXCEPT ![k] = Written(p, k, TRUE)]
        /\ Become(p, k, "ok") /\ UNCHANGED faults
     \/ /\ key' = [key EXCEPT ![k] = Written(p, k, FALSE)]
        /\ Fault /\ UNCHANGED <<call, clock>>
  /\ UNCHANGED <<prompt, client, pc>>

\* etcd refuses the request, or no machine of it can be reached.
Refuse(p, k) ==
  /\ call[p][k] = "sent"
  /\ \/ ~ Accepts(p, k) /\ UNCHANGED faults
     \/ Fault
  /\ Become(p, k, "failed")
  /\ UNCHANGED <<prompt, client, pc, key>>

\* The time to live of a key is over.
Expire(k) ==
  /\ key[k] # None /\ (prompt => key[k].left = 0)
  /\ key' = [key EXCEPT ![k] = None]
  /\ UNCHANGED <<prompt, client, pc, call, clock, faults>>

-----------------------------------------------------------------------------
(* Answers. *)

\* Lock returns nil.  Register is followed by BecomeLeader at once.
Locked(p, k) ==
  /\ call[p][k] = "ok" /\ Creating(p, k)
  /\ pc' = [pc EXCEPT ![p] = IF k = Leader THEN "leader" ELSE "lead"]
  /\ IF k = Leader
     THEN Become(p, k, "idle")
     ELSE /\ call' = [call EXCEPT ![p] = [@ EXCEPT ![k] = "idle", ![Leader] = "sent"]]
          /\ clock' = [clock EXCEPT ![p] = [@ EXCEPT ![k] = 0, ![Leader] = 0]]
  /\ UNCHANGED <<prompt, client, key, faults>>

\* Lock returns an error: Register starts again, BecomeLeader sleeps.
NotLocked(p, k) ==
  /\ call[p][k] = "failed" /\ Creating(p, k)
  /\ pc' = [pc EXCEPT ![p] = IF k = Leader THEN @ ELSE "find"]
  /\ Become(p, k, "idle")
  /\ UNCHANGED <<prompt, client, key, faults>>

Refreshed(p, k) ==
  /\ call[p][k] = "ok" /\ Holds(p, k)
  /\ Become(p, k, "idle")
  /\ UNCHANGED <<prompt, client, pc, key, faults>>

\* "Unexpected lost our node lock": the process exits.
LockLost(p, k) ==
  /\ call[p][k] = "failed" /\ Holds(p, k)
  /\ Exit(p) /\ UNCHANGED faults

\* Time passes unless a goroutine has to go on before.
Tick ==
  /\ prompt
  /\ \A p \in Proc, k \in Key : Waiting(p, k) => clock[p][k] < Limit(p, k)
  /\ clock' = [p \in Proc |-> [k \in Key |->
                 IF Waiting(p, k) THEN clock[p][k] + 1 ELSE clock[p][k]]]
  /\ key' = [k \in Key |-> IF key[k] = None THEN None
                           ELSE [key[k] EXCEPT !.left = IF @ = 0 THEN 0 ELSE @ - 1]]
  /\ UNCHANGED <<prompt, client, pc, call, faults>>

Main(p) == Start(p) \/ InstanceFound(p) \/ NoInstance(p)
Goroutine(p, k) ==
  \/ Wake(p, k) \/ Serve(p, k) \/ Refuse(p, k)
  \/ Locked(p, k) \/ NotLocked(p, k) \/ Refreshed(p, k) \/ LockLost(p, k)

CNext ==
  \/ \E p \in Proc : Main(p) \/ Kill(p)
  \/ \E p \in Proc, k \in Key : Goroutine(p, k)
  \/ \E k \in Key : Expire(k)
  \/ Tick

CSpec == CInit /\ [][CNext]_cvars

\* A request ends, goroutines run, and with a clock time goes on and etcd
\* drops the keys whose time is over.
CFairness ==
  /\ \A p \in Proc : WF_cvars(InstanceFound(p) \/ NoInstance(p))
  /\ \A p \in Proc, k \in Key : WF_cvars(Goroutine(p, k))
  /\ \A k \in Key : WF_cvars(prompt /\ Expire(k))
  /\ WF_cvars(Tick)

CFairSpec == CSpec /\ CFairness

-----------------------------------------------------------------------------
(* Properties. *)

CTypeOK ==
  /\ prompt \in BOOLEAN /\ client \in Clients
  /\ pc \in [Proc -> {"off", "find", "lock", "lead", "leader"}]
  /\ call \in [Proc -> [Key -> {"idle", "sent", "ok", "failed"}]]
  /\ clock \in [Proc -> [Key -> 0 .. TTL]]
  /\ DOMAIN key = Key
  /\ \A k \in Key : key[k] # None =>
       key[k] \in Node(k) /\ key[k].index \in {key[k].owner, None}
  /\ faults \in 0 .. MaxFaults

Owns(p, k) == key[k] # None /\ key[k].owner = p

\* Mutual exclusion: while processes and etcd keep time, one that believes to
\* hold a lock does, so no node has two registered instances and no cluster two
\* leaders; and it exits before the key it could not refresh is free again.
Held == prompt => \A p \in Proc, k \in Key : Holds(p, k) => Owns(p, k)

\* Without clocks: a process that lost a key while it was stopped finds out and
\* exits, although the one that has the key now may have written the same value.
Deposed == \A p \in Proc :
             (\E k \in Key : Holds(p, k) /\ ~ Owns(p, k)) ~> pc[p] = "off"

\* A process that waits for the leadership does not wait for ever while nobody
\* leads: the key that a dead leader left goes away.
Succession ==
  prompt => \A p \in Proc :
              []<>(pc[p] # "lead" \/ \E q \in Proc : pc[q] = "leader")
=============================================================================
