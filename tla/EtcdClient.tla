----------------------------- MODULE EtcdClient -----------------------------
(***************************************************************************)
(* The etcd client library (go-etcd/etcd) as cluster/client.go uses it:    *)
(* the goroutines of a process share one Client, whose cluster.Leader they *)
(* read and write without a lock.  A request goes to that machine; an      *)
(* answer that is no answer makes the library try again, on another        *)
(* machine or on the one a redirect names, up to two times per machine.    *)
(*                                                                         *)
(* External: etcd.  A machine that is up and not the leader redirects to   *)
(* the machine elected last while that one is up, or also for a while when *)
(* it is not; without a leader it may answer 500.  A write whose           *)
(* connection is lost has taken effect by then, or never does.             *)
(***************************************************************************)
EXTENDS Integers, FiniteSets

CONSTANTS
  Caller,     \* goroutines that share the client
  N,          \* len(cluster.Machines)
  MaxFaults   \* bound on machines that go down and connections that are lost

ASSUME EtcdAssumption == N \in Nat \ {0} /\ MaxFaults \in Nat

Machine == 0 .. N - 1   \* index in cluster.Machines
Majority == {U \in SUBSET Machine : 2 * Cardinality(U) > N}
Nowhere == -1

VARIABLES
  Leader,    \* cluster.Leader
  call,      \* sendRequest of each caller: what it sends, the number of its
             \*   trial, the machine it is sent to, and how it ended
  key,       \* etcd: the key of each caller, as in Requests
  up,        \* etcd: the machines that answer
  elected,   \* etcd: the machine that was elected last
  held,      \* the callers whose key the process believes to hold
  calm,      \* history: since the request under way began, nothing went wrong
             \*   and no other goroutine changed cluster.Leader
  faults

process == <<Leader, call, held>>
etcd == <<key, up, elected>>
vars == <<process, etcd, calm, faults>>

Idle == [kind |-> "idle", trial |-> 0, target |-> Nowhere, end |-> "open"]

R == INSTANCE Requests WITH
       asked <- [c \in Caller |-> IF call[c].end = "open" THEN call[c].kind ELSE call[c].end]

\* NewCluster: the first machine is the leader until one says otherwise.
First == 0

Init ==
  /\ Leader = First
  /\ call = [c \in Caller |-> Idle]
  /\ held = {}
  /\ key \in [Caller -> {"free", "other"}]
  /\ up \in Majority
  /\ elected \in Machine
  /\ calm = [c \in Caller |-> FALSE]
  /\ faults = 0

-----------------------------------------------------------------------------
(* The caller (Lock and FindInstance of cluster/client.go). *)

\* Get and Create until the key is created, CompareAndSwap from then on.
Start(c) ==
  /\ call[c] = Idle
  /\ \E kind \in (IF c \in held THEN {"swap"} ELSE {"get", "create"}) :
       call' = [call EXCEPT ![c] = [Idle EXCEPT !.kind = kind]]
  /\ calm' = [calm EXCEPT ![c] = elected \in up]
  /\ UNCHANGED <<Leader, held, etcd, faults>>

Return(c) ==
  /\ call[c].end # "open" /\ (call[c].kind = "swap" => call[c].end = "ok")
  /\ held' = IF call[c].kind = "create" /\ call[c].end = "ok" THEN held \cup {c} ELSE held
  /\ call' = [call EXCEPT ![c] = Idle]
  /\ calm' = [calm EXCEPT ![c] = FALSE]
  /\ UNCHANGED <<Leader, etcd, faults>>

\* "Unexpected lost our node lock": the process exits, with all its requests,
\* and another one starts with a client of its own.
Exit(c) ==
  /\ call[c].kind = "swap" /\ call[c].end \in {"failed", "unreachable"}
  /\ Leader' = First /\ held' = {} /\ call' = [d \in Caller |-> Idle]
  /\ key' = [d \in Caller |-> R!Forgotten(key[d])]
  /\ calm' = [d \in Caller |-> FALSE]
  /\ UNCHANGED <<up, elected, faults>>

-----------------------------------------------------------------------------
(* sendRequest. *)

\* trial > 2*len(c.cluster.Machines)
Exhausted_Never(trial) == FALSE
Exhausted(trial) == trial > 2 * N

\* The top of the loop: the path is that of the leader, since the consistency
\* level is STRONG.
Try(c) ==
  /\ call[c].kind # "idle" /\ call[c].end = "open" /\ call[c].target = Nowhere
  /\ LET trial == call[c].trial + 1
     IN call' = [call EXCEPT ![c].trial = trial,
                             ![c].target = IF Exhausted(trial) THEN Nowhere ELSE Leader,
                             ![c].end = IF Exhausted(trial) THEN "unreachable" ELSE "open"]
  /\ UNCHANGED <<Leader, held, etcd, calm, faults>>

Sent(c) == call[c].target # Nowhere
Again(c) == call' = [call EXCEPT ![c].target = Nowhere]
End(c, e) == call' = [call EXCEPT ![c].target = Nowhere, ![c].end = e]

\* switchLeader(trial % len(c.cluster.Machines))
Switched_Never(c) == Leader
Switched(c) == call[c].trial % N

SetLeader(c, m) ==
  /\ Leader' = m
  /\ calm' = [d \in Caller |-> calm[d] /\ (d = c \/ m = Leader)]

\* A fault that befalls every request under way.
Fault ==
  /\ faults < MaxFaults /\ faults' = faults + 1
  /\ calm' = [c \in Caller |-> FALSE]

\* httpClient.Do fails: the machine is down.
Unconnected(c) ==
  /\ Sent(c) /\ call[c].target \notin up
  /\ SetLeader(c, Switched(c))
  /\ Again(c)
  /\ UNCHANGED <<held, etcd, faults>>

AtLeader(c) == Sent(c) /\ call[c].target = elected /\ elected \in up

Write(c, k) == key' = [key EXCEPT ![c] = IF call[c].kind = "get" THEN @ ELSE k]

\* A status of validHttpStatusCode, whose body is read; toResponse returns an
\* error unless it is StatusOK or StatusCreated.
Outcome_AnyStatus(c) == "ok"
Outcome(c) == IF R!Grants(call[c].kind, key[c]) THEN "ok" ELSE "failed"

Answered(c) ==
  /\ AtLeader(c)
  /\ End(c, Outcome(c))
  /\ IF Outcome(c) = "ok" THEN Write(c, "mine") ELSE UNCHANGED key
  /\ UNCHANGED <<Leader, held, up, elected, calm, faults>>

\* The connection is lost: before the machine reads the request, or before Do
\* sees the status, or (ReadAll fails) while the body is read.  A request that
\* was granted is sent again all the same.
Lost(c) ==
  /\ Sent(c) /\ call[c].target \in up /\ Fault
  /\ Leader' \in {Switched(c), Leader}
  /\ Again(c)
  /\ \/ UNCHANGED key
     \/ AtLeader(c) /\ R!Grants(call[c].kind, key[c]) /\ Write(c, "lost")
  /\ UNCHANGED <<held, up, elected>>

\* StatusTemporaryRedirect of a follower: updateLeaderFromURL.
Redirected(c) ==
  /\ Sent(c) /\ call[c].target \in up \ {elected}
  /\ SetLeader(c, elected)
  /\ Again(c)
  /\ UNCHANGED <<held, etcd, faults>>

\* StatusInternalServerError, which handleResp does not take for an answer.
Leaderless(c) ==
  /\ Sent(c) /\ call[c].target \in up /\ elected \notin up
  /\ Again(c)
  /\ UNCHANGED <<Leader, held, etcd, calm, faults>>

SendRequest(c) ==
  \/ Try(c) \/ Unconnected(c) \/ Answered(c) \/ Lost(c) \/ Redirected(c) \/ Leaderless(c)

-----------------------------------------------------------------------------
(* etcd. *)

\* A machine goes down; a majority stays.
Down(m) ==
  /\ m \in up /\ Fault
  /\ up' = up \ {m} /\ up' \in Majority
  /\ UNCHANGED <<process, key, elected>>

Restart(m) ==
  /\ m \notin up
  /\ up' = up \cup {m}
  /\ UNCHANGED <<process, key, elected, calm, faults>>

Elect(m) ==
  /\ elected \notin up /\ m \in up
  /\ elected' = m
  /\ UNCHANGED <<process, key, up, calm, faults>>

\* The time to live of a key is over; another process creates it.
KeyChange(c) ==
  /\ key' = [key EXCEPT ![c] = IF @ = "free" THEN "other" ELSE "free"]
  /\ UNCHANGED <<process, up, elected, calm, faults>>

Next ==
  \/ \E c \in Caller : Start(c) \/ SendRequest(c) \/ Return(c) \/ Exit(c) \/ KeyChange(c)
  \/ \E m \in Machine : Down(m) \/ Restart(m) \/ Elect(m)

Spec == Init /\ [][Next]_vars

-----------------------------------------------------------------------------
(* Properties. *)

ETypeOK ==
  /\ Leader \in Machine /\ elected \in Machine /\ up \subseteq Machine
  /\ call \in [Caller -> [kind : {"idle"} \cup R!Request, trial : 0 .. 2 * N + 1,
                          target : Machine \cup {Nowhere},
                          end : {"open", "ok", "failed", "unreachable"}]]
  /\ key \in [Caller -> {"free", "mine", "lost", "other"}]
  /\ held \subseteq Caller /\ calm \in [Caller -> BOOLEAN] /\ faults \in 0 .. MaxFaults

\* A request is given up ("All the given peers are not reachable", error.go:14)
\* only if something went wrong while it was under way, or another goroutine
\* turned cluster.Leader away from the machine that this one had just found: a
\* minority of machines that are down, wherever Leader points at first, is not
\* enough.
Reached == \A c \in Caller : call[c].end = "unreachable" => ~ calm[c]

\* However often a request is sent, its effect and its answer are those of one
\* request to etcd whose answer may be lost.
ImplementsRequests == R!RSpec
=============================================================================
