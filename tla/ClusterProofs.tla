--------------------------- MODULE ClusterProofs ---------------------------
(***************************************************************************)
(* Theorems about module Cluster, for every value of its constants: the    *)
(* locks exclude each other process as long as processes keep time.        *)
(***************************************************************************)
EXTENDS Cluster, TLAPS

-----------------------------------------------------------------------------
(* The inductive invariant. *)

\* A refresh that begins in time ends in time.
LEMMA Times ==
  /\ TTL \in Nat /\ Delay \in Nat /\ Sleep \in Nat
  /\ 3 * Delay + Sleep < TTL
  BY ClusterAssumption DEF Sleep

\* The keys of a process, each of which it either creates or holds.
LEMMA Identities ==
  ASSUME client \in Clients, NEW p \in Proc
  PROVE  /\ client[p].ip \in Host /\ client[p].pid \in Pid
         /\ client[p].ip \in Key /\ Leader \in Key /\ client[p].ip # Leader
         /\ \A k \in Key : (k = client[p].ip => k # Leader) /\ (Creating(p, k) => ~ Holds(p, k))
<1>1. client[p].ip \in Host /\ client[p].pid \in Pid
  BY DEF Host, Pid
<1> QED
  BY <1>1, ClusterAssumption DEF Key, Creating, Holds

\* The time left, at least, when a goroutine came into its state.
Due(p, k) ==
  CASE call[p][k] = "ok" -> TTL
    [] call[p][k] = "idle" -> TTL - Delay
    [] call[p][k] = "sent" -> TTL - Delay - Sleep
    [] call[p][k] = "failed" -> TTL - 2 * Delay - Sleep

\* A process that holds a key, or is about to learn that it does, created it, and
\* the key still has the time that the process may take to refresh it or to exit.
Leased(p, k) ==
  Holds(p, k) \/ (Creating(p, k) /\ call[p][k] = "ok") =>
    /\ Owns(p, k)
    /\ clock[p][k] <= Limit(p, k)
    /\ key[k].left + clock[p][k] >= Due(p, k)

\* So it is for each process that keeps time.
Leases == prompt => \A p \in Proc, k \in Key : Leased(p, k)

\* The inductive invariant.
IInv == CTypeOK /\ Leases

\* It holds initially.
LEMMA ClusterInit == CInit => IInv
<1> SUFFICES ASSUME CInit PROVE IInv
  OBVIOUS
<1>1. CTypeOK
  BY ClusterAssumption DEF CInit, CTypeOK
<1>2. Leases
  BY DEF CInit, Leases, Leased, Holds, Creating
<1> QED
  BY <1>1, <1>2 DEF IInv

-----------------------------------------------------------------------------
(* The steps. *)

\* A step of one goroutine leaves the others alone.
LEMMA BecomeEffect ==
  ASSUME CTypeOK, NEW p \in Proc, NEW k \in Key, NEW c \in {"idle", "sent", "ok", "failed"},
         Become(p, k, c)
  PROVE  /\ call' \in [Proc -> [Key -> {"idle", "sent", "ok", "failed"}]]
         /\ clock' \in [Proc -> [Key -> 0 .. TTL]]
         /\ call'[p][k] = c /\ clock'[p][k] = 0
         /\ \A q \in Proc, j \in Key : q # p \/ j # k =>
              call'[q][j] = call[q][j] /\ clock'[q][j] = clock[q][j]
<1>1. call' = [call EXCEPT ![p][k] = c] /\ clock' = [clock EXCEPT ![p][k] = 0] /\ 0 \in 0 .. TTL
  BY Times DEF Become
<1> QED
  BY <1>1 DEF CTypeOK

\* A process that does not take part keeps its lease, unless the key loses time or
\* another owner gets it.
LEMMA Undisturbed ==
  ASSUME CTypeOK, NEW p \in Proc, NEW k \in Key, Leased(p, k),
         UNCHANGED client, pc'[p] = pc[p],
         call'[p][k] = call[p][k], clock'[p][k] = clock[p][k],
         Owns(p, k) => Owns(p, k)' /\ key'[k].left >= key[k].left,
         Owns(p, k) => key[k].left \in Nat /\ key'[k].left \in Nat
  PROVE  Leased(p, k)'
<1>1. /\ Holds(p, k)' = Holds(p, k) /\ Creating(p, k)' = Creating(p, k)
      /\ Limit(p, k)' = Limit(p, k) /\ Due(p, k)' = Due(p, k) /\ Due(p, k) \in Int
  BY Times DEF Holds, Creating, Limit, Due, CTypeOK
<1>2. clock[p][k] \in Nat
  BY DEF CTypeOK
<1> QED
  BY <1>1, <1>2 DEF Leased

\* Each action preserves the invariant: a process starts, ...
LEMMA StartStep == ASSUME IInv, NEW p \in Proc, Start(p) PROVE IInv'
<1> USE DEF IInv
<1>1. /\ pc[p] = "off" /\ pc' = [pc EXCEPT ![p] = "find"]
      /\ UNCHANGED <<prompt, client, call, clock, key, faults>>
  BY DEF Start
<1>2. CTypeOK'
  BY <1>1 DEF CTypeOK
<1>3. ASSUME prompt, NEW q \in Proc, NEW j \in Key PROVE Leased(q, j)'
  <2>1. CASE q = p
    BY <1>1, <2>1 DEF Leased, Holds, Creating, CTypeOK
  <2>2. CASE q # p
    BY <1>1, <1>3, <2>2, Undisturbed DEF Leases, Owns, CTypeOK, Node
  <2> QED BY <2>1, <2>2
<1> QED
  BY <1>1, <1>2, <1>3 DEF Leases

\* ... ends, and with it nobody knows what it knew, ...
LEMMA ExitStep ==
  ASSUME IInv, NEW p \in Proc, Exit(p), faults' \in 0 .. MaxFaults PROVE IInv'
<1> USE DEF IInv
<1>1. /\ pc' = [pc EXCEPT ![p] = "off"]
      /\ call' = [call EXCEPT ![p] = [k \in Key |-> "idle"]]
      /\ clock' = [clock EXCEPT ![p] = [k \in Key |-> 0]]
      /\ key' = [k \in Key |-> Forgotten(p, key[k])]
      /\ UNCHANGED <<prompt, client>>
  BY DEF Exit
<1>2. ASSUME NEW k \in Key
      PROVE  /\ key[k] = None => key'[k] = None
             /\ key[k] # None =>
                  /\ key'[k] \in Node(k) /\ key'[k].index \in {key'[k].owner, None}
                  /\ key'[k].left = key[k].left /\ key[k].left \in Nat
                  /\ key[k].owner # p => key'[k].owner = key[k].owner
                  /\ key'[k] # None
  <2>1. CASE key[k] = None
    BY <1>1, <2>1 DEF Forgotten
  <2>2. CASE key[k] # None
    <3> DEFINE index == IF key[k].index = p THEN None ELSE key[k].index
               owner == IF key[k].owner = p THEN None ELSE key[k].owner
    <3>1. key[k] \in Node(k) /\ key[k].index \in {key[k].owner, None}
      BY <2>2 DEF CTypeOK
    <3>2. /\ key'[k] \in Node(k) /\ key'[k].left = key[k].left
          /\ key'[k].owner = owner /\ key'[k].index = index
      BY <1>1, <2>2, <3>1 DEF Forgotten, Node
    <3>3. index \in {owner, None}
      BY <3>1
    <3> QED BY <2>2, <3>1, <3>2, <3>3, ClusterAssumption, Times DEF Node
  <2> QED BY <2>1, <2>2
<1>3. CTypeOK'
  <2>1. call' \in [Proc -> [Key -> {"idle", "sent", "ok", "failed"}]]
        /\ clock' \in [Proc -> [Key -> 0 .. TTL]]
    BY <1>1, Times DEF CTypeOK
  <2>2. DOMAIN key' = Key /\ pc' \in [Proc -> {"off", "find", "lock", "lead", "leader"}]
    BY <1>1 DEF CTypeOK
  <2> QED BY <1>1, <1>2, <2>1, <2>2 DEF CTypeOK
<1>4. ASSUME prompt, NEW q \in Proc, NEW k \in Key PROVE Leased(q, k)'
  <2>1. CASE q = p
    BY <1>1, <2>1 DEF Leased, Holds, Creating, CTypeOK
  <2>2. CASE q # p
    <3>1. call'[q][k] = call[q][k] /\ clock'[q][k] = clock[q][k] /\ pc'[q] = pc[q]
      BY <1>1, <2>2 DEF CTypeOK
    <3>2. Owns(q, k) => Owns(q, k)' /\ key'[k].left >= key[k].left /\ key[k].left \in Nat
                        /\ key'[k].left \in Nat
      BY <1>2, <2>2 DEF Owns
    <3> QED BY <1>1, <1>4, <3>1, <3>2, Undisturbed DEF Leases
  <2> QED BY <2>1, <2>2
<1> QED
  BY <1>1, <1>3, <1>4 DEF Leases

\* ... or changes the state of one goroutine and no key:
LEMMA CallChanges ==
  ASSUME IInv, NEW p \in Proc, NEW k \in Key, NEW c \in {"idle", "sent", "ok", "failed"},
         Become(p, k, c), UNCHANGED <<prompt, client, key>>,
         pc' \in [Proc -> {"off", "find", "lock", "lead", "leader"}],
         \A q \in Proc \ {p} : pc'[q] = pc[q],
         faults' \in 0 .. MaxFaults,
         prompt => Leased(p, k)',
         pc'[p] = pc[p] \/ \A j \in Key \ {k} : prompt => Leased(p, j)'
  PROVE  IInv'
<1> USE DEF IInv
<1>1. /\ call' \in [Proc -> [Key -> {"idle", "sent", "ok", "failed"}]]
      /\ clock' \in [Proc -> [Key -> 0 .. TTL]]
      /\ \A q \in Proc, j \in Key : q # p \/ j # k =>
           call'[q][j] = call[q][j] /\ clock'[q][j] = clock[q][j]
  BY BecomeEffect
<1>2. CTypeOK'
  BY <1>1 DEF CTypeOK
<1>3. ASSUME prompt, NEW q \in Proc, NEW j \in Key, q # p \/ j # k, pc'[q] = pc[q]
      PROVE  Leased(q, j)'
  <2>1. Leased(q, j) /\ call'[q][j] = call[q][j] /\ clock'[q][j] = clock[q][j]
    BY <1>1, <1>3 DEF Leases
  <2>2. Owns(q, j) => Owns(q, j)' /\ key[j].left \in Nat /\ key'[j].left = key[j].left
    BY DEF Owns, CTypeOK, Node
  <2> QED BY <1>3, <2>1, <2>2, Undisturbed
<1> QED
  BY <1>2, <1>3 DEF Leases

\* FindInstance finds none, ...
LEMMA NoInstanceStep == ASSUME IInv, NEW p \in Proc, NoInstance(p) PROVE IInv'
<1> USE DEF IInv
<1> DEFINE ip == client[p].ip
<1>1. /\ pc[p] = "find" /\ pc' = [pc EXCEPT ![p] = "lock"] /\ Become(p, ip, "sent")
      /\ UNCHANGED <<prompt, client, key>> /\ ip \in Key
  BY Identities DEF NoInstance, CTypeOK
<1>2. faults' \in 0 .. MaxFaults
  BY ClusterAssumption DEF NoInstance, Fault, CTypeOK
<1>3. /\ pc' \in [Proc -> {"off", "find", "lock", "lead", "leader"}] /\ pc'[p] = "lock"
      /\ \A q \in Proc \ {p} : pc'[q] = pc[q]
  BY <1>1 DEF CTypeOK
<1>4. call'[p][ip] = "sent"
  BY <1>1, BecomeEffect
<1>5. \A j \in Key : Leased(p, j)'
  BY <1>1, <1>3, <1>4 DEF Leased, Holds, Creating
<1> QED
  BY <1>1, <1>2, <1>3, <1>5, CallChanges

\* ... a sleep is over, ...
LEMMA WakeStep == ASSUME IInv, NEW p \in Proc, NEW k \in Key, Wake(p, k) PROVE IInv'
<1> USE DEF IInv
<1>1. /\ call[p][k] = "idle" /\ Become(p, k, "sent")
      /\ UNCHANGED <<prompt, client, pc, key, faults>>
  BY DEF Wake
<1>2. call'[p][k] = "sent" /\ clock'[p][k] = 0
  BY <1>1, BecomeEffect
<1>3. ASSUME prompt PROVE Leased(p, k)'
  <2> SUFFICES ASSUME Holds(p, k)
               PROVE  Owns(p, k) /\ clock'[p][k] <= Delay /\ key[k].left >= TTL - Delay - Sleep
    BY <1>1, <1>2, <1>3, Times DEF Leased, Holds, Creating, Owns, Limit, Due, CTypeOK, Node
  <2>1. clock[p][k] = Sleep
    BY <1>1, <1>3, Identities DEF Wake, CTypeOK
  <2>2. Owns(p, k) /\ key[k].left + clock[p][k] >= TTL - Delay
    BY <1>1, <1>3 DEF Leases, Leased, Due
  <2> QED BY <1>2, <2>1, <2>2, Times DEF Owns, CTypeOK, Node
<1> QED
  BY <1>1, <1>3, CallChanges DEF CTypeOK

\* ... a request is refused or given up, ...
LEMMA RefuseStep == ASSUME IInv, NEW p \in Proc, NEW k \in Key, Refuse(p, k) PROVE IInv'
<1> USE DEF IInv
<1>1. /\ call[p][k] = "sent" /\ Become(p, k, "failed")
      /\ UNCHANGED <<prompt, client, pc, key>>
  BY DEF Refuse
<1>2. call'[p][k] = "failed" /\ clock'[p][k] = 0
  BY <1>1, BecomeEffect
<1>3. faults' \in 0 .. MaxFaults
  BY ClusterAssumption DEF Refuse, Fault, CTypeOK
<1>4. ASSUME prompt PROVE Leased(p, k)'
  <2> SUFFICES ASSUME Holds(p, k)
               PROVE  Owns(p, k) /\ key[k].left >= TTL - 2 * Delay - Sleep
    BY <1>1, <1>2, <1>4, Times DEF Leased, Holds, Creating, Owns, Limit, Due, CTypeOK, Node
  <2>1. Owns(p, k) /\ clock[p][k] <= Delay /\ key[k].left + clock[p][k] >= TTL - Delay - Sleep
    BY <1>1, <1>4 DEF Leases, Leased, Due, Limit
  <2> QED BY <2>1, Times DEF Owns, CTypeOK, Node
<1> QED
  BY <1>1, <1>3, <1>4, CallChanges DEF CTypeOK

\* ... the key was refreshed, ...
LEMMA RefreshedStep == ASSUME IInv, NEW p \in Proc, NEW k \in Key, Refreshed(p, k) PROVE IInv'
<1> USE DEF IInv
<1>1. /\ call[p][k] = "ok" /\ Holds(p, k) /\ Become(p, k, "idle")
      /\ UNCHANGED <<prompt, client, pc, key, faults>>
  BY DEF Refreshed
<1>2. call'[p][k] = "idle" /\ clock'[p][k] = 0
  BY <1>1, BecomeEffect
<1>3. ASSUME prompt PROVE Leased(p, k)'
  <2>1. Owns(p, k) /\ clock[p][k] <= Delay /\ key[k].left + clock[p][k] >= TTL
    BY <1>1, <1>3 DEF Leases, Leased, Due, Limit
  <2>2. key[k].left >= TTL - Delay
    BY <2>1, Times DEF Owns, CTypeOK, Node
  <2> QED BY <1>1, <1>2, <2>1, <2>2, Times DEF Leased, Owns, Limit, Due, CTypeOK, Node
<1> QED
  BY <1>1, <1>3, CallChanges DEF CTypeOK

\* ... or it was not created.
LEMMA NotLockedStep == ASSUME IInv, NEW p \in Proc, NEW k \in Key, NotLocked(p, k) PROVE IInv'
<1> USE DEF IInv
<1>1. /\ Creating(p, k) /\ Become(p, k, "idle")
      /\ pc' = [pc EXCEPT ![p] = IF k = Leader THEN @ ELSE "find"]
      /\ UNCHANGED <<prompt, client, key, faults>>
  BY DEF NotLocked
<1>2. call'[p][k] = "idle"
  BY <1>1, BecomeEffect
<1>3. /\ pc' \in [Proc -> {"off", "find", "lock", "lead", "leader"}]
      /\ \A q \in Proc \ {p} : pc'[q] = pc[q]
      /\ pc'[p] = IF k = Leader THEN pc[p] ELSE "find"
  BY <1>1 DEF CTypeOK
<1>4. Leased(p, k)'
  BY <1>1, <1>2, <1>3, Identities DEF Leased, Holds, Creating, CTypeOK
<1>5. pc'[p] = pc[p] \/ \A j \in Key \ {k} : Leased(p, j)'
  BY <1>1, <1>3 DEF Leased, Holds, Creating
<1> QED
  BY <1>1, <1>3, <1>4, <1>5, CallChanges DEF CTypeOK

\* Lock has created the key.
LEMMA LockedStep == ASSUME IInv, NEW p \in Proc, NEW k \in Key, Locked(p, k) PROVE IInv'
<1> USE DEF IInv
<1>1. /\ call[p][k] = "ok" /\ Creating(p, k)
      /\ pc' = [pc EXCEPT ![p] = IF k = Leader THEN "leader" ELSE "lead"]
      /\ UNCHANGED <<prompt, client, key, faults>>
  BY DEF Locked
<1>2. /\ pc' \in [Proc -> {"off", "find", "lock", "lead", "leader"}]
      /\ pc'[p] = IF k = Leader THEN "leader" ELSE "lead"
      /\ \A q \in Proc \ {p} : pc'[q] = pc[q]
  BY <1>1 DEF CTypeOK
<1>3. /\ call' \in [Proc -> [Key -> {"idle", "sent", "ok", "failed"}]]
      /\ clock' \in [Proc -> [Key -> 0 .. TTL]]
      /\ call'[p][k] = "idle" /\ clock'[p][k] = 0
      /\ k # Leader => call'[p][Leader] = "sent"
      /\ \A q \in Proc, j \in Key : q # p \/ (j # k /\ (k = Leader \/ j # Leader)) =>
           call'[q][j] = call[q][j] /\ clock'[q][j] = clock[q][j]
  <2>1. CASE k = Leader
    <3>1. Become(p, k, "idle")
      BY <2>1 DEF Locked
    <3> QED BY <2>1, <3>1, BecomeEffect
  <2>2. CASE k # Leader
    <3> DEFINE calls == [call[p] EXCEPT ![k] = "idle", ![Leader] = "sent"]
               clocks == [clock[p] EXCEPT ![k] = 0, ![Leader] = 0]
    <3>1. call' = [call EXCEPT ![p] = calls] /\ clock' = [clock EXCEPT ![p] = clocks]
      BY <2>2 DEF Locked
    <3>2. /\ calls \in [Key -> {"idle", "sent", "ok", "failed"}]
          /\ clocks \in [Key -> 0 .. TTL]
          /\ calls[k] = "idle" /\ clocks[k] = 0 /\ calls[Leader] = "sent"
          /\ \A j \in Key : j # k /\ j # Leader =>
               calls[j] = call[p][j] /\ clocks[j] = clock[p][j]
      <4>1. /\ call[p] \in [Key -> {"idle", "sent", "ok", "failed"}]
            /\ clock[p] \in [Key -> 0 .. TTL] /\ 0 \in 0 .. TTL
        BY Times DEF CTypeOK
      <4>2. Leader \in Key
        BY DEF Key
      <4>3. /\ calls \in [Key -> {"idle", "sent", "ok", "failed"}]
            /\ calls[k] = "idle" /\ calls[Leader] = "sent"
            /\ \A j \in Key : j # k /\ j # Leader => calls[j] = call[p][j]
        BY <2>2, <4>1, <4>2
      <4>4. /\ clocks \in [Key -> 0 .. TTL] /\ clocks[k] = 0
            /\ \A j \in Key : j # k /\ j # Leader => clocks[j] = clock[p][j]
        BY <2>2, <4>1, <4>2
      <4> QED BY <4>3, <4>4
    <3> HIDE DEF calls, clocks
    <3> QED BY <2>2, <3>1, <3>2 DEF CTypeOK
  <2> QED BY <2>1, <2>2
<1>4. CTypeOK'
  BY <1>1, <1>2, <1>3 DEF CTypeOK
<1>5. ASSUME prompt PROVE Leased(p, k)'
  <2>1. Owns(p, k) /\ clock[p][k] <= Delay /\ key[k].left + clock[p][k] >= TTL
    BY <1>1, <1>5 DEF Leases, Leased, Due, Limit
  <2>2. key[k].left >= TTL - Delay
    BY <2>1, Times DEF Owns, CTypeOK, Node
  <2> QED BY <1>1, <1>3, <2>1, <2>2, Times DEF Leased, Owns, Limit, Due, CTypeOK, Node
<1>6. ASSUME prompt, NEW j \in Key \ {k} PROVE Leased(p, j)'
  <2>1. CASE k = Leader
    <3>1. /\ Holds(p, j)' = Holds(p, j) /\ Creating(p, j)' = Creating(p, j)
          /\ call'[p][j] = call[p][j] /\ clock'[p][j] = clock[p][j]
      BY <1>1, <1>2, <1>3, <2>1 DEF Holds, Creating
    <3>2. Limit(p, j)' = Limit(p, j) /\ Due(p, j)' = Due(p, j) /\ Owns(p, j)' = Owns(p, j)
      BY <1>1, <3>1 DEF Limit, Due, Owns
    <3>3. Leased(p, j)
      BY <1>6 DEF Leases
    <3> QED BY <1>1, <3>1, <3>2, <3>3 DEF Leased
  <2>2. CASE k # Leader
    <3>1. k = client[p].ip
      BY <1>1, <2>2 DEF Creating
    <3> QED BY <1>1, <1>2, <1>3, <2>2, <3>1, Identities DEF Leased, Holds, Creating, CTypeOK
  <2> QED BY <2>1, <2>2
<1>7. ASSUME prompt, NEW q \in Proc \ {p}, NEW j \in Key PROVE Leased(q, j)'
  <2>1. Leased(q, j) /\ call'[q][j] = call[q][j] /\ clock'[q][j] = clock[q][j]
    BY <1>3, <1>7 DEF Leases
  <2>2. Owns(q, j) => Owns(q, j)' /\ key[j].left \in Nat /\ key'[j].left = key[j].left
    BY <1>1 DEF Owns, CTypeOK, Node
  <2> QED BY <1>1, <1>2, <2>1, <2>2, Undisturbed
<1> QED
  BY <1>1, <1>4, <1>5, <1>6, <1>7 DEF Leases

\* etcd accepts a request: it creates a key that was free, or one that the caller
\* owns has its whole time again.
LEMMA ServeStep == ASSUME IInv, NEW p \in Proc, NEW k \in Key, Serve(p, k) PROVE IInv'
<1> USE DEF IInv
<1>1. /\ call[p][k] = "sent" /\ Accepts(p, k) /\ UNCHANGED <<prompt, client, pc>>
      /\ faults' \in 0 .. MaxFaults
  <2>1. Fault \/ UNCHANGED faults
    BY DEF Serve
  <2>2. faults' \in 0 .. MaxFaults
    BY <2>1, ClusterAssumption DEF Fault, CTypeOK
  <2> QED BY <2>2 DEF Serve
<1>2. PICK answered \in BOOLEAN :
        /\ key' = [key EXCEPT ![k] = Written(p, k, answered)]
        /\ answered => Become(p, k, "ok")
        /\ ~ answered => UNCHANGED <<call, clock>>
  BY DEF Serve
<1>3. /\ DOMAIN key' = Key
      /\ key'[k] = Written(p, k, answered)
      /\ \A j \in Key \ {k} : key'[j] = key[j]
  BY <1>2 DEF CTypeOK
<1>4. /\ key'[k] \in Node(k) /\ key'[k].index \in {key'[k].owner, None}
      /\ key'[k] # None
      /\ prompt => key'[k].left = TTL
      /\ Creating(p, k) => key'[k].owner = p
      /\ ~ Creating(p, k) => key[k] # None /\ key'[k].owner = key[k].owner
  <2> DEFINE owner == IF Creating(p, k) THEN p ELSE key[k].owner
  <2>1. owner \in Proc \cup {None} /\ (~ Creating(p, k) => key[k] # None /\ key[k].owner = p)
    BY <1>1, ClusterAssumption DEF Accepts, CTypeOK, Node
  <2>2. Value(p, k) \in IF k = Leader THEN Host ELSE Pid
    BY Identities DEF Value, CTypeOK
  <2>3. Written(p, k, answered) \in Node(k)
    BY <2>1, <2>2, Times DEF Written, Node
  <2>4. Written(p, k, answered).owner = owner /\ Written(p, k, answered).index \in {p, None}
        /\ (prompt => Written(p, k, answered).left = TTL)
    BY DEF Written
  <2> QED BY <1>3, <2>1, <2>3, <2>4, ClusterAssumption
<1>5. /\ call' \in [Proc -> [Key -> {"idle", "sent", "ok", "failed"}]]
      /\ clock' \in [Proc -> [Key -> 0 .. TTL]]
      /\ \A q \in Proc, j \in Key : q # p \/ j # k =>
           call'[q][j] = call[q][j] /\ clock'[q][j] = clock[q][j]
      /\ IF answered THEN call'[p][k] = "ok" /\ clock'[p][k] = 0
         ELSE call'[p][k] = "sent" /\ clock'[p][k] = clock[p][k]
  BY <1>1, <1>2, BecomeEffect DEF CTypeOK
<1>6. CTypeOK'
  BY <1>1, <1>3, <1>4, <1>5 DEF CTypeOK
<1>7. ASSUME NEW q \in Proc, NEW j \in Key, prompt, Owns(q, j)
      PROVE  Owns(q, j)' /\ key[j].left \in Nat /\ key'[j].left \in Nat
             /\ key'[j].left >= key[j].left
  <2>1. key[j].left \in 0 .. TTL
    BY <1>7 DEF Owns, CTypeOK, Node
  <2>2. CASE j = k
    <3>1. ~ Creating(p, k)
      BY <1>1, <1>7, <2>2 DEF Accepts, Owns
    <3> QED BY <1>4, <1>7, <2>1, <2>2, <3>1, Times DEF Owns
  <2>3. CASE j # k
    BY <1>3, <1>7, <2>1, <2>3 DEF Owns
  <2> QED BY <2>2, <2>3
<1>8. ASSUME prompt, NEW q \in Proc, NEW j \in Key, q # p \/ j # k \/ ~ answered
      PROVE  Leased(q, j)'
  BY <1>1, <1>5, <1>7, <1>8, Undisturbed DEF Leases
<1>9. ASSUME prompt, answered PROVE Leased(p, k)'
  <2>1. SUFFICES ASSUME Holds(p, k) \/ Creating(p, k) PROVE Leased(p, k)'
    BY <1>1 DEF Leased, Holds, Creating
  <2>2. Owns(p, k)'
    BY <1>1, <1>4, <1>9, <2>1 DEF Leases, Leased, Owns
  <2> QED BY <1>4, <1>5, <1>9, <2>2, Times DEF Leased, Limit, Due
<1> QED
  BY <1>1, <1>6, <1>8, <1>9 DEF Leases

\* A key whose time is over is the lock of nobody.
LEMMA ExpireStep == ASSUME IInv, NEW k \in Key, Expire(k) PROVE IInv'
<1> USE DEF IInv
<1>1. /\ key[k] # None /\ (prompt => key[k].left = 0) /\ key' = [key EXCEPT ![k] = None]
      /\ UNCHANGED <<prompt, client, pc, call, clock, faults>>
  BY DEF Expire
<1>2. CTypeOK'
  BY <1>1 DEF CTypeOK
<1>3. ASSUME prompt, NEW p \in Proc, NEW j \in Key PROVE Leased(p, j)'
  <2>1. CASE j = k
    <3>1. ~ (Holds(p, k) \/ (Creating(p, k) /\ call[p][k] = "ok"))
      <4> SUFFICES ASSUME clock[p][k] <= Limit(p, k), clock[p][k] >= Due(p, k) PROVE FALSE
        BY <1>1, <1>3 DEF Leases, Leased, CTypeOK
      <4> QED BY Times DEF Limit, Due, CTypeOK
    <3> QED BY <1>1, <2>1, <3>1 DEF Leased, Holds, Creating
  <2>2. CASE j # k
    <3>1. key'[j] = key[j]
      BY <1>1, <2>2 DEF CTypeOK
    <3> QED BY <1>1, <1>3, <3>1, Undisturbed DEF Leases, Owns, CTypeOK, Node
  <2> QED BY <2>1, <2>2
<1> QED
  BY <1>1, <1>2, <1>3 DEF Leases

\* Time passes no further than each goroutine allows.
LEMMA TickStep == ASSUME IInv, Tick PROVE IInv'
<1> USE DEF IInv
<1>1. /\ prompt /\ UNCHANGED <<prompt, client, pc, call, faults>>
      /\ \A p \in Proc, k \in Key : Waiting(p, k) => clock[p][k] < Limit(p, k)
      /\ clock' = [p \in Proc |-> [k \in Key |->
                     IF Waiting(p, k) THEN clock[p][k] + 1 ELSE clock[p][k]]]
      /\ key' = [k \in Key |-> IF key[k] = None THEN None
                               ELSE [key[k] EXCEPT !.left = IF @ = 0 THEN 0 ELSE @ - 1]]
  BY DEF Tick
<1>2. ASSUME NEW p \in Proc, NEW k \in Key
      PROVE  /\ clock'[p][k] \in 0 .. TTL
             /\ clock'[p][k] = IF Waiting(p, k) THEN clock[p][k] + 1 ELSE clock[p][k]
             /\ Waiting(p, k) => clock'[p][k] <= Limit(p, k)
  BY <1>1, Times DEF Limit, CTypeOK
<1>3. ASSUME NEW k \in Key
      PROVE  /\ key[k] = None => key'[k] = None
             /\ key[k] # None =>
                  /\ key'[k] \in Node(k) /\ key'[k] # None
                  /\ key'[k].owner = key[k].owner /\ key'[k].index = key[k].index
                  /\ key[k].left \in Nat
                  /\ key'[k].left = IF key[k].left = 0 THEN 0 ELSE key[k].left - 1
  <2>1. CASE key[k] = None
    BY <1>1, <2>1
  <2>2. CASE key[k] # None
    <3>1. key[k] \in Node(k) /\ key[k].left \in 0 .. TTL
      BY <2>2 DEF CTypeOK, Node
    <3>2. key'[k] = [key[k] EXCEPT !.left = IF @ = 0 THEN 0 ELSE @ - 1]
      BY <1>1, <2>2
    <3>3. key'[k] \in Node(k) /\ key'[k].owner = key[k].owner /\ key'[k].index = key[k].index
          /\ key'[k].left = IF key[k].left = 0 THEN 0 ELSE key[k].left - 1
      BY <3>1, <3>2, Times DEF Node
    <3> QED BY <2>2, <3>1, <3>3, ClusterAssumption
  <2> QED BY <2>1, <2>2
<1>4. CTypeOK'
  BY <1>1, <1>2, <1>3 DEF CTypeOK
<1>5. ASSUME NEW p \in Proc, NEW k \in Key PROVE Leased(p, k)'
  <2>1. /\ Holds(p, k)' = Holds(p, k) /\ Creating(p, k)' = Creating(p, k)
        /\ Limit(p, k)' = Limit(p, k) /\ Due(p, k)' = Due(p, k)
    BY <1>1 DEF Holds, Creating, Limit, Due
  <2> SUFFICES ASSUME Holds(p, k) \/ (Creating(p, k) /\ call[p][k] = "ok")
               PROVE  /\ Owns(p, k)' /\ clock'[p][k] <= Limit(p, k)
                      /\ key'[k].left + clock'[p][k] >= Due(p, k)
    BY <1>1, <2>1 DEF Leased
  <2>2. Waiting(p, k)
    BY DEF Waiting
  <2>3. Owns(p, k) /\ key[k].left + clock[p][k] >= Due(p, k) /\ clock[p][k] < Limit(p, k)
    BY <1>1, <2>2 DEF Leases, Leased
  <2>4. Limit(p, k) < Due(p, k) /\ Due(p, k) \in Int /\ Limit(p, k) \in Int
    BY Times DEF Limit, Due, CTypeOK
  <2> QED BY <1>2, <1>3, <2>2, <2>3, <2>4 DEF Owns, CTypeOK
<1> QED
  BY <1>1, <1>4, <1>5 DEF Leases

\* Every step preserves it.
LEMMA Step == ASSUME IInv, [CNext]_cvars PROVE IInv'
<1>1. ASSUME NEW p \in Proc, NEW k \in Key, Goroutine(p, k) PROVE IInv'
  <2>1. CASE LockLost(p, k)
    BY <2>1, ExitStep DEF LockLost, IInv, CTypeOK
  <2> QED BY <1>1, <2>1, WakeStep, ServeStep, RefuseStep, LockedStep, NotLockedStep, RefreshedStep
          DEF Goroutine
<1>2. ASSUME NEW p \in Proc, Main(p) PROVE IInv'
  <2>1. CASE InstanceFound(p)
    BY <2>1, ExitStep DEF InstanceFound, IInv, CTypeOK
  <2> QED BY <1>2, <2>1, StartStep, NoInstanceStep DEF Main
<1>3. ASSUME NEW p \in Proc, Kill(p) PROVE IInv'
  <2>1. faults' \in 0 .. MaxFaults
    BY <1>3, ClusterAssumption DEF Kill, Fault, IInv, CTypeOK
  <2> QED BY <1>3, <2>1, ExitStep DEF Kill
<1>4. CASE UNCHANGED cvars
  BY <1>4 DEF cvars, IInv, CTypeOK, Leases, Leased, Holds, Creating, Owns, Limit, Due
<1> QED
  BY <1>1, <1>2, <1>3, <1>4, ExpireStep, TickStep DEF CNext

-----------------------------------------------------------------------------
(* What follows. *)

\* IInv is an invariant of any number of processes, hosts and faults, for any time
\* to live and delay with 3 * Delay + TTL \div 3 < TTL.
THEOREM Inductive == CSpec => []IInv
  BY ClusterInit, Step, PTL DEF CSpec

\* The types; the index of a key is known to the process that created it, or to
\* nobody.
THEOREM TypeCorrect == CSpec => []CTypeOK
<1>1. IInv => CTypeOK
  BY DEF IInv
<1> QED
  BY Inductive, <1>1, PTL

\* Who believes to hold a lock of cluster/client.go does, while processes keep
\* time: Lock refreshes the key or exits before the key is free.
THEOREM LocksHeld == CSpec => []Held
<1>1. IInv => Held
  BY DEF IInv, Leases, Leased, Held
<1> QED
  BY Inductive, <1>1, PTL

\* No two processes lead the cluster, ...
OneLeader ==
  prompt => \A p, q \in Proc : pc[p] = "leader" /\ pc[q] = "leader" => p = q

\* ... and no two are registered for one host.
OneInstance ==
  prompt => \A p, q \in Proc :
    pc[p] \in {"lead", "leader"} /\ pc[q] \in {"lead", "leader"}
    /\ client[p].ip = client[q].ip => p = q

\* The leadership and the registration of a host are exclusive, which is
\* what Register and BecomeLeader are for.
COROLLARY MutualExclusion == CSpec => [](OneLeader /\ OneInstance)
<1>1. CTypeOK /\ Held => OneLeader /\ OneInstance
  <2> SUFFICES ASSUME CTypeOK, Held PROVE OneLeader /\ OneInstance
    OBVIOUS
  <2>1. OneLeader
    BY DEF Held, Holds, Owns, OneLeader, Key
  <2>2. OneInstance
    BY Identities DEF Held, Holds, Owns, OneInstance, CTypeOK
  <2> QED BY <2>1, <2>2
<1> QED
  BY TypeCorrect, LocksHeld, <1>1, PTL
=============================================================================
