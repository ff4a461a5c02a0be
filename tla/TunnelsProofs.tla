--------------------------- MODULE TunnelsProofs ---------------------------
(***************************************************************************)
(* Theorems about modules Scheduler and Tunnels, for every value of their  *)
(* constants.  The first part is about Scheduler: each of its actions      *)
(* preserves the invariant IInv, and it implements LoadBalancer.  The      *)
(* second is about Tunnels: the steps it shares with Scheduler keep IInv   *)
(* by what the first part shows; the rest is about slots and connections.  *)
(***************************************************************************)
EXTENDS Tunnels, FiniteSetTheorems, TLAPS

-----------------------------------------------------------------------------
(* Facts about the operators. *)

\* The objects a status message makes are Backend objects.
LEMMA NewObjectsType ==
  ASSUME SchedulerAssumption, allocated \in Nat,
         NEW N \in SUBSET Addr, NEW f \in NewObjects(N),
         allocated + Cardinality(N) <= MaxObjects
  PROVE  /\ Cardinality(N) \in Nat
         /\ f \in [N -> allocated + 1 .. allocated + Cardinality(N)]
         /\ f \in [N -> Backend]
         /\ \A a, c \in N : a # c => f[a] # f[c]
<1>1. Cardinality(N) \in Nat
  BY FS_Subset, FS_CardinalityType DEF SchedulerAssumption
<1>2. /\ f \in [N -> allocated + 1 .. allocated + Cardinality(N)]
      /\ \A a, c \in N : a # c => f[a] # f[c]
  BY DEF NewObjects
<1>3. allocated + 1 .. allocated + Cardinality(N) \subseteq Backend
  BY <1>1 DEF Backend, SchedulerAssumption
<1> QED
  BY <1>1, <1>2, <1>3

\* Decrementing a counter, of a backend or of none, leaves integers.
LEMMA CountDown ==
  ASSUME NEW F \in [Backend -> Int], NEW b
  PROVE  [F EXCEPT ![b] = @ - 1] \in [Backend -> Int]
<1>1. CASE b \in Backend
  BY <1>1
<1>2. CASE b \notin Backend
  <2>1. [F EXCEPT ![b] = @ - 1] = F
    BY <1>2
  <2> QED BY <2>1
<1> QED
  BY <1>1, <1>2

\* Sending on a channel and receiving from it, appending to a list.
LEMMA AppendDistinct ==
  ASSUME NEW S, NEW s \in Seq(S), NEW r \in S, Distinct(s), r \notin Elements(s)
  PROVE  /\ Distinct(Append(s, r))
         /\ Elements(Append(s, r)) = Elements(s) \cup {r}
<1>1. /\ DOMAIN Append(s, r) = 1 .. Len(s) + 1
      /\ \A i \in 1 .. Len(s) : Append(s, r)[i] = s[i]
      /\ Append(s, r)[Len(s) + 1] = r
      /\ DOMAIN s = 1 .. Len(s)
      /\ Len(s) \in Nat
  OBVIOUS
<1> QED
  BY <1>1 DEF Distinct, Elements

\* The channel or list without its head loses that element only.
LEMMA TailDistinct ==
  ASSUME NEW S, NEW s \in Seq(S), s # <<>>, Distinct(s)
  PROVE  /\ Head(s) \in Elements(s)
         /\ Distinct(Tail(s))
         /\ Elements(Tail(s)) = Elements(s) \ {Head(s)}
<1>1. /\ Len(s) \in Nat \ {0}
      /\ DOMAIN s = 1 .. Len(s)
      /\ DOMAIN Tail(s) = 1 .. Len(s) - 1
      /\ \A i \in 1 .. Len(s) - 1 : Tail(s)[i] = s[i + 1]
      /\ Head(s) = s[1]
  OBVIOUS
<1>2. Head(s) \in Elements(s) /\ Distinct(Tail(s))
  BY <1>1 DEF Distinct, Elements
<1>3. Elements(Tail(s)) \subseteq Elements(s) \ {Head(s)}
  BY <1>1 DEF Distinct, Elements
<1>4. ASSUME NEW i \in DOMAIN s, s[i] # s[1] PROVE s[i] \in Elements(Tail(s))
  <2>1. i - 1 \in 1 .. Len(s) - 1 /\ Tail(s)[i - 1] = s[i]
    BY <1>1, <1>4
  <2> QED
    BY <1>1, <2>1 DEF Elements
<1> QED
  BY <1>1, <1>2, <1>3, <1>4 DEF Elements

-----------------------------------------------------------------------------
(* Types. *)

\* dispatch keeps the types.
LEMMA DispatchType ==
  ASSUME TypeOK, NEW r \in Req, NEW P \in SUBSET Backend,
         NEW load \in [Backend -> Int], Dispatch(r, P, load)
  PROVE  /\ pool' \subseteq Backend
         /\ ongoing' \in [Backend -> Int]
         /\ pending' \in Seq(Req)
         /\ phase' \in [Req -> Phase]
         /\ backend' \in [Req -> Backend \cup {Nil}]
         /\ closed' \subseteq Req
<1>1. \A b \in HeapTop(P, load) : b \in Backend
  BY DEF HeapTop
<1>2. CASE /\ P = {}
           /\ pending' = Append(pending, r)
           /\ phase' = [phase EXCEPT ![r] = "pending"]
           /\ ongoing' = load
           /\ UNCHANGED <<backend, closed>>
  BY <1>2 DEF TypeOK, Phase, Dispatch
<1>3. CASE \E b \in HeapTop(P, load) :
             /\ phase' = [phase EXCEPT ![r] = "refused"]
             /\ closed' = closed \cup {r}
             /\ ongoing' = load
             /\ UNCHANGED <<pending, backend>>
  BY <1>3 DEF TypeOK, Phase, Dispatch
<1>4. CASE \E b \in HeapTop(P, load) :
             /\ phase' = [phase EXCEPT ![r] = "connecting"]
             /\ backend' = [backend EXCEPT ![r] = b]
             /\ ongoing' = [load EXCEPT ![b] = @ + 1]
             /\ UNCHANGED <<pending, closed>>
  BY <1>1, <1>4 DEF TypeOK, Phase, Dispatch
<1> QED
  BY <1>2, <1>3, <1>4 DEF Dispatch

\* A status message keeps the types.
LEMMA StatusType ==
  ASSUME SchedulerAssumption, TypeOK, NEW S \in SUBSET Addr, Status(S)
  PROVE  TypeOK'
<1>1. /\ Fresh(S) \in SUBSET Addr
      /\ Known(S) \subseteq Addr
      /\ Gone(S) \subseteq Addr
  BY DEF Fresh, Known, Gone
<1>2. /\ allocated \in Nat
      /\ allocated + Cardinality(Fresh(S)) <= MaxObjects
      /\ allocated' = allocated + Cardinality(Fresh(S))
  BY DEF Status, TypeOK
<1>3. PICK f \in NewObjects(Fresh(S)) :
        LET entered == {f[a] : a \in Fresh(S)} IN
        /\ address' = [b \in Backend |-> IF b \in entered
                                         THEN CHOOSE a \in Fresh(S) : f[a] = b
                                         ELSE address[b]]
        /\ backends' = [a \in Addr |-> CASE a \in Fresh(S) -> f[a]
                                         [] a \in Known(S) -> backends[a]
                                         [] OTHER -> Nil]
        /\ pool' = Retained(S) \cup entered
  BY DEF Status
<1>4. /\ Cardinality(Fresh(S)) \in Nat
      /\ f \in [Fresh(S) -> Backend]
  BY <1>1, <1>2, NewObjectsType
<1>5. allocated' \in 0 .. MaxObjects
  BY <1>2, <1>4 DEF SchedulerAssumption
<1>6. address' \in [Backend -> Addr \cup {Nil}]
  <2>1. ASSUME NEW b \in Backend, b \in {f[a] : a \in Fresh(S)}
        PROVE  (CHOOSE a \in Fresh(S) : f[a] = b) \in Addr
    BY <1>1, <2>1
  <2> QED
    BY <1>3, <2>1 DEF TypeOK
<1>7. backends' \in [Addr -> Backend \cup {Nil}]
  BY <1>3, <1>4 DEF TypeOK
<1>8. pool' \subseteq Backend
  <2>1. \A a \in Known(S) : backends[a] \in Backend
    BY DEF Known, TypeOK
  <2> QED
    BY <1>3, <1>4, <2>1 DEF Retained, TypeOK
<1> QED
  BY <1>5, <1>6, <1>7, <1>8 DEF TypeOK, Status

\* Each step of the scheduler and of a forwarder keeps the types.
LEMMA TypeStep == ASSUME TypeOK, [Next]_vars PROVE TypeOK'
<1> USE SchedulerAssumption
<1>1. ASSUME NEW r \in Req, Job(r) PROVE TypeOK'
  <2>1. /\ pool \in SUBSET Backend
        /\ ongoing \in [Backend -> Int]
    BY DEF TypeOK
  <2> QED
    BY <1>1, <2>1, DispatchType DEF Job, TypeOK
<1>2. CASE Finish
  <2> DEFINE r == Head(done)
             b == backend[r]
             load == [ongoing EXCEPT ![b] = @ - 1]
  <2>1. /\ r \in Req
        /\ done' \in Seq(Req)
    BY <1>2 DEF Finish, Released, Evicted, Resorted, TypeOK
  <2>2. /\ load \in [Backend -> Int]
        /\ pool \ {b} \in SUBSET Backend
    BY CountDown DEF TypeOK
  <2>3. CASE Dispatch(r, pool \ {b}, load)
    <3> HIDE DEF r, b, load
    <3> QED
      BY <1>2, <2>1, <2>2, <2>3, DispatchType
      DEF Finish, Released, Evicted, Resorted, TypeOK
  <2>4. CASE /\ ongoing' = load
             /\ phase' = [phase EXCEPT ![r] = "finished"]
             /\ UNCHANGED <<pool, pending, backend, closed>>
    BY <1>2, <2>1, <2>2, <2>4 DEF Finish, Released, Evicted, Resorted, TypeOK, Phase
  <2> QED
    BY <1>2, <2>3, <2>4 DEF Finish, Released, Evicted, Resorted
<1>3. CASE StatusAny
  BY <1>3, StatusType DEF StatusAny
<1>4. ASSUME NEW r \in Req, Forward(r) PROVE TypeOK'
  <2>1. CASE DialOk(r)
    BY <2>1 DEF DialOk, TypeOK, Phase
  <2>2. ASSUME Report(r) PROVE done' \in Seq(Req) /\ phase' \in [Req -> Phase]
    BY <2>2 DEF Report, TypeOK, Phase
  <2>3. CASE DialFail(r)
    BY <2>2, <2>3 DEF DialFail, TypeOK
  <2>4. ASSUME NEW clean \in BOOLEAN, CopyEnd(r, clean) PROVE TypeOK'
    BY <2>2, <2>4 DEF CopyEnd, TypeOK
  <2> QED
    BY <1>4, <2>1, <2>3, <2>4 DEF Forward
<1>5. CASE UNCHANGED vars
  BY <1>5 DEF vars, TypeOK
<1> QED
  BY <1>1, <1>2, <1>3, <1>4, <1>5 DEF Next

\* Every reachable state has the types of the Go declarations.
THEOREM TypeCorrect == Spec => []TypeOK
<1>1. Init => TypeOK
  BY SchedulerAssumption DEF Init, TypeOK, Phase, SchedulerAssumption
<1> QED
  BY <1>1, TypeStep, PTL DEF Spec

-----------------------------------------------------------------------------
(* What dispatch does to the request it is given. *)

\* dispatch(r) changes no other request, and leaves r waiting, refused or with
\* a forwarder for a backend of the heap.
LEMMA DispatchPhase ==
  ASSUME TypeOK, NEW r \in Req, NEW P \in SUBSET Backend, NEW load,
         Dispatch(r, P, load)
  PROVE  /\ \A q \in Req \ {r} : phase'[q] = phase[q] /\ backend'[q] = backend[q]
         /\ phase'[r] \in {"pending", "refused", "connecting"}
         /\ phase'[r] = "connecting" => backend'[r] \in P
         /\ pool' = P
BY DEF Dispatch, TypeOK, HeapTop

\* dispatch keeps s.pending the list of the requests that wait.
LEMMA DispatchPending ==
  ASSUME TypeOK, NEW r \in Req, NEW P, NEW load, Dispatch(r, P, load),
         phase[r] # "pending",
         Distinct(pending), Elements(pending) = {q \in Req : phase[q] = "pending"}
  PROVE  /\ Distinct(pending')
         /\ Elements(pending') = {q \in Req : phase'[q] = "pending"}
<1>1. CASE /\ pending' = Append(pending, r)
           /\ phase' = [phase EXCEPT ![r] = "pending"]
  <2>1. r \notin Elements(pending)
    OBVIOUS
  <2>2. /\ Distinct(pending')
        /\ Elements(pending') = Elements(pending) \cup {r}
    BY <1>1, <2>1, AppendDistinct DEF TypeOK
  <2> QED
    BY <1>1, <2>2 DEF TypeOK
<1>2. CASE /\ pending' = pending
           /\ \/ phase' = [phase EXCEPT ![r] = "refused"]
              \/ phase' = [phase EXCEPT ![r] = "connecting"]
  BY <1>2 DEF TypeOK
<1> QED
  BY <1>1, <1>2 DEF Dispatch

\* The counters stay exact when dispatch is given counters that are exact but
\* for r.
LEMMA DispatchExact ==
  ASSUME SchedulerAssumption, TypeOK, NEW r \in Req, NEW P \in SUBSET Backend,
         NEW load \in [Backend -> Int], Dispatch(r, P, load),
         \A b \in Backend : load[b] = Cardinality(Carried(b) \ {r})
  PROVE  OngoingExact'
<1> SUFFICES ASSUME NEW b \in Backend
             PROVE  ongoing'[b] = Cardinality(Carried(b)')
  BY DEF OngoingExact
<1>1. IsFiniteSet(Carried(b) \ {r})
  BY FS_Subset DEF SchedulerAssumption, Carried
<1>2. \A q \in Req \ {r} : phase'[q] = phase[q] /\ backend'[q] = backend[q]
  BY DispatchPhase
<1>3. CASE ongoing' = load /\ phase'[r] \notin InFlight
  <2>1. Carried(b)' = Carried(b) \ {r}
    BY <1>2, <1>3 DEF Carried
  <2> QED
    BY <1>3, <2>1
<1>4. ASSUME NEW c \in P,
             phase' = [phase EXCEPT ![r] = "connecting"],
             backend' = [backend EXCEPT ![r] = c],
             ongoing' = [load EXCEPT ![c] = @ + 1]
      PROVE  ongoing'[b] = Cardinality(Carried(b)')
  <2>1. phase'[r] \in InFlight /\ backend'[r] = c
    BY <1>4 DEF TypeOK, InFlight
  <2>2. CASE b = c
    <3>1. Carried(b)' = (Carried(b) \ {r}) \cup {r}
      BY <1>2, <2>1, <2>2 DEF Carried
    <3>2. Cardinality(Carried(b)') = Cardinality(Carried(b) \ {r}) + 1
      BY <1>1, <3>1, FS_AddElement
    <3> QED
      BY <1>4, <2>2, <3>2
  <2>3. CASE b # c
    <3>1. Carried(b)' = Carried(b) \ {r}
      BY <1>2, <2>1, <2>3 DEF Carried
    <3> QED
      BY <1>4, <2>3, <3>1
  <2> QED
    BY <2>2, <2>3
<1> QED
  BY <1>3, <1>4 DEF Dispatch, HeapTop, InFlight, TypeOK

-----------------------------------------------------------------------------
(* Each action preserves the inductive invariant. *)

\* The case of a new connection keeps the invariant.
LEMMA JobStep ==
  ASSUME SchedulerAssumption, IInv, NEW r \in Req, Job(r), TypeOK'
  PROVE  IInv'
<1>1. /\ pool \in SUBSET Backend
      /\ ongoing \in [Backend -> Int]
      /\ Dispatch(r, pool, ongoing)
      /\ phase[r] = "new"
      /\ UNCHANGED <<allocated, address, backends, done>>
  BY DEF IInv, TypeOK, Job
<1>2. /\ \A q \in Req \ {r} : phase'[q] = phase[q] /\ backend'[q] = backend[q]
      /\ phase'[r] \in {"pending", "refused", "connecting"}
      /\ phase'[r] = "connecting" => backend'[r] \in pool
      /\ pool' = pool
  BY <1>1, DispatchPhase DEF IInv
<1>3. Holding'
  BY <1>1, <1>2 DEF IInv, Holding, InFlight
<1>4. Registered' /\ PoolRegistered'
  BY <1>1, <1>2 DEF IInv, Registered, PoolRegistered
<1>5. OngoingExact'
  <2>1. \A b \in Backend : Carried(b) \ {r} = Carried(b)
    BY <1>1 DEF Carried, InFlight
  <2> QED
    BY <1>1, <2>1, DispatchExact DEF IInv, OngoingExact
<1>6. OneHome'
  <2>1. /\ Distinct(pending')
        /\ Elements(pending') = {q \in Req : phase'[q] = "pending"}
    BY <1>1, DispatchPending DEF IInv, OneHome
  <2>2. {q \in Req : phase'[q] = "done"} = {q \in Req : phase[q] = "done"}
    BY <1>1, <1>2
  <2> QED
    BY <1>1, <2>1, <2>2 DEF IInv, OneHome
<1> QED
  BY <1>3, <1>4, <1>5, <1>6 DEF IInv

\* The case of a finished request keeps the invariant.
LEMMA FinishStep ==
  ASSUME SchedulerAssumption, IInv, Finish, TypeOK'
  PROVE  IInv'
<1> DEFINE r == Head(done)
           b == backend[r]
           load == [ongoing EXCEPT ![b] = @ - 1]
<1>1. /\ r \in Req
      /\ phase[r] = "done"
      /\ Distinct(Tail(done))
      /\ Elements(Tail(done)) = {q \in Req : phase[q] = "done"} \ {r}
  BY TailDistinct DEF IInv, TypeOK, OneHome, Finish
<1>2. b \in Backend
  BY <1>1 DEF IInv, Holding, InFlight
<1>3. /\ done' = Tail(done)
      /\ UNCHANGED <<allocated, address, backends>>
      /\ \/ Dispatch(r, pool \ {b}, load)
         \/ /\ ongoing' = load
            /\ phase' = [phase EXCEPT ![r] = "finished"]
            /\ UNCHANGED <<pool, pending, backend, closed>>
  BY DEF Finish, Released, Evicted, Resorted
<1>4. /\ pool \ {b} \in SUBSET Backend
      /\ load \in [Backend -> Int]
  BY <1>2, CountDown DEF IInv, TypeOK
<1>5. \A c \in Backend : load[c] = Cardinality(Carried(c) \ {r})
  <2> TAKE c \in Backend
  <2>1. /\ ongoing[c] = Cardinality(Carried(c))
        /\ ongoing \in [Backend -> Int]
    BY DEF IInv, OngoingExact, TypeOK
  <2>2. CASE c = b
    <3>1. r \in Carried(c) /\ IsFiniteSet(Carried(c))
      BY <1>1, <2>2, FS_Subset DEF Carried, InFlight, SchedulerAssumption
    <3>2. Cardinality(Carried(c) \ {r}) = Cardinality(Carried(c)) - 1
      BY <3>1, FS_RemoveElement
    <3> QED
      BY <2>1, <2>2, <3>2
  <2>3. CASE c # b
    <3>1. Carried(c) \ {r} = Carried(c)
      BY <2>3 DEF Carried
    <3> QED
      BY <2>1, <2>3, <3>1
  <2> QED
    BY <2>2, <2>3
<1>6. CASE Dispatch(r, pool \ {b}, load)
  <2> HIDE DEF r, b, load
  <2>1. /\ \A q \in Req \ {r} : phase'[q] = phase[q] /\ backend'[q] = backend[q]
        /\ phase'[r] \in {"pending", "refused", "connecting"}
        /\ phase'[r] = "connecting" => backend'[r] \in pool \ {b}
        /\ pool' = pool \ {b}
    BY <1>1, <1>4, <1>6, DispatchPhase DEF IInv
  <2>2. Holding'
    BY <1>4, <2>1 DEF IInv, Holding, InFlight
  <2>3. Registered' /\ PoolRegistered'
    BY <1>3, <2>1 DEF IInv, Registered, PoolRegistered
  <2>4. OngoingExact'
    BY <1>1, <1>4, <1>5, <1>6, DispatchExact DEF IInv
  <2>5. /\ Distinct(pending')
        /\ Elements(pending') = {q \in Req : phase'[q] = "pending"}
    BY <1>1, <1>6, DispatchPending DEF IInv, OneHome
  <2>6. Elements(done') = {q \in Req : phase'[q] = "done"}
    BY <1>1, <1>3, <2>1
  <2>7. OneHome'
    BY <1>1, <1>3, <2>5, <2>6 DEF OneHome
  <2> QED
    BY <2>2, <2>3, <2>4, <2>7 DEF IInv
<1>7. CASE /\ ongoing' = load
           /\ phase' = [phase EXCEPT ![r] = "finished"]
           /\ UNCHANGED <<pool, pending, backend, closed>>
  <2> HIDE DEF r, b, load
  <2>1. /\ \A q \in Req \ {r} : phase'[q] = phase[q]
        /\ phase'[r] = "finished"
        /\ backend' = backend
    BY <1>1, <1>7 DEF IInv, TypeOK
  <2>2. Holding'
    BY <1>1, <2>1 DEF IInv, Holding, InFlight
  <2>3. Registered' /\ PoolRegistered'
    BY <1>3, <1>7 DEF IInv, Registered, PoolRegistered
  <2>4. \A c \in Backend : Carried(c)' = Carried(c) \ {r}
    BY <1>1, <2>1 DEF Carried, InFlight
  <2>5. OngoingExact'
    BY <1>5, <1>7, <2>4 DEF OngoingExact
  <2>6. /\ Elements(done') = {q \in Req : phase'[q] = "done"}
        /\ {q \in Req : phase'[q] = "pending"} = {q \in Req : phase[q] = "pending"}
    BY <1>1, <1>3, <2>1
  <2>7. OneHome'
    BY <1>1, <1>3, <1>7, <2>6 DEF IInv, OneHome
  <2> QED
    BY <2>2, <2>3, <2>5, <2>7 DEF IInv
<1> QED
  BY <1>3, <1>6, <1>7

\* The case of a status message keeps the invariant.
LEMMA StatusStep ==
  ASSUME SchedulerAssumption, IInv, NEW S \in SUBSET Addr, Status(S), TypeOK'
  PROVE  IInv'
<1>1. /\ allocated \in Nat
      /\ allocated + Cardinality(Fresh(S)) <= MaxObjects
      /\ allocated' = allocated + Cardinality(Fresh(S))
      /\ UNCHANGED <<ongoing, pending, done, phase, backend, closed>>
  BY DEF Status, IInv, TypeOK
<1>2. PICK f \in NewObjects(Fresh(S)) :
        LET entered == {f[a] : a \in Fresh(S)} IN
        /\ address' = [b \in Backend |-> IF b \in entered
                                         THEN CHOOSE a \in Fresh(S) : f[a] = b
                                         ELSE address[b]]
        /\ backends' = [a \in Addr |-> CASE a \in Fresh(S) -> f[a]
                                         [] a \in Known(S) -> backends[a]
                                         [] OTHER -> Nil]
        /\ pool' = Retained(S) \cup entered
  BY DEF Status
<1> DEFINE entered == {f[a] : a \in Fresh(S)}
           owner(b) == CHOOSE a \in Fresh(S) : f[a] = b
<1>3. /\ Fresh(S) \in SUBSET Addr
      /\ Cardinality(Fresh(S)) \in Nat
      /\ f \in [Fresh(S) -> allocated + 1 .. allocated + Cardinality(Fresh(S))]
      /\ f \in [Fresh(S) -> Backend]
      /\ \A a, c \in Fresh(S) : a # c => f[a] # f[c]
  <2>1. Fresh(S) \in SUBSET Addr
    BY DEF Fresh
  <2> QED
    BY <1>1, <2>1, NewObjectsType
<1>4. ASSUME NEW a \in Fresh(S)
      PROVE  /\ backends'[a] = f[a]
             /\ f[a] \in 1 .. allocated'
             /\ address'[f[a]] = a
  <2>1. f[a] \in Backend /\ f[a] \in entered /\ a \in Addr
    BY <1>3
  <2>2. owner(f[a]) = a
    BY <1>3
  <2>3. f[a] \in 1 .. allocated'
    BY <1>1, <1>3
  <2>4. address'[f[a]] = owner(f[a])
    <3>1. address' = [b \in Backend |-> IF b \in entered THEN owner(b) ELSE address[b]]
      BY <1>2
    <3> HIDE DEF entered, owner
    <3> QED BY <2>1, <3>1
  <2>5. backends'[a] = f[a]
    <3>1. a \notin Known(S)
      BY DEF Fresh, Known
    <3> QED BY <1>2, <2>1, <3>1
  <2> QED
    BY <2>2, <2>3, <2>4, <2>5
<1>5. ASSUME NEW a \in Known(S)
      PROVE  /\ backends'[a] = backends[a]
             /\ backends[a] \in 1 .. allocated'
             /\ address'[backends[a]] = a
  <2>1. /\ a \in Addr
        /\ a \notin Fresh(S)
        /\ backends[a] \in 1 .. allocated
        /\ backends[a] \in Backend
        /\ address[backends[a]] = a
    BY DEF Known, Fresh, IInv, Registered, TypeOK
  <2>2. backends[a] \notin entered
    BY <1>1, <1>3, <2>1
  <2> QED
    BY <1>1, <1>2, <1>3, <2>1, <2>2
<1>6. ASSUME NEW a \in Addr, backends'[a] # Nil
      PROVE  a \in Fresh(S) \/ a \in Known(S)
  BY <1>2, <1>6
<1>7. Registered'
  BY <1>4, <1>5, <1>6 DEF Registered
<1>8. PoolRegistered'
  <2> SUFFICES ASSUME NEW b \in pool'
               PROVE  \E a \in Addr : address'[b] = a /\ backends'[a] = b
    BY DEF PoolRegistered
  <2>1. CASE b \in entered
    BY <1>3, <1>4, <2>1
  <2>2. ASSUME NEW a \in Known(S), b = backends[a]
        PROVE  \E c \in Addr : address'[b] = c /\ backends'[c] = b
    BY <1>5, <2>2 DEF Known, TypeOK, IInv, Fresh, Registered
  <2>3. CASE b \in pool /\ \A a \in Gone(S) : b # backends[a]
    <3>1. PICK a \in Addr : a = address[b] /\ backends[a] = b
      BY <2>3 DEF IInv, PoolRegistered
    <3>2. b # Nil
      BY <2>3 DEF IInv, TypeOK, Backend, Nil
    <3>3. a \in Known(S)
      BY <2>3, <3>1, <3>2 DEF Known, Gone
    <3> QED
      BY <2>2, <3>1, <3>3
  <2> QED
    BY <1>2, <2>1, <2>2, <2>3 DEF Retained
<1>9. Holding' /\ OngoingExact' /\ OneHome'
  BY <1>1 DEF IInv, Holding, OngoingExact, Carried, OneHome
<1> QED
  BY <1>7, <1>8, <1>9 DEF IInv

\* A forwarder that reports its request hands it over on the done channel.
LEMMA ReportHome ==
  ASSUME IInv, NEW r \in Req, phase[r] \in {"connecting", "copying"}, Report(r),
         UNCHANGED pending
  PROVE  OneHome'
<1>1. r \notin Elements(done) /\ r \notin Elements(pending)
  BY DEF IInv, OneHome
<1>2. /\ Distinct(done')
      /\ Elements(done') = Elements(done) \cup {r}
  BY <1>1, AppendDistinct DEF IInv, TypeOK, OneHome, Report
<1>3. phase' = [phase EXCEPT ![r] = "done"] /\ phase \in [Req -> Phase]
  BY DEF Report, IInv, TypeOK
<1>4. /\ {q \in Req : phase'[q] = "done"} = {q \in Req : phase[q] = "done"} \cup {r}
      /\ {q \in Req : phase'[q] = "pending"} = {q \in Req : phase[q] = "pending"}
  BY <1>3
<1> QED
  BY <1>2, <1>4 DEF IInv, OneHome

\* The steps of a forwarder keep the invariant.
LEMMA ForwardStep ==
  ASSUME SchedulerAssumption, IInv, NEW r \in Req, Forward(r), TypeOK'
  PROVE  IInv'
<1>1. /\ phase[r] \in {"connecting", "copying"}
      /\ UNCHANGED <<allocated, address, backends, pool, ongoing, pending, backend>>
      /\ \/ phase' = [phase EXCEPT ![r] = "copying"] /\ done' = done
         \/ phase' = [phase EXCEPT ![r] = "done"] /\ Report(r)
  BY DEF Forward, DialOk, DialFail, CopyEnd, Report
<1>2. \A q \in Req : phase'[q] \in InFlight <=> phase[q] \in InFlight
  BY <1>1 DEF IInv, TypeOK, InFlight
<1>3. Holding' /\ OngoingExact'
  BY <1>1, <1>2 DEF IInv, Holding, OngoingExact, Carried
<1>4. Registered' /\ PoolRegistered'
  BY <1>1 DEF IInv, Registered, PoolRegistered
<1>5. OneHome'
  <2>1. CASE phase' = [phase EXCEPT ![r] = "copying"] /\ done' = done
    <3>1. /\ {q \in Req : phase'[q] = "done"} = {q \in Req : phase[q] = "done"}
          /\ {q \in Req : phase'[q] = "pending"} = {q \in Req : phase[q] = "pending"}
      BY <1>1, <2>1 DEF IInv, TypeOK
    <3> QED
      BY <1>1, <2>1, <3>1 DEF IInv, OneHome
  <2> QED
    BY <1>1, <2>1, ReportHome
<1> QED
  BY <1>3, <1>4, <1>5 DEF IInv

\* Each step of the scheduler and of a forwarder keeps the invariant.
LEMMA InvariantStep == ASSUME IInv, [Next]_vars PROVE IInv'
<1>0. TypeOK'
  BY TypeStep DEF IInv
<1> USE SchedulerAssumption
<1>1. ASSUME NEW r \in Req, Job(r) PROVE IInv'
  BY <1>0, <1>1, JobStep
<1>2. CASE Finish
  BY <1>0, <1>2, FinishStep
<1>3. CASE StatusAny
  BY <1>0, <1>3, StatusStep DEF StatusAny
<1>4. ASSUME NEW r \in Req, Forward(r) PROVE IInv'
  BY <1>0, <1>4, ForwardStep
<1>5. CASE UNCHANGED vars
  BY <1>0, <1>5 DEF vars, IInv, Holding, Registered, PoolRegistered,
                   OngoingExact, Carried, OneHome
<1> QED
  BY <1>1, <1>2, <1>3, <1>4, <1>5 DEF Next

\* The invariant holds before the first status message.
LEMMA InitialState == ASSUME Init PROVE IInv
<1>1. TypeOK
  BY SchedulerAssumption DEF Init, TypeOK, Phase, SchedulerAssumption
<1>2. \A b \in Backend : Carried(b) = {}
  BY DEF Init, Carried, InFlight
<1>3. OngoingExact
  BY <1>2, FS_EmptySet DEF Init, OngoingExact
<1>4. Holding /\ Registered /\ PoolRegistered /\ OneHome
  BY DEF Init, Holding, InFlight, Registered, PoolRegistered, OneHome,
         Distinct, Elements
<1> QED
  BY <1>1, <1>3, <1>4 DEF IInv

\* The invariant is inductive, so it holds in every reachable state, whatever
\* the addresses, the connections, the limits and the flags: counters are exact,
\* no request is lost or held twice, the heap holds registered backends only.
THEOREM Inductive == Spec => []IInv
BY InitialState, InvariantStep, PTL DEF Spec

\* Backend.ongoing never disagrees with the connections a backend carries.
THEOREM CountersExact == Spec => []OngoingExact
<1>1. IInv => OngoingExact
  BY DEF IInv
<1> QED
  BY <1>1, Inductive, PTL

\* No request is lost or finished twice between scheduler and forwarders.
THEOREM RequestsConserved == Spec => []OneHome
<1>1. IInv => OneHome
  BY DEF IInv
<1> QED
  BY <1>1, Inductive, PTL

\* A backend the wrangler took down does not come back into the heap by a late
\* finish.
THEOREM HeapRegistered == Spec => []PoolRegistered
<1>1. IInv => PoolRegistered
  BY DEF IInv
<1> QED
  BY <1>1, Inductive, PTL

\* In the default mode the heap is ordered by load, so a full top means that
\* every backend in the heap is full.
LEMMA DispatchRefuses ==
  ASSUME SchedulerAssumption, ~ LeastWeight, TypeOK, NEW r \in Req,
         NEW P \in SUBSET Backend, NEW load \in [Backend -> Int],
         Dispatch(r, P, load), NEW q \in Req,
         phase[q] # "refused", phase'[q] = "refused"
  PROVE  \A b \in P : load[b] >= MaxForwardersPerBackend
<1>1. q = r
  BY DispatchPhase
<1>2. PICK t \in HeapTop(P, load) : load[t] >= MaxForwardersPerBackend
  BY <1>1 DEF Dispatch, Full, TypeOK
<1> QED
  BY <1>2 DEF HeapTop, Less, SchedulerAssumption

\* Without -failover, a client is turned away only when every backend in the
\* heap carries MaxForwardersPerBackend connections.
THEOREM RefusalJustified ==
  ASSUME ~ LeastWeight
  PROVE  Spec => RefusedOnlyWhenSaturated
<1> DEFINE Justified ==
      \A r \in Req : phase[r] # "refused" /\ phase'[r] = "refused"
        => \A b \in pool' : Cardinality(Carried(b)) >= MaxForwardersPerBackend
<1>1. IInv /\ [Next]_vars => Justified
  <2> SUFFICES ASSUME IInv, [Next]_vars, NEW q \in Req,
                      phase[q] # "refused", phase'[q] = "refused", NEW c \in pool'
               PROVE  Cardinality(Carried(c)) >= MaxForwardersPerBackend
    OBVIOUS
  <2> USE SchedulerAssumption
  <2>1. ASSUME NEW r \in Req, Job(r)
        PROVE  Cardinality(Carried(c)) >= MaxForwardersPerBackend
    <3>1. /\ pool \in SUBSET Backend
          /\ ongoing \in [Backend -> Int]
          /\ Dispatch(r, pool, ongoing)
          /\ pool' = pool
      BY <2>1 DEF Job, Dispatch, IInv, TypeOK
    <3> QED
      BY <3>1, DispatchRefuses DEF IInv, OngoingExact
  <2>2. CASE Finish
    <3> DEFINE r == Head(done)
               b == backend[r]
               load == [ongoing EXCEPT ![b] = @ - 1]
    <3>1. r \in Req
      BY <2>2 DEF Finish, Released, Evicted, Resorted, IInv, TypeOK
    <3>2. Dispatch(r, pool \ {b}, load)
      BY <2>2, <3>1 DEF Finish, Released, Evicted, Resorted, IInv, TypeOK
    <3>3. /\ pool' = pool \ {b}
          /\ pool \ {b} \in SUBSET Backend
          /\ load \in [Backend -> Int]
      BY <3>2, CountDown DEF Dispatch, IInv, TypeOK
    <3>4. load[c] = Cardinality(Carried(c))
      BY <3>3 DEF IInv, TypeOK, OngoingExact
    <3>5. load[c] >= MaxForwardersPerBackend
      <4> HIDE DEF r, b, load
      <4> QED BY <3>1, <3>2, <3>3, DispatchRefuses DEF IInv
    <3> QED
      BY <3>4, <3>5
  <2>3. CASE StatusAny
    BY <2>3 DEF StatusAny, Status
  <2>4. ASSUME NEW r \in Req, Forward(r) PROVE FALSE
    BY <2>4 DEF Forward, DialOk, DialFail, CopyEnd, Report, IInv, TypeOK
  <2>5. CASE UNCHANGED vars
    BY <2>5 DEF vars
  <2> QED
    BY <2>1, <2>2, <2>3, <2>4, <2>5 DEF Next
<1> QED
  BY <1>1, Inductive, PTL DEF Spec, RefusedOnlyWhenSaturated

-----------------------------------------------------------------------------
(***************************************************************************)
(* Scheduler implements LoadBalancer, for every value of the constants.    *)
(* The counters the code places connections by are replaced by the         *)
(* connections themselves, which is what OngoingExact allows.              *)
(***************************************************************************)

\* The library's Cardinality is the same seen through the instance.
LEMMA SameCardinality ==
  ASSUME NEW S PROVE LB!Cardinality(S) = Cardinality(S)
BY Zenon DEF Cardinality, LB!Cardinality

\* The connections a backend serves are those its counter is about.
LEMMA ServingCarried ==
  ASSUME IInv, NEW b \in Backend
  PROVE  /\ LB!Carried(b, serving) = Carried(b)
         /\ LB!Load(b, serving) = ongoing[b]
<1>1. b # Nil
  BY DEF Backend, Nil
<1>2. LB!Carried(b, serving) = Carried(b)
  BY <1>1 DEF LB!Carried, Carried, serving
<1> QED
  BY <1>2, SameCardinality DEF LB!Load, IInv, OngoingExact

\* dispatch places r where LoadBalancer may, given counters that are exact for
\* the connections other than r.
LEMMA DispatchPlaces ==
  ASSUME SchedulerAssumption, IInv, NEW r \in Req, NEW P \in SUBSET Backend,
         NEW load \in [Backend -> Int], Dispatch(r, P, load), phase[r] \in {"new", "done"},
         NEW carrier, carrier = LB!Moved(r, Nil, serving),
         \A b \in Backend : load[b] = LB!Load(b, carrier)
  PROVE  LB!Place(r, P, carrier)
<1>1. /\ \A q \in Req \ {r} : phase'[q] = phase[q] /\ backend'[q] = backend[q]
      /\ phase'[r] \in {"pending", "refused", "connecting"}
      /\ pool' = P
  BY DispatchPhase DEF IInv
<1>2. HeapTop(P, load) = LB!First(P, carrier)
  <2>1. \A b, c \in P : /\ load[b] \in Int /\ load[b] = LB!Load(b, carrier)
                        /\ Weight(b) \in Int
    BY DEF Weight, Backend
  <2>2. \A b, c \in P :
          ~ Less(c, b, load) <=> IF LeastWeight
                                 THEN Weight(b) <= Weight(c)
                                 ELSE LB!Load(b, carrier) <= LB!Load(c, carrier)
    BY <2>1 DEF Less
  <2>3. \A b \in P : [s \in Backend |-> Weight(s)][b] = Weight(b)
    OBVIOUS
  <2> QED
    BY <2>2, <2>3 DEF HeapTop, LB!First
<1>3. \A b \in HeapTop(P, load) : b \in P /\ b \in Backend
  BY DEF HeapTop
<1>4. /\ {q \in Req : phase'[q] = "pending"}
           = {q \in Req : phase[q] = "pending"}
               \cup (IF phase'[r] = "pending" THEN {r} ELSE {})
      /\ {q \in Req : phase'[q] \in {"refused", "finished"}}
           = {q \in Req : phase[q] \in {"refused", "finished"}}
               \cup (IF phase'[r] = "refused" THEN {r} ELSE {})
  BY <1>1
<1>5. CASE phase'[r] # "connecting"
  <2>1. serving' = carrier
    BY <1>1, <1>5 DEF serving, InFlight, LB!Moved
  <2>2. CASE P = {} /\ phase'[r] = "pending"
    BY <1>1, <1>4, <2>1, <2>2 DEF LB!Place
  <2>3. CASE \E b \in HeapTop(P, load) :
               load[b] >= MaxForwardersPerBackend /\ phase'[r] = "refused"
    <3>1. PICK b \in HeapTop(P, load) : load[b] >= MaxForwardersPerBackend
      BY <2>3
    <3>2. b \in LB!First(P, carrier) /\ ~ (LB!Load(b, carrier) < MaxForwardersPerBackend)
      BY <1>2, <1>3, <3>1 DEF SchedulerAssumption
    <3> QED
      BY <1>1, <1>4, <2>1, <2>3, <3>2 DEF LB!Place
  <2> QED
    BY <1>5, <2>2, <2>3 DEF Dispatch, Full, IInv, TypeOK
<1>6. ASSUME NEW b \in HeapTop(P, load), ~ Full(b, load),
             phase' = [phase EXCEPT ![r] = "connecting"],
             backend' = [backend EXCEPT ![r] = b]
      PROVE  LB!Place(r, P, carrier)
  <2>1. phase'[r] = "connecting" /\ backend'[r] = b
    BY <1>6 DEF IInv, TypeOK
  <2>2. serving' = LB!Moved(r, b, carrier)
    BY <1>1, <2>1 DEF serving, InFlight, LB!Moved
  <2>3. b \in LB!First(P, carrier) /\ LB!Load(b, carrier) < MaxForwardersPerBackend
    BY <1>2, <1>3, <1>6 DEF Full, SchedulerAssumption
  <2> QED
    BY <1>1, <1>4, <2>1, <2>2, <2>3 DEF LB!Place
<1> QED
  BY <1>5, <1>6 DEF Dispatch, Full, IInv, TypeOK

-----------------------------------------------------------------------------
(* Every step is a step of the load balancer, or changes nothing it shows. *)

LEMMA JobPlaces ==
  ASSUME SchedulerAssumption, IInv, NEW r \in Req, Job(r)
  PROVE  LB!Accept(r)
<1>1. phase[r] = "new" /\ serving[r] = Nil
  BY DEF Job, serving, InFlight
<1>2. serving = LB!Moved(r, Nil, serving)
  BY <1>1 DEF LB!Moved, serving
<1>3. \A b \in Backend : ongoing[b] = LB!Load(b, serving)
  BY ServingCarried
<1>4. pool \in SUBSET Backend /\ ongoing \in [Backend -> Int]
  BY DEF IInv, TypeOK
<1>5. LB!Place(r, pool, serving)
  BY <1>1, <1>2, <1>3, <1>4, DispatchPlaces DEF Job, LB!Place
<1> QED
  BY <1>1, <1>5 DEF LB!Accept

LEMMA FinishPlaces ==
  ASSUME SchedulerAssumption, IInv, Finish
  PROVE  \E r \in Req : LB!Retry(r) \/ LB!Complete(r)
<1> DEFINE r == Head(done)
           b == backend[r]
           load == [ongoing EXCEPT ![b] = @ - 1]
           carrier == LB!Moved(r, Nil, serving)
<1>1. r \in Req /\ phase[r] = "done"
  BY TailDistinct DEF IInv, TypeOK, OneHome, Finish
<1>2. b \in Backend /\ serving[r] = b /\ b # Nil
  BY <1>1 DEF IInv, Holding, InFlight, serving, Backend, Nil
<1>3. \/ Dispatch(r, pool \ {b}, load)
      \/ /\ phase' = [phase EXCEPT ![r] = "finished"]
         /\ UNCHANGED <<pool, backend>>
  BY DEF Finish, Released, Evicted, Resorted
<1>4. CASE Dispatch(r, pool \ {b}, load)
  <2>1. \A c \in Backend : load[c] = LB!Load(c, carrier)
    <3> TAKE c \in Backend
    <3>1. /\ ongoing[c] = Cardinality(Carried(c)) /\ ongoing \in [Backend -> Int]
          /\ IsFiniteSet(Carried(c))
      BY FS_Subset DEF IInv, OngoingExact, TypeOK, Carried, SchedulerAssumption
    <3>2. LB!Carried(c, carrier) = Carried(c) \ {r}
      BY <1>2 DEF LB!Carried, LB!Moved, Carried, serving, Backend, Nil
    <3>3. CASE c = b
      <4>1. r \in Carried(c)
        BY <1>1, <3>3 DEF Carried, InFlight
      <4> QED
        BY <3>1, <3>2, <3>3, <4>1, FS_RemoveElement, SameCardinality DEF LB!Load
    <3>4. CASE c # b
      <4>1. Carried(c) \ {r} = Carried(c)
        BY <3>4 DEF Carried
      <4> QED
        BY <3>1, <3>2, <3>4, <4>1, SameCardinality DEF LB!Load
    <3> QED
      BY <3>3, <3>4
  <2>2. /\ pool \ {b} \in SUBSET Backend
        /\ load \in [Backend -> Int]
    BY CountDown DEF IInv, TypeOK
  <2>3. LB!Place(r, pool \ {b}, carrier)
    <3> HIDE DEF r, b, load
    <3> QED BY <1>1, <1>4, <2>1, <2>2, DispatchPlaces DEF LB!Place
  <2> QED
    BY <1>1, <1>2, <2>3 DEF LB!Retry, LB!Place
<1>5. CASE /\ phase' = [phase EXCEPT ![r] = "finished"]
           /\ UNCHANGED <<pool, backend>>
  <2> HIDE DEF r, b
  <2>1. /\ \A q \in Req \ {r} : phase'[q] = phase[q]
        /\ phase'[r] = "finished"
    BY <1>1, <1>5 DEF IInv, TypeOK
  <2>2. serving' = LB!Moved(r, Nil, serving)
    BY <1>1, <1>5, <2>1 DEF serving, InFlight, LB!Moved
  <2>3. {q \in Req : phase'[q] = "pending"} = {q \in Req : phase[q] = "pending"}
    BY <1>1, <2>1
  <2>4. {q \in Req : phase'[q] \in {"refused", "finished"}}
          = {q \in Req : phase[q] \in {"refused", "finished"}} \cup {r}
    BY <1>1, <2>1
  <2> QED
    BY <1>1, <1>2, <1>5, <2>2, <2>3, <2>4 DEF LB!Complete
<1> QED
  BY <1>3, <1>4, <1>5

LEMMA StatusReports ==
  ASSUME SchedulerAssumption, IInv, TypeOK', StatusAny
  PROVE  LB!Report
<1>1. PICK S \in (SUBSET Addr) \ {{}} : Status(S)
  BY DEF StatusAny
<1>2. PICK f : pool' = Retained(S) \cup {f[a] : a \in Fresh(S)}
  BY <1>1 DEF Status
<1>3. PICK a : a \in S
  OBVIOUS
<1>4. pool' # {}
  <2> DEFINE known == {backends[x] : x \in Known(S)}
             fresh == {f[x] : x \in Fresh(S)}
  <2>1. pool' = ((pool \ {backends[x] : x \in Gone(S)}) \cup known) \cup fresh
    BY <1>2, Zenon DEF Retained
  <2>2. CASE a \in Known(S)
    <3>1. backends[a] \in known
      BY <2>2, Zenon
    <3> HIDE DEF known, fresh
    <3> QED
      BY <2>1, <3>1, Zenon
  <2>3. CASE a \in Fresh(S)
    <3>1. f[a] \in fresh
      BY <2>3, Zenon
    <3> HIDE DEF known, fresh
    <3> QED
      BY <2>1, <3>1, Zenon
  <2>4. a \in Known(S) \/ a \in Fresh(S)
    BY <1>3, Zenon DEF Fresh, Known
  <2> QED
    BY <2>2, <2>3, <2>4
<1>5. pool' \in (SUBSET Backend) \ {{}}
  BY <1>4 DEF TypeOK
<1>6. UNCHANGED <<phase, backend>>
  BY <1>1 DEF Status
<1>7. serving' = serving
  BY <1>6 DEF serving
<1> QED
  BY <1>5, <1>6, <1>7 DEF LB!Report

\* A forwarder's own steps do not show before the scheduler finishes it.
LEMMA ForwardStutters ==
  ASSUME IInv, NEW r \in Req, Forward(r)
  PROVE  UNCHANGED LB!vars
<1>1. /\ phase[r] \in {"connecting", "copying"}
      /\ UNCHANGED <<pool, backend>>
      /\ \/ phase' = [phase EXCEPT ![r] = "copying"]
         \/ phase' = [phase EXCEPT ![r] = "done"]
  BY DEF Forward, DialOk, DialFail, CopyEnd, Report
<1>2. /\ \A q \in Req \ {r} : phase'[q] = phase[q]
      /\ phase'[r] \in {"copying", "done"}
  BY <1>1 DEF IInv, TypeOK
<1>3. serving' = serving
  BY <1>1, <1>2 DEF serving, InFlight
<1>4. /\ {q \in Req : phase'[q] = "pending"} = {q \in Req : phase[q] = "pending"}
      /\ {q \in Req : phase'[q] \in {"refused", "finished"}}
           = {q \in Req : phase[q] \in {"refused", "finished"}}
  BY <1>1, <1>2
<1> QED
  BY <1>1, <1>3, <1>4 DEF LB!vars

\* The scheduler, its counters, its heap and its channels implement the load
\* balancer: a connection goes to a backend that really carries least (or has
\* least weight), is refused only when that one is full, and is never in two
\* places.
THEOREM Refinement == Spec => ImplementsLoadBalancer
<1>1. Init => LB!Init
  BY DEF Init, LB!Init, serving, InFlight
<1>2. IInv /\ TypeOK' /\ [Next]_vars => [LB!Next]_(LB!vars)
  <2> SUFFICES ASSUME IInv, TypeOK', [Next]_vars
               PROVE  LB!Next \/ UNCHANGED LB!vars
    OBVIOUS
  <2> USE SchedulerAssumption
  <2>1. ASSUME NEW r \in Req, Job(r) PROVE LB!Next
    BY <2>1, JobPlaces DEF LB!Next
  <2>2. CASE Finish
    BY <2>2, FinishPlaces DEF LB!Next
  <2>3. CASE StatusAny
    BY <2>3, StatusReports DEF LB!Next
  <2>4. ASSUME NEW r \in Req, Forward(r) PROVE UNCHANGED LB!vars
    BY <2>4, ForwardStutters
  <2>5. CASE UNCHANGED vars
    BY <2>5 DEF vars, LB!vars, serving
  <2> QED
    BY <2>1, <2>2, <2>3, <2>4, <2>5 DEF Next
<1> QED
  BY <1>1, <1>2, Inductive, TypeCorrect, PTL DEF Spec, ImplementsLoadBalancer, LB!Spec

-----------------------------------------------------------------------------
(* What the load balancer promises holds of the scheduler that implements   *)
(* it.  The step is shown of LoadBalancer's own actions.                    *)

Promised == LB!TypeOK /\ LB!Exclusive /\ LB!WithinLimit

\* Placing r on s adds one to the load of s at most, and to no other load.
LEMMA MovedLoad ==
  ASSUME SchedulerAssumption, NEW carrier \in [Req -> Backend \cup {Nil}],
         NEW r \in Req, NEW s \in Backend \cup {Nil}, NEW t \in Backend
  PROVE  /\ LB!Load(t, carrier) \in Nat
         /\ LB!Load(t, LB!Moved(r, s, carrier)) \in Nat
         /\ LB!Load(t, LB!Moved(r, s, carrier))
              <= LB!Load(t, carrier) + (IF t = s THEN 1 ELSE 0)
<1> DEFINE before == LB!Carried(t, carrier)
           after == LB!Carried(t, LB!Moved(r, s, carrier))
<1>1. before \subseteq Req /\ after \subseteq Req
  BY DEF LB!Carried
<1>2. t = s => after \subseteq before \cup {r}
  BY DEF LB!Carried, LB!Moved
<1>3. t # s => after \subseteq before
  BY DEF LB!Carried, LB!Moved
<1>4. /\ LB!Load(t, carrier) = Cardinality(before)
      /\ LB!Load(t, LB!Moved(r, s, carrier)) = Cardinality(after)
  BY SameCardinality DEF LB!Load
<1> HIDE DEF before, after
<1>5. IsFiniteSet(before) /\ IsFiniteSet(after)
  BY <1>1, FS_Subset DEF SchedulerAssumption
<1>6. /\ IsFiniteSet(before \cup {r})
      /\ Cardinality(before \cup {r}) <= Cardinality(before) + 1
      /\ Cardinality(before) \in Nat /\ Cardinality(after) \in Nat
      /\ Cardinality(before \cup {r}) \in Nat
  <2>1. /\ IsFiniteSet(before \cup {r})
        /\ Cardinality(before \cup {r}) = Cardinality(before)
             \/ Cardinality(before \cup {r}) = Cardinality(before) + 1
    BY <1>5, FS_AddElement
  <2>2. Cardinality(before) \in Nat /\ Cardinality(after) \in Nat
    BY <1>5, FS_CardinalityType
  <2> QED
    BY <2>1, <2>2
<1>7. CASE t = s
  <2>1. Cardinality(after) <= Cardinality(before \cup {r})
    BY <1>2, <1>6, <1>7, FS_Subset
  <2> QED
    BY <1>4, <1>6, <1>7, <2>1
<1>8. CASE t # s
  <2>1. Cardinality(after) <= Cardinality(before)
    BY <1>3, <1>5, <1>8, FS_Subset
  <2> QED
    BY <1>4, <1>6, <1>8, <2>1
<1> QED
  BY <1>7, <1>8

\* Taking r off its server and placing it keeps what is promised.
LEMMA PlaceKeeps ==
  ASSUME SchedulerAssumption, Promised, NEW r \in Req, NEW E \in SUBSET Backend,
         LB!Place(r, E, LB!Moved(r, Nil, serving)),
         phase[r] \notin {"pending", "refused", "finished"}
  PROVE  Promised'
<1> DEFINE carrier == LB!Moved(r, Nil, serving)
           waiting == {q \in Req : phase[q] = "pending"}
           over == {q \in Req : phase[q] \in {"refused", "finished"}}
<1>1. serving \in [Req -> Backend \cup {Nil}]
  BY DEF Promised, LB!TypeOK
<1>2. /\ carrier \in [Req -> Backend \cup {Nil}]
      /\ carrier[r] = Nil
      /\ \A q \in Req \ {r} : carrier[q] = serving[q]
  BY <1>1 DEF LB!Moved
<1>3. \A b \in Backend : /\ LB!Load(b, carrier) \in Nat
                         /\ LB!Load(b, carrier) <= MaxForwardersPerBackend
  <2> TAKE b \in Backend
  <2>1. b # Nil
    BY DEF Backend, Nil
  <2>2. LB!Load(b, serving) <= MaxForwardersPerBackend
    BY DEF Promised, LB!WithinLimit
  <2>3. /\ LB!Load(b, serving) \in Nat /\ LB!Load(b, carrier) \in Nat
        /\ LB!Load(b, carrier) <= LB!Load(b, serving) + 0
    BY <1>1, <2>1, MovedLoad
  <2> QED
    BY <2>2, <2>3 DEF SchedulerAssumption
<1>4. /\ waiting \cap over = {}
      /\ \A q \in Req : serving[q] # Nil => q \notin waiting \cup over
      /\ r \notin waiting \cup over
  BY DEF Promised, LB!Exclusive
<1>5. pool' = E
  BY DEF LB!Place
<1>6. \/ /\ serving' = carrier
         /\ \/ waiting' = waiting \cup {r} /\ over' = over
            \/ waiting' = waiting /\ over' = over \cup {r}
      \/ \E s \in E : /\ LB!Load(s, carrier) < MaxForwardersPerBackend
                      /\ serving' = LB!Moved(r, s, carrier)
                      /\ waiting' = waiting /\ over' = over
  BY DEF LB!Place, LB!First
<1>7. /\ waiting \subseteq Req /\ over \subseteq Req
      /\ waiting' \subseteq Req /\ over' \subseteq Req
  OBVIOUS
<1>8. CASE /\ serving' = carrier
           /\ \/ waiting' = waiting \cup {r} /\ over' = over
              \/ waiting' = waiting /\ over' = over \cup {r}
  <2>1. LB!TypeOK'
    BY <1>2, <1>5, <1>7, <1>8 DEF LB!TypeOK
  <2>2. LB!Exclusive'
    BY <1>2, <1>4, <1>8 DEF LB!Exclusive
  <2>3. LB!WithinLimit'
    BY <1>3, <1>8 DEF LB!WithinLimit, LB!Load, LB!Carried
  <2> QED
    BY <2>1, <2>2, <2>3 DEF Promised
<1>9. ASSUME NEW s \in E, LB!Load(s, carrier) < MaxForwardersPerBackend,
             serving' = LB!Moved(r, s, carrier), waiting' = waiting, over' = over
      PROVE  Promised'
  <2>1. /\ serving' \in [Req -> Backend \cup {Nil}]
        /\ \A q \in Req \ {r} : serving'[q] = serving[q]
    BY <1>2, <1>9 DEF LB!Moved
  <2>2. LB!TypeOK'
    BY <2>1, <1>5, <1>7 DEF LB!TypeOK
  <2>3. LB!Exclusive'
    BY <2>1, <1>4, <1>9 DEF LB!Exclusive
  <2>4. ASSUME NEW b \in Backend
        PROVE  LB!Load(b, LB!Moved(r, s, carrier)) <= MaxForwardersPerBackend
    <3>1. /\ LB!Load(b, carrier) \in Nat
          /\ LB!Load(b, LB!Moved(r, s, carrier)) \in Nat
          /\ LB!Load(b, LB!Moved(r, s, carrier))
               <= LB!Load(b, carrier) + (IF b = s THEN 1 ELSE 0)
      BY <1>2, <1>9, MovedLoad
    <3> QED
      BY <3>1, <1>3, <1>9 DEF SchedulerAssumption
  <2>5. LB!WithinLimit'
    BY <2>4, <1>9 DEF LB!WithinLimit, LB!Load, LB!Carried
  <2> QED
    BY <2>2, <2>3, <2>5 DEF Promised
<1> QED
  BY <1>6, <1>8, <1>9

\* Each step of the load balancer keeps it.
LEMMA PromiseKept ==
  ASSUME SchedulerAssumption, Promised, [LB!Next]_(LB!vars)
  PROVE  Promised'
<1>1. ASSUME NEW r \in Req, LB!Accept(r) PROVE Promised'
  <2>1. phase[r] \notin {"pending", "refused", "finished"} /\ serving[r] = Nil
    BY <1>1 DEF LB!Accept
  <2>2. LB!Moved(r, Nil, serving) = serving
    BY <2>1 DEF LB!Moved, Promised, LB!TypeOK
  <2>3. LB!Place(r, pool, LB!Moved(r, Nil, serving))
    BY <1>1, <2>2 DEF LB!Accept, LB!Place
  <2> QED
    BY <2>1, <2>3, PlaceKeeps DEF Promised, LB!TypeOK
<1>2. ASSUME NEW r \in Req, LB!Retry(r) PROVE Promised'
  <2>1. phase[r] \notin {"pending", "refused", "finished"}
    BY <1>2 DEF LB!Retry, Promised, LB!Exclusive
  <2>2. LB!Place(r, pool \ {serving[r]}, LB!Moved(r, Nil, serving))
    BY <1>2 DEF LB!Retry
  <2> QED
    BY <2>1, <2>2, PlaceKeeps DEF Promised, LB!TypeOK
<1>3. ASSUME NEW r \in Req, LB!Complete(r) PROVE Promised'
  <2> DEFINE waiting == {q \in Req : phase[q] = "pending"}
             over == {q \in Req : phase[q] \in {"refused", "finished"}}
  <2>1. /\ serving' = LB!Moved(r, Nil, serving)
        /\ waiting' = waiting /\ over' = over \cup {r} /\ pool' = pool
    BY <1>3 DEF LB!Complete
  <2>2. /\ serving \in [Req -> Backend \cup {Nil}]
        /\ serving' \in [Req -> Backend \cup {Nil}]
        /\ serving'[r] = Nil
        /\ \A q \in Req \ {r} : serving'[q] = serving[q]
    BY <2>1 DEF LB!Moved, Promised, LB!TypeOK
  <2>3. LB!TypeOK'
    BY <2>1, <2>2 DEF Promised, LB!TypeOK
  <2>4. LB!Exclusive'
    BY <1>3, <2>1, <2>2 DEF Promised, LB!Exclusive, LB!Complete
  <2>5. ASSUME NEW b \in Backend
        PROVE  LB!Load(b, LB!Moved(r, Nil, serving)) <= MaxForwardersPerBackend
    <3>1. b # Nil /\ LB!Load(b, serving) <= MaxForwardersPerBackend
      BY DEF Promised, LB!WithinLimit, Backend, Nil
    <3>2. /\ LB!Load(b, serving) \in Nat
          /\ LB!Load(b, LB!Moved(r, Nil, serving)) \in Nat
          /\ LB!Load(b, LB!Moved(r, Nil, serving)) <= LB!Load(b, serving) + 0
      BY <2>2, <3>1, MovedLoad
    <3> QED
      BY <3>1, <3>2 DEF SchedulerAssumption
  <2>6. LB!WithinLimit'
    BY <2>1, <2>5 DEF LB!WithinLimit, LB!Load, LB!Carried
  <2> QED
    BY <2>3, <2>4, <2>6 DEF Promised
<1>4. CASE LB!Report
  BY <1>4 DEF LB!Report, Promised, LB!TypeOK, LB!Exclusive, LB!WithinLimit,
     LB!Load, LB!Carried
<1>5. CASE UNCHANGED LB!vars
  BY <1>5 DEF LB!vars, Promised, LB!TypeOK, LB!Exclusive, LB!WithinLimit,
     LB!Load, LB!Carried
<1> QED
  BY <1>1, <1>2, <1>3, <1>4, <1>5 DEF LB!Next

\* A connection waits, is carried by one backend or is over, and no backend
\* ever carries more than MaxForwardersPerBackend of them: finish takes a
\* retried request off the backend it failed on before dispatch counts it
\* again, and dispatch turns it away when the backend on top is full.
THEOREM NoneOverloaded == Spec => [](LB!Exclusive /\ LB!WithinLimit)
<1>1. LB!Init => Promised
  <2> SUFFICES ASSUME LB!Init PROVE Promised
    OBVIOUS
  <2>1. LB!TypeOK /\ LB!Exclusive
    BY DEF LB!Init, LB!TypeOK, LB!Exclusive
  <2>2. ASSUME NEW b \in Backend PROVE LB!Load(b, serving) <= MaxForwardersPerBackend
    <3>1. LB!Carried(b, serving) = {}
      BY DEF LB!Init, LB!Carried, Backend, Nil
    <3> QED
      BY <3>1, SameCardinality, FS_EmptySet, SchedulerAssumption
      DEF LB!Load, SchedulerAssumption
  <2> QED
    BY <2>1, <2>2 DEF Promised, LB!WithinLimit
<1>2. Promised /\ [LB!Next]_(LB!vars) => Promised'
  BY PromiseKept, SchedulerAssumption
<1>3. Promised => LB!Exclusive /\ LB!WithinLimit
  BY DEF Promised
<1> QED
  BY <1>1, <1>2, <1>3, Refinement, PTL DEF ImplementsLoadBalancer, LB!Spec

-----------------------------------------------------------------------------
(* The inductive invariant. *)

\* The states of ForwarderNewConnection.
FwdState ==
  [step : {"begin", "pick", "open", "report", "dial"},
   todo : Seq(0 .. TunnelsPerBackend - 1), conn : Conn \cup {Nil}]

\* The slot that the forwarder of r is at.
At(r) == SlotAt(r, Head(fwd[r].todo))

\* A forwarder that is in the loop has a request that is connecting, and what it
\* needs at the step it is at.
Forwarding ==
  /\ fwd \in [Req -> FwdState]
  /\ \A r \in Req :
       /\ fwd[r].step # "begin" => phase[r] = "connecting"
       /\ fwd[r].step \in {"open", "report"} => fwd[r].todo # <<>>
       /\ fwd[r].step = "open" => fwd[r].conn \in Conn

\* No request, session or message is about a backend that is yet to be made.
Existing ==
  /\ \A b \in 1 .. allocated : address[b] \in Addr
  /\ \A r \in Req : phase[r] \in InFlight => backend[r] <= allocated
  /\ \A s \in Slot : s[1] > allocated =>
       /\ conn[s] = Nil /\ s \notin switching /\ creators[s] = 0
       /\ s \notin Elements(fail)
       /\ \A m \in Elements(ready) : m.slot # s

\* A backend has no more requests than dispatch allows.
Bounded == \A b \in Backend : ongoing[b] <= MaxForwardersPerBackend

\* A session for s is in the making.
Making(s) == creators[s] > 0 \/ \E m \in Elements(ready) : m.slot = s

\* Nothing can ask for a session for s: it has no connection that could be used up
\* or fail, and none of an earlier connection is reported.
Unasked(s) ==
  /\ conn[s] = Nil /\ s \notin Elements(fail)
  /\ \A r \in Req : fwd[r].step \in {"open", "report"} => At(r) # s

\* One session at most is in the making for a slot, and meanwhile the flag is set,
\* unless it is the first one.
Exclusive ==
  /\ Distinct(ready)
  /\ \A m, n \in Elements(ready) : m.slot = n.slot => m = n
  /\ \A m \in Elements(ready) : creators[m.slot] = 0
  /\ \A s \in Slot : /\ creators[s] \in {0, 1}
                     /\ Making(s) => s \in switching \/ Unasked(s)

\* Each connection is in one slot or session; only closed ones are in none.
Owned ==
  /\ gone \subseteq 1 .. made
  /\ \A s \in Slot : conn[s] \in {Nil} \cup 1 .. made
  /\ \A s, t \in Slot : conn[s] = conn[t] /\ conn[s] # Nil => s = t
  /\ \A m \in Elements(ready) : m.conn # Nil =>
       m.conn \in (1 .. made) \ gone /\ \A s \in Slot : conn[s] # m.conn
  /\ \A m, n \in Elements(ready) : m.conn = n.conn /\ m.conn # Nil => m = n
  /\ \A c \in (1 .. made) \ gone :
       (\E s \in Slot : conn[s] = c) \/ (\E m \in Elements(ready) : m.conn = c)

\* The flag of a slot stands for a session, and an empty slot for a session or a
\* report, unless the last session was nil.
Tended ==
  \A s \in Slot \ panicked :
    /\ s \in switching => Making(s)
    /\ conn[s] \notin gone
    /\ s[1] <= allocated /\ conn[s] = Nil => Making(s) \/ Reported(s)

\* The inductive invariant.
TunnelsInv ==
  IInv /\ TTypeOK /\ Bounded /\ Forwarding /\ Existing /\ Exclusive /\ Owned /\ Tended


-----------------------------------------------------------------------------
(* Sequences and counting. *)

\* The elements of a channel after a message is sent or received.
LEMMA Sent ==
  ASSUME NEW S, NEW s \in Seq(S), NEW x \in S
  PROVE  /\ Append(s, x) \in Seq(S)
         /\ Elements(Append(s, x)) = Elements(s) \cup {x}
<1>1. /\ DOMAIN Append(s, x) = 1 .. Len(s) + 1
      /\ \A i \in 1 .. Len(s) : Append(s, x)[i] = s[i]
      /\ Append(s, x)[Len(s) + 1] = x
      /\ DOMAIN s = 1 .. Len(s)
      /\ Len(s) \in Nat
  OBVIOUS
<1> QED
  BY <1>1 DEF Elements

\* The one that is received is not among those that stay, if no two are the same.
LEMMA Received ==
  ASSUME NEW S, NEW s \in Seq(S), s # <<>>
  PROVE  /\ Head(s) \in S /\ Tail(s) \in Seq(S)
         /\ Elements(s) = Elements(Tail(s)) \cup {Head(s)}
         /\ Distinct(s) => Head(s) \notin Elements(Tail(s))
<1>1. /\ Len(s) \in Nat \ {0}
      /\ DOMAIN s = 1 .. Len(s)
      /\ DOMAIN Tail(s) = 1 .. Len(s) - 1
      /\ \A i \in 1 .. Len(s) - 1 : Tail(s)[i] = s[i + 1]
      /\ Head(s) = s[1]
      /\ Head(s) \in S /\ Tail(s) \in Seq(S)
  OBVIOUS
<1>2. \A i \in DOMAIN s : i = 1 \/ (i - 1 \in 1 .. Len(s) - 1 /\ Tail(s)[i - 1] = s[i])
  BY <1>1
<1>3. Elements(s) = Elements(Tail(s)) \cup {Head(s)}
  <2>1. Elements(Tail(s)) \cup {Head(s)} \subseteq Elements(s)
    BY <1>1 DEF Elements
  <2>2. ASSUME NEW i \in DOMAIN s PROVE s[i] \in Elements(Tail(s)) \cup {Head(s)}
    BY <1>1, <1>2 DEF Elements
  <2> QED BY <2>1, <2>2 DEF Elements
<1>4. ASSUME Distinct(s) PROVE Head(s) \notin Elements(Tail(s))
  <2> SUFFICES ASSUME NEW i \in 1 .. Len(s) - 1, s[i + 1] = s[1] PROVE FALSE
    BY <1>1 DEF Elements
  <2>1. i + 1 \in DOMAIN s /\ 1 \in DOMAIN s /\ i + 1 # 1
    BY <1>1
  <2> QED BY <1>4, <2>1 DEF Distinct
<1> QED
  BY <1>1, <1>3, <1>4

\* Among the numbers of J those that come after fewer than m of J are m, or all of
\* J when it has no more.
LEMMA Ranks ==
  ASSUME NEW n \in Nat, NEW J \in SUBSET (1 .. n), NEW m \in Nat
  PROVE  /\ IsFiniteSet(J) /\ Cardinality(J) \in Nat
         /\ \A k \in J : Cardinality({j \in J : j < k}) \in Nat
         /\ Cardinality({k \in J : Cardinality({j \in J : j < k}) < m})
              = IF Cardinality(J) > m THEN m ELSE Cardinality(J)
<1> DEFINE Before(k) == {j \in J : j < k}
           rank == [k \in J |-> Cardinality(Before(k))]
           size == Cardinality(J)
           B == {k \in J : rank[k] < m}
<1>1. IsFiniteSet(J) /\ size \in Nat
  <2>1. IsFiniteSet(1 .. n)
    BY FS_Interval
  <2> QED BY <2>1, FS_Subset, FS_CardinalityType
<1>2. ASSUME NEW k \in J
      PROVE  /\ IsFiniteSet(Before(k)) /\ Cardinality(Before(k)) \in Nat
             /\ Cardinality(Before(k)) < size
  <2>1. k \notin Before(k) /\ Before(k) \subseteq J
    BY <1>1
  <2>2. IsFiniteSet(Before(k)) /\ Cardinality(Before(k)) \in Nat
    BY <1>1, <2>1, FS_Subset, FS_CardinalityType
  <2>3. Cardinality(Before(k)) <= size /\ Cardinality(Before(k)) # size
    BY <1>1, <2>1, FS_Subset
  <2> QED BY <1>1, <2>2, <2>3
<1>3. ASSUME NEW i \in J, NEW k \in J, i < k PROVE rank[i] < rank[k]
  <2>1. i \notin Before(i) /\ Before(i) \cup {i} \subseteq Before(k)
    <3>1. \A x \in J : x < i => x < k
      BY <1>3
    <3>2. ~ (i < i)
      OBVIOUS
    <3> QED BY <1>3, <3>1, <3>2
  <2>2. Cardinality(Before(i) \cup {i}) = Cardinality(Before(i)) + 1
    BY <1>2, <2>1, FS_AddElement
  <2>3. Cardinality(Before(i) \cup {i}) <= Cardinality(Before(k))
    BY <1>2, <2>1, FS_Subset
  <2> HIDE DEF Before
  <2> QED BY <1>2, <2>2, <2>3
<1>4. rank \in Injection(J, 0 .. size - 1)
  <2>1. rank \in [J -> 0 .. size - 1]
    BY <1>1, <1>2
  <2>2. \A i, k \in J : i # k => i < k \/ k < i
    OBVIOUS
  <2>3. \A i, k \in J : rank[i] = rank[k] => i = k
    <3> HIDE DEF rank
    <3> QED BY <1>1, <1>3, <2>1, <2>2
  <2> QED BY <2>1, <2>3 DEF Injection, IsInjective
<1>5. rank \in Surjection(J, 0 .. size - 1)
  <2>1. IsFiniteSet(0 .. size - 1) /\ Cardinality(0 .. size - 1) = size
    BY <1>1, FS_Interval
  <2> HIDE DEF rank
  <2> QED BY <1>4, <2>1, FS_Injection
<1>6. ASSUME size <= m PROVE Cardinality(B) = size
  <2>1. ASSUME NEW k \in J PROVE rank[k] < m
    <3>1. rank[k] \in Nat /\ rank[k] < size
      BY <1>2
    <3> HIDE DEF rank, size
    <3> QED BY <1>1, <1>6, <3>1
  <2>2. B = J
    BY <2>1
  <2> QED BY <2>2
<1>7. ASSUME size > m PROVE Cardinality(B) = m
  <2> DEFINE g == [k \in B |-> rank[k]]
  <2>1. g \in Injection(B, 0 .. m - 1)
    <3>1. g \in [B -> 0 .. m - 1]
      <4>1. ASSUME NEW k \in B PROVE rank[k] \in 0 .. m - 1
        <5>1. rank[k] \in Nat /\ rank[k] < m
          BY <1>2
        <5> HIDE DEF rank
        <5> QED BY <5>1
      <4> QED BY <4>1
    <3>2. \A i, k \in B : g[i] = g[k] => i = k
      BY <1>4 DEF Injection, IsInjective
    <3> QED BY <3>1, <3>2 DEF Injection, IsInjective
  <2>2. g \in Surjection(B, 0 .. m - 1)
    <3>1. ASSUME NEW v \in 0 .. m - 1 PROVE \E k \in B : g[k] = v
      <4>1. v \in 0 .. size - 1
        BY <1>1, <1>7
      <4>2. PICK k \in J : rank[k] = v
        BY <1>5, <4>1 DEF Surjection
      <4>3. k \in B
        BY <4>2
      <4> QED BY <4>2, <4>3
    <3> QED BY <2>1, <3>1 DEF Injection, Surjection
  <2>3. Cardinality(0 .. m - 1) = m /\ IsFiniteSet(0 .. m - 1)
    BY FS_Interval
  <2> HIDE DEF g, B
  <2> QED BY <2>1, <2>2, <2>3, FS_Injection
<1>8. B = {k \in J : Cardinality({j \in J : j < k}) < m}
  OBVIOUS
<1>9. Cardinality(B) = IF size > m THEN m ELSE size
  <2> HIDE DEF B, size
  <2> QED BY <1>1, <1>6, <1>7
<1> QED
  BY <1>1, <1>2, <1>8, <1>9

\* The image of a finite set under a function that takes no value twice.
LEMMA Images ==
  ASSUME NEW A, IsFiniteSet(A), NEW f, A \subseteq DOMAIN f,
         \A i, k \in A : f[i] = f[k] => i = k
  PROVE  /\ IsFiniteSet({f[k] : k \in A})
         /\ Cardinality({f[k] : k \in A}) = Cardinality(A)
<1> DEFINE g == [k \in A |-> f[k]]
<1>1. g \in Bijection(A, {f[k] : k \in A})
  BY DEF Bijection, Injection, IsInjective, Surjection
<1> HIDE DEF g
<1> QED
  BY <1>1, FS_Bijection DEF ExistsBijection

-----------------------------------------------------------------------------
(* The pending list. *)

\* The requests that find b on top of the heap, and those that find room on it.
Visits(placed, n, b) == {j \in 1 .. n : placed[j] = b}
Stays(placed, n, b) ==
  {k \in Visits(placed, n, b) :
     Cardinality({j \in Visits(placed, n, b) : j < k}) < MaxForwardersPerBackend - ongoing[b]}

\* What dispatch of the k-th request finds on b, and the bound of the counter.
LEMMA Loads ==
  ASSUME SchedulerAssumption, NEW n \in Nat, NEW placed \in [1 .. n -> Backend],
         NEW b \in Backend, ongoing[b] \in Nat, ongoing[b] <= MaxForwardersPerBackend
  PROVE  LET J == Visits(placed, n, b)
             A == Stays(placed, n, b)
         IN /\ \A k \in J : Load(placed, k, b) >= MaxForwardersPerBackend <=> k \notin A
            /\ Load(placed, n + 1, b) = ongoing[b] + Cardinality(A)
            /\ Load(placed, n + 1, b) <= MaxForwardersPerBackend
            /\ IsFiniteSet(A) /\ Cardinality(A) \in Nat
<1> USE DEF Visits, Stays
<1> DEFINE J == Visits(placed, n, b)
           Max == MaxForwardersPerBackend
           room == Max - ongoing[b]
           A == Stays(placed, n, b)
<1>1. Max \in Nat /\ room \in Nat
  BY DEF SchedulerAssumption
<1>2. /\ IsFiniteSet(J) /\ Cardinality(J) \in Nat
      /\ \A k \in J : Cardinality({j \in J : j < k}) \in Nat
      /\ Cardinality(A) = IF Cardinality(J) > room THEN room ELSE Cardinality(J)
  <2>1. J \in SUBSET (1 .. n)
    OBVIOUS
  <2>2. A = {k \in J : Cardinality({j \in J : j < k}) < room}
    OBVIOUS
  <2> HIDE DEF J, room, A
  <2> QED BY <1>1, <2>1, <2>2, Ranks
<1>3. ASSUME NEW k \in J PROVE Load(placed, k, b) >= Max <=> k \notin A
  <2> DEFINE R == Cardinality({j \in J : j < k})
  <2>1. {j \in 1 .. k - 1 : placed[j] = b} = {j \in J : j < k}
    OBVIOUS
  <2>2. Load(placed, k, b) = IF ongoing[b] + R > Max THEN Max ELSE ongoing[b] + R
    BY <2>1 DEF Load
  <2>3. R \in Nat /\ (k \in A <=> R < room)
    BY <1>2
  <2> HIDE DEF R, A
  <2> QED BY <1>1, <2>2, <2>3
<1>4. /\ Load(placed, n + 1, b) = ongoing[b] + Cardinality(A)
      /\ Load(placed, n + 1, b) <= Max
  <2>1. {j \in 1 .. (n + 1) - 1 : placed[j] = b} = J
    OBVIOUS
  <2>2. Load(placed, n + 1, b)
          = IF ongoing[b] + Cardinality(J) > Max THEN Max ELSE ongoing[b] + Cardinality(J)
    BY <2>1 DEF Load
  <2> HIDE DEF J, A
  <2> QED BY <1>1, <1>2, <2>2
<1>5. IsFiniteSet(A) /\ Cardinality(A) \in Nat
  <2>1. A \in SUBSET J
    OBVIOUS
  <2> HIDE DEF A, J
  <2> QED BY <1>2, <2>1, FS_Subset, FS_CardinalityType
<1> HIDE DEF Visits, Stays
<1> QED
  BY <1>3, <1>4, <1>5

\* The case of a first session drains s.pending: each request that waited gets a
\* backend of the heap or is refused, and the counters stay exact.
LEMMA Draining ==
  ASSUME SchedulerAssumption, TypeOK, OneHome, OngoingExact, Bounded,
         NEW P \in SUBSET Backend, Drain(P)
  PROVE  /\ pending' = <<>>
         /\ phase' \in [Req -> Phase] /\ backend' \in [Req -> Backend \cup {Nil}]
         /\ closed' \subseteq Req /\ ongoing' \in [Backend -> Int]
         /\ \A r \in Req : phase[r] # "pending" =>
              phase'[r] = phase[r] /\ backend'[r] = backend[r]
         /\ \A r \in Req : phase[r] = "pending" =>
              /\ phase'[r] \in {"refused", "connecting"}
              /\ phase'[r] = "connecting" => backend'[r] \in P
         /\ OngoingExact' /\ Bounded'
<1> DEFINE n == Len(pending)
           load(pl, k) == [b \in Backend |-> Load(pl, k, b)]
           refusedBy(pl) == {pending[k] : k \in {j \in DOMAIN pending : Full(pl[j], load(pl, j))}}
           waiting == {pending[k] : k \in DOMAIN pending}
<1>1. /\ n \in Nat /\ DOMAIN pending = 1 .. n
      /\ \A k \in 1 .. n : pending[k] \in Req /\ phase[pending[k]] = "pending"
      /\ \A j, k \in 1 .. n : pending[j] = pending[k] => j = k
      /\ \A r \in Req : phase[r] = "pending" <=> r \in waiting
  <2>1. pending \in Seq(Req) /\ Distinct(pending)
        /\ Elements(pending) = {r \in Req : phase[r] = "pending"}
    BY DEF TypeOK, OneHome
  <2>2. n \in Nat /\ DOMAIN pending = 1 .. n
    BY <2>1
  <2>3. waiting = Elements(pending)
    BY <2>2 DEF Elements
  <2> QED BY <2>1, <2>2, <2>3 DEF Distinct, Elements
<1>2. PICK placed \in [DOMAIN pending -> P] :
        /\ phase' = [r \in Req |->
             CASE r \in refusedBy(placed) -> "refused"
               [] r \in waiting \ refusedBy(placed) -> "connecting"
               [] OTHER -> phase[r]]
        /\ backend' = [r \in Req |->
             IF r \in waiting \ refusedBy(placed)
             THEN placed[CHOOSE k \in DOMAIN pending : pending[k] = r] ELSE backend[r]]
        /\ closed' = closed \cup refusedBy(placed)
        /\ ongoing' = load(placed, n + 1)
        /\ pending' = <<>>
  BY DEF Drain, Drained
<1> DEFINE refused == refusedBy(placed)
<1>3. /\ refused \subseteq waiting /\ waiting \subseteq Req
      /\ \A k \in 1 .. n : pending[k] \in refused <=> Full(placed[k], load(placed, k))
  <2>1. refused \subseteq waiting /\ waiting \subseteq Req
    <3> HIDE DEF load, n
    <3>1. \A k \in DOMAIN pending : pending[k] \in Req
      BY <1>1
    <3> QED BY <3>1
  <2>2. ASSUME NEW k \in 1 .. n, pending[k] \in refused
        PROVE  Full(placed[k], load(placed, k))
    <3> HIDE DEF load, n
    <3>1. PICK j \in DOMAIN pending :
            pending[k] = pending[j] /\ Full(placed[j], load(placed, j))
      BY <2>2
    <3>2. j = k
      BY <1>1, <3>1
    <3> QED BY <3>1, <3>2
  <2>3. ASSUME NEW k \in 1 .. n, Full(placed[k], load(placed, k))
        PROVE  pending[k] \in refused
    <3> HIDE DEF load, n
    <3> QED BY <1>1, <2>3
  <2> HIDE DEF load, waiting, refusedBy
  <2> QED BY <2>1, <2>2, <2>3
<1>4. \A k \in 1 .. n : (CHOOSE j \in DOMAIN pending : pending[j] = pending[k]) = k
  BY <1>1
<1>5. ASSUME NEW k \in 1 .. n
      PROVE  IF Full(placed[k], load(placed, k))
             THEN phase'[pending[k]] = "refused"
             ELSE phase'[pending[k]] = "connecting" /\ backend'[pending[k]] = placed[k]
  <2> HIDE DEF refusedBy, load
  <2>1. pending[k] \in Req /\ pending[k] \in waiting
    BY <1>1
  <2> HIDE DEF n, waiting
  <2> QED BY <1>2, <1>3, <1>4, <2>1
<1>6. \A r \in Req : r \notin waiting => phase'[r] = phase[r] /\ backend'[r] = backend[r]
  <2> HIDE DEF refusedBy, waiting
  <2> QED BY <1>2, <1>3
<1>7. ASSUME NEW b \in Backend
      PROVE  /\ ongoing'[b] = Cardinality(Carried(b)')
             /\ ongoing'[b] \in Nat /\ ongoing'[b] <= MaxForwardersPerBackend
  <2> DEFINE J == Visits(placed, n, b)
             A == Stays(placed, n, b)
             Q == {pending[k] : k \in A}
  <2>1. IsFiniteSet(Carried(b)) /\ ongoing[b] = Cardinality(Carried(b))
        /\ ongoing[b] \in Nat /\ ongoing[b] <= MaxForwardersPerBackend
    BY FS_Subset, FS_CardinalityType DEF SchedulerAssumption, Carried, OngoingExact, Bounded
  <2>2. placed \in [1 .. n -> Backend]
    BY <1>1, <1>2
  <2>3. /\ \A k \in J : Load(placed, k, b) >= MaxForwardersPerBackend <=> k \notin A
        /\ Load(placed, n + 1, b) = ongoing[b] + Cardinality(A)
        /\ Load(placed, n + 1, b) <= MaxForwardersPerBackend
        /\ IsFiniteSet(A) /\ Cardinality(A) \in Nat
    <3>1. n \in Nat
      BY <1>1
    <3> HIDE DEF n
    <3> QED BY <2>1, <2>2, <3>1, Loads
  <2>a. A \subseteq J /\ J \subseteq DOMAIN pending /\ \A k \in J : placed[k] = b
    BY <1>1 DEF Stays, Visits
  <2>4. \A k \in J : k \in A <=> ~ Full(placed[k], load(placed, k))
    <3> HIDE DEF A
    <3> QED BY <2>a, <2>3 DEF Full
  <2>5. ongoing'[b] = ongoing[b] + Cardinality(A) /\ ongoing'[b] <= MaxForwardersPerBackend
    <3> HIDE DEF A
    <3> QED BY <1>2, <2>3
  <2>6. Carried(b)' = Carried(b) \cup Q
    <3>1. ASSUME NEW r \in Req, r \in waiting
          PROVE  r \in Carried(b)' <=> r \in Q
      <4>1. PICK k \in 1 .. n : r = pending[k]
        BY <3>1
      <4>2. r \in Q <=> k \in A
        <5> HIDE DEF A, J, n
        <5> QED BY <1>1, <2>a, <4>1
      <4> HIDE DEF Q, A, load, waiting
      <4>3. r \in Carried(b)' <=> placed[k] = b /\ ~ Full(placed[k], load(placed, k))
        BY <1>5, <4>1, <3>1 DEF Carried, InFlight
      <4>4. (k \in A => k \in J) /\ (k \in J <=> placed[k] = b)
        BY <2>a DEF Visits
      <4> QED BY <2>4, <4>2, <4>3, <4>4
    <3>2. ASSUME NEW r \in Req, r \notin waiting
          PROVE  r \in Carried(b)' <=> r \in Carried(b)
      BY <1>6, <3>2 DEF Carried
    <3>3. ASSUME NEW r \in Req, r \in waiting PROVE r \notin Carried(b)
      <4>1. phase[r] = "pending"
        BY <1>1, <3>3
      <4> QED BY <4>1 DEF Carried, InFlight
    <3>4. Q \subseteq waiting /\ Q \subseteq Req
      <4> HIDE DEF A, J, n
      <4> QED BY <1>1, <2>a
    <3>5. Carried(b)' \subseteq Req /\ Carried(b) \subseteq Req
      BY DEF Carried
    <3> HIDE DEF Q, waiting
    <3> QED BY <3>1, <3>2, <3>3, <3>4, <3>5
  <2>7. Carried(b) \cap Q = {}
    <3>1. \A q \in Q : phase[q] = "pending"
      <4> HIDE DEF A, J, n
      <4> QED BY <1>1, <2>a
    <3> HIDE DEF Q
    <3> QED BY <3>1 DEF Carried, InFlight
  <2>8. IsFiniteSet(Q) /\ Cardinality(Q) = Cardinality(A)
    <3>1. A \subseteq DOMAIN pending /\ \A i, k \in A : pending[i] = pending[k] => i = k
      BY <1>1, <2>a
    <3> HIDE DEF A
    <3> QED BY <2>3, <3>1, Images
  <2>9. Cardinality(Carried(b) \cup Q) = Cardinality(Carried(b)) + Cardinality(Q)
    <3> HIDE DEF Q, A
    <3>1. Cardinality(Carried(b) \cap Q) = 0
      BY <2>7, FS_EmptySet
    <3>2. Cardinality(Carried(b) \cup Q)
            = Cardinality(Carried(b)) + Cardinality(Q) - Cardinality(Carried(b) \cap Q)
      BY <2>1, <2>8, FS_Union
    <3>3. Cardinality(Carried(b)) \in Nat /\ Cardinality(Q) \in Nat
      BY <2>1, <2>3, <2>8
    <3> QED BY <3>1, <3>2, <3>3
  <2> HIDE DEF A, Q
  <2> QED BY <2>1, <2>3, <2>5, <2>6, <2>8, <2>9
<1>8. OngoingExact' /\ Bounded'
  BY <1>7 DEF OngoingExact, Bounded
<1>9. ongoing' \in [Backend -> Int]
  <2>1. ongoing' = [b \in Backend |-> Load(placed, n + 1, b)]
    BY <1>2
  <2> QED BY <1>7, <2>1
<1>10. ASSUME NEW r \in Req, r \in waiting
       PROVE  /\ phase'[r] \in {"refused", "connecting"}
              /\ phase'[r] = "connecting" => backend'[r] \in P
  <2>1. PICK k \in 1 .. n : r = pending[k]
    BY <1>10
  <2>2. placed[k] \in P
    BY <1>1, <1>2
  <2> HIDE DEF load, n
  <2> QED BY <1>5, <2>1, <2>2
<1>11. phase' \in [Req -> Phase] /\ backend' \in [Req -> Backend \cup {Nil}]
  <2>1. DOMAIN phase' = Req /\ DOMAIN backend' = Req
        /\ phase' = [r \in Req |-> phase'[r]] /\ backend' = [r \in Req |-> backend'[r]]
    BY <1>2
  <2>2. ASSUME NEW r \in Req
        PROVE  phase'[r] \in Phase /\ backend'[r] \in Backend \cup {Nil}
    <3>1. CASE r \notin waiting
      BY <1>6, <3>1 DEF TypeOK
    <3>2. CASE r \in waiting
      <4>1. PICK k \in 1 .. n : r = pending[k]
        BY <3>2
      <4>2. phase'[r] \in Phase
        BY <1>10, <3>2 DEF Phase
      <4>3. backend'[r] \in Backend \cup {Nil}
        <5>1. CASE r \in refused
          <6>1. backend'[r] = backend[r]
            <7> HIDE DEF refusedBy, waiting, load
            <7> QED BY <1>2, <5>1
          <6> QED BY <6>1 DEF TypeOK
        <5>2. CASE r \notin refused
          <6>1. backend'[r] = placed[k]
            BY <1>3, <1>5, <4>1, <5>2
          <6>2. placed[k] \in P
            BY <1>1, <1>2, <4>1
          <6> QED BY <6>1, <6>2
        <5> QED BY <5>1, <5>2
      <4> QED BY <4>2, <4>3
    <3> QED BY <3>1, <3>2
  <2> QED BY <2>1, <2>2
<1>12. closed' \subseteq Req
  <2> HIDE DEF refusedBy, waiting
  <2> QED BY <1>2, <1>3 DEF TypeOK
<1> HIDE DEF waiting
<1> QED
  BY <1>1, <1>2, <1>6, <1>8, <1>9, <1>10, <1>11, <1>12

-----------------------------------------------------------------------------
(* What the steps of the scheduler leave to the tunnels. *)

\* The backends of the heap have been made.
LEMMA InHeap ==
  ASSUME IInv
  PROVE  \A b \in pool : b \in Backend /\ b <= allocated
BY DEF IInv, TypeOK, PoolRegistered, Registered, Nil, Backend

\* dispatch keeps the counters in their bound.
LEMMA DispatchBounded ==
  ASSUME SchedulerAssumption, NEW r \in Req, NEW P \in SUBSET Backend,
         NEW load \in [Backend -> Int], Dispatch(r, P, load),
         \A b \in Backend : load[b] <= MaxForwardersPerBackend
  PROVE  Bounded'
<1>1. CASE ongoing' = load
  BY <1>1 DEF Bounded
<1>2. ASSUME NEW b \in HeapTop(P, load), ~ Full(b, load),
             ongoing' = [load EXCEPT ![b] = @ + 1]
      PROVE  Bounded'
  <2>1. load[b] < MaxForwardersPerBackend /\ b \in Backend
    BY <1>2 DEF Full, HeapTop, SchedulerAssumption
  <2> QED BY <1>2, <2>1 DEF Bounded, SchedulerAssumption
<1> QED
  BY <1>1, <1>2 DEF Dispatch

\* The steps of Scheduler keep the bound.
LEMMA BoundedStep ==
  ASSUME IInv, Bounded, [Next]_vars
  PROVE  Bounded'
<1> USE SchedulerAssumption
<1>1. /\ ongoing \in [Backend -> Int] /\ pool \in SUBSET Backend
      /\ \A b \in Backend : ongoing[b] <= MaxForwardersPerBackend
  BY DEF IInv, TypeOK, Bounded
<1>2. CASE UNCHANGED ongoing
  BY <1>2 DEF Bounded
<1>3. ASSUME NEW r \in Req, Job(r) PROVE Bounded'
  BY <1>1, <1>3, DispatchBounded DEF Job
<1>4. CASE Finish
  <2> DEFINE r == Head(done)
             b == backend[r]
             load == [ongoing EXCEPT ![b] = @ - 1]
  <2>1. r \in Req
    BY <1>4 DEF IInv, TypeOK, Finish
  <2>2. load \in [Backend -> Int] /\ \A c \in Backend : load[c] <= MaxForwardersPerBackend
    <3>1. load \in [Backend -> Int]
      BY <1>1, CountDown
    <3> QED BY <1>1, <3>1 DEF SchedulerAssumption
  <2>3. CASE ongoing' = load
    BY <2>2, <2>3 DEF Bounded
  <2>4. CASE Dispatch(r, pool \ {b}, load)
    <3> HIDE DEF r, b, load
    <3> QED BY <1>1, <2>1, <2>2, <2>4, DispatchBounded
  <2> QED BY <1>4, <2>3, <2>4 DEF Finish, Released, Evicted
<1> QED
  BY <1>2, <1>3, <1>4
     DEF Next, StatusAny, Status, Forward, DialOk, DialFail, CopyEnd, vars

\* The requests that forwarders serve stay as they are, and those that get one
\* have a backend that was made.
Placing ==
  /\ \A r \in Req : phase[r] = "connecting" =>
       phase'[r] = "connecting" /\ backend'[r] = backend[r]
  /\ \A r \in Req : phase'[r] \in InFlight => backend'[r] <= allocated'

\* So it is when the scheduler takes a connection or a finished request.
LEMMA Placed ==
  ASSUME TunnelsInv, (\E r \in Req : Job(r)) \/ Finish
  PROVE  Placing /\ UNCHANGED <<allocated, address>>
<1> USE DEF TunnelsInv
<1>1. ASSUME NEW r \in Req, NEW P \in SUBSET pool, NEW load, Dispatch(r, P, load),
             phase[r] # "connecting", UNCHANGED allocated
      PROVE  Placing
  <2>1. P \in SUBSET Backend /\ \A b \in P : b <= allocated
    BY InHeap
  <2>2. /\ \A q \in Req \ {r} : phase'[q] = phase[q] /\ backend'[q] = backend[q]
        /\ phase'[r] \in {"pending", "refused", "connecting"}
        /\ phase'[r] = "connecting" => backend'[r] \in P
    BY <1>1, <2>1, DispatchPhase DEF IInv
  <2> QED BY <1>1, <2>1, <2>2 DEF Placing, Existing, InFlight
<1>2. ASSUME NEW r \in Req, Job(r) PROVE Placing /\ UNCHANGED <<allocated, address>>
  BY <1>1, <1>2 DEF Job
<1>3. CASE Finish
  <2> DEFINE r == Head(done)
             P == pool \ {backend[r]}
             load == Released(backend[r])
  <2>1. r \in Req /\ phase[r] = "done"
    BY <1>3, TailDistinct DEF IInv, TypeOK, OneHome, Finish
  <2>2. CASE Dispatch(r, P, load)
    <3>1. P \in SUBSET pool
      OBVIOUS
    <3> HIDE DEF r, P, load
    <3> QED BY <1>1, <1>3, <2>1, <2>2, <3>1 DEF Finish
  <2>3. CASE phase' = [phase EXCEPT ![r] = "finished"] /\ UNCHANGED backend
    BY <1>3, <2>1, <2>3 DEF Finish, Placing, Existing, InFlight, IInv, TypeOK
  <2> QED BY <1>3, <2>2, <2>3 DEF Finish, Evicted
<1> QED
  BY <1>2, <1>3

\* SpdyCheckStreamId asks for sessions for slots that have a connection and are not
\* being switched.
LEMMA Checked ==
  ASSUME NEW cn, NEW sw, CheckStreamId(cn, sw)
  PROVE  \E T \in SUBSET Slot :
           /\ T \cap sw = {} /\ \A s \in T : cn[s] # Nil
           /\ switching' = sw \cup T /\ Spawn(T)
BY DEF CheckStreamId, AlmostUsedUp, SlotsOf

\* The forwarders keep their slots.
LEMMA Steady ==
  ASSUME Forwarding, Placing, UNCHANGED fwd
  PROVE  /\ Forwarding'
         /\ \A r \in Req : fwd[r].step \in {"open", "report"} => At(r)' = At(r)
BY DEF Forwarding, Placing, At, SlotAt

\* The types of slots and sessions.
LEMMA Typed ==
  ASSUME TTypeOK
  PROVE  /\ \A m \in Elements(ready) : m.slot \in Slot /\ m.conn \in Conn \cup {Nil}
         /\ \A s \in Slot : s[1] \in Backend /\ s[1] \in Nat
         /\ allocated \in Nat
<1> DEFINE Session == [slot : Slot, conn : Conn \cup {Nil}]
<1>1. \A i \in DOMAIN ready : ready[i] \in Session
  <2>1. ready \in Seq(Session)
    BY DEF TTypeOK
  <2> HIDE DEF Session
  <2> QED BY <2>1
<1>2. \A m \in Elements(ready) : m \in Session
  BY <1>1 DEF Elements
<1> QED
  BY <1>2 DEF TTypeOK, TypeOK, Slot, Backend

-----------------------------------------------------------------------------
(* Steps of the scheduler goroutine. *)

\* A connection or a finished request: the counters and lists are as in Scheduler,
\* and slots that are almost used up are given a session.
LEMMA PlacingStep ==
  ASSUME TunnelsInv, IInv', Bounded', Placing, CheckStreamId(conn, switching),
         UNCHANGED <<allocated, address, conn, ready, fail, made, streams, gone,
                     broken, fwd, panicked>>
  PROVE  TunnelsInv'
<1> USE DEF TunnelsInv
<1>1. PICK T \in SUBSET Slot :
        /\ T \cap switching = {} /\ \A s \in T : conn[s] # Nil
        /\ switching' = switching \cup T
        /\ creators' = [s \in Slot |-> IF s \in T THEN creators[s] + 1 ELSE creators[s]]
  BY Checked DEF Spawn
<1>2. /\ creators \in [Slot -> Nat] /\ switching \subseteq Slot
      /\ \A m \in Elements(ready) : m.slot \in Slot
  BY Typed DEF TTypeOK
<1>3. TTypeOK'
  <2>1. TypeOK'
    BY DEF IInv
  <2>2. creators' \in [Slot -> Nat] /\ switching' \subseteq Slot
    BY <1>1, <1>2
  <2> QED BY <2>1, <2>2 DEF TTypeOK
<1>4. Forwarding' /\ \A r \in Req : fwd[r].step \in {"open", "report"} => At(r)' = At(r)
  BY Steady
<1>5. \A s \in T : creators[s] = 0 /\ ~ Making(s) /\ s[1] <= allocated
  <2> SUFFICES ASSUME NEW s \in T PROVE creators[s] = 0 /\ ~ Making(s) /\ s[1] <= allocated
    OBVIOUS
  <2>1. ~ Making(s)
    BY <1>1 DEF Exclusive, Unasked
  <2>2. creators[s] = 0
    BY <1>1, <2>1 DEF Exclusive, Making
  <2>3. s[1] <= allocated
    BY <1>1, Typed DEF Existing
  <2> QED BY <2>1, <2>2, <2>3
<1>6. Existing'
  <2>1. \A s \in Slot : s[1] > allocated => s \notin T
    BY <1>1, <1>5, Typed
  <2> QED BY <1>1, <1>2, <2>1 DEF Existing, Placing
<1>7. \A s \in Slot : Making(s)' <=> Making(s) \/ s \in T
  BY <1>1, <1>2 DEF Making
<1>8. Exclusive'
  <2>1. \A m \in Elements(ready) : m.slot \notin T
    BY <1>5 DEF Making
  <2>2. \A s \in Slot : creators'[s] \in {0, 1}
    BY <1>1, <1>5 DEF Exclusive
  <2>3. \A m \in Elements(ready) : creators'[m.slot] = 0
    BY <1>1, <1>2, <2>1 DEF Exclusive
  <2>4. \A s \in Slot : Unasked(s) => Unasked(s)'
    BY <1>4 DEF Unasked
  <2> QED BY <1>1, <1>7, <2>2, <2>3, <2>4 DEF Exclusive
<1>9. Owned'
  BY DEF Owned
<1>10. Tended'
  <2>1. \A s \in Slot : Reported(s) => Reported(s)'
    <3>1. \A r \in Req : fwd[r].step = "report" => At(r)' = At(r)
      BY <1>4
    <3> QED BY <3>1 DEF Reported, At
  <2> QED BY <1>1, <1>7, <2>1 DEF Tended
<1> QED
  BY <1>3, <1>4, <1>6, <1>8, <1>9, <1>10

\* The first two cases of Schedule.
LEMMA JobOrFinish ==
  ASSUME TunnelsInv, (\E r \in Req : TJob(r)) \/ TFinish
  PROVE  TunnelsInv'
<1>1. (\E r \in Req : Job(r)) \/ Finish
  BY DEF TJob, TFinish
<1>2. IInv' /\ Bounded'
  BY <1>1, InvariantStep, BoundedStep DEF TunnelsInv, Next
<1>3. Placing /\ UNCHANGED <<allocated, address>>
  BY <1>1, Placed
<1> QED
  BY <1>2, <1>3, PlacingStep DEF TJob, TFinish

\* A fail message: the slot has been asked for by no one else if its flag is not set.
LEMMA FailStep == ASSUME TunnelsInv, FailMsg PROVE TunnelsInv'
<1> USE DEF TunnelsInv
<1> DEFINE h == Head(fail)
           T == {h} \ switching
<1>1. /\ h \in Slot /\ fail' \in Seq(Slot)
      /\ Elements(fail) = Elements(fail') \cup {h}
  BY Received DEF FailMsg, TTypeOK
<1>2. /\ switching' = switching \cup T
      /\ creators' = [s \in Slot |-> IF s \in T THEN creators[s] + 1 ELSE creators[s]]
      /\ UNCHANGED <<vars, conn, ready, made, streams, gone, broken, fwd, panicked>>
  BY DEF FailMsg, Spawn
<1>3. /\ creators \in [Slot -> Nat] /\ switching \subseteq Slot
      /\ \A m \in Elements(ready) : m.slot \in Slot
  BY Typed DEF TTypeOK
<1>4. IInv' /\ Bounded' /\ Forwarding' /\ Owned'
  <2>1. IInv'
    BY <1>2, InvariantStep
  <2>2. Bounded' /\ Forwarding' /\ Owned'
    BY <1>2 DEF Bounded, Forwarding, Owned, vars
  <2> QED BY <2>1, <2>2
<1>5. h[1] <= allocated
  <2> HIDE DEF h
  <2> QED BY <1>1, Typed DEF Existing
<1>6. h \in T => creators[h] = 0 /\ ~ Making(h)
  <2> SUFFICES ASSUME h \in T PROVE creators[h] = 0 /\ ~ Making(h)
    OBVIOUS
  <2>1. ~ Making(h)
    BY <1>1 DEF Exclusive, Unasked
  <2> QED BY <1>1, <2>1 DEF Exclusive, Making
<1> HIDE DEF h
<1>7. TTypeOK'
  <2>1. TypeOK'
    BY <1>4 DEF IInv
  <2>2. creators' \in [Slot -> Nat] /\ switching' \subseteq Slot
    BY <1>1, <1>2, <1>3
  <2> QED BY <1>1, <1>2, <2>1, <2>2 DEF TTypeOK, vars
<1>8. Existing'
  <2>1. \A s \in Slot : s[1] > allocated => s # h
    BY <1>5, Typed
  <2> QED BY <1>1, <1>2, <1>3, <2>1 DEF Existing, vars
<1>9. \A s \in Slot : Making(s)' <=> Making(s) \/ s \in T
  BY <1>2, <1>3 DEF Making
<1>10. \A r \in Req : At(r)' = At(r)
  BY <1>2 DEF At, SlotAt, vars
<1>11. Exclusive'
  <2>1. \A m \in Elements(ready) : m.slot \notin T
    BY <1>6 DEF Making
  <2>2. \A s \in Slot : creators'[s] \in {0, 1}
    BY <1>2, <1>6 DEF Exclusive
  <2>3. \A m \in Elements(ready) : creators'[m.slot] = 0
    BY <1>2, <1>3, <2>1 DEF Exclusive
  <2>4. \A s \in Slot : Unasked(s) => Unasked(s)'
    BY <1>1, <1>2, <1>10 DEF Unasked
  <2> QED BY <1>2, <1>9, <2>2, <2>3, <2>4 DEF Exclusive
<1>12. Tended'
  <2> SUFFICES ASSUME NEW s \in Slot \ panicked
               PROVE  /\ s \in switching' => Making(s)'
                      /\ conn[s] \notin gone
                      /\ s[1] <= allocated /\ conn[s] = Nil => Making(s)' \/ Reported(s)'
    BY <1>2 DEF Tended, vars
  <2>1. s \in switching' => Making(s)'
    BY <1>2, <1>9 DEF Tended
  <2>2. s # h /\ Reported(s) => Reported(s)'
    BY <1>1, <1>2, <1>10 DEF Reported, At
  <2>3. s = h => Making(s)'
    BY <1>9 DEF Tended
  <2> QED BY <1>9, <2>1, <2>2, <2>3 DEF Tended
<1> QED
  BY <1>4, <1>7, <1>8, <1>11, <1>12

\* The backends that a report makes are numbered after the others and get an
\* address each, and each of their slots a creator.
LEMMA NewBackends ==
  ASSUME TunnelsInv, NEW S \in SUBSET Addr, TStatus(S)
  PROVE  /\ allocated \in Nat /\ allocated' \in Nat
         /\ allocated <= allocated' /\ allocated' <= MaxObjects
         /\ address' \in [Backend -> Addr \cup {Nil}]
         /\ \A b \in Backend : b <= allocated => address'[b] = address[b]
         /\ \A b \in Backend : b > allocated /\ b <= allocated' => address'[b] \in Addr
         /\ creators' = [s \in Slot |-> IF s[1] > allocated /\ s[1] <= allocated'
                                        THEN creators[s] + 1 ELSE creators[s]]
<1> USE DEF TunnelsInv
<1> DEFINE N == Fresh(S)
<1>1. N \in SUBSET Addr /\ allocated \in Nat /\ MaxObjects \in Nat
  BY SchedulerAssumption DEF Fresh, TTypeOK, TypeOK, SchedulerAssumption
<1>2. allocated + Cardinality(N) <= MaxObjects /\ allocated' = allocated + Cardinality(N)
  BY DEF TStatus
<1>3. PICK f \in NewObjects(N) :
        LET new == {f[a] : a \in N} IN
        /\ address' = [b \in Backend |-> IF b \in new THEN CHOOSE a \in N : f[a] = b
                                                      ELSE address[b]]
        /\ Spawn(UNION {SlotsOf(b) : b \in new})
  BY DEF TStatus
<1> DEFINE new == {f[a] : a \in N}
<1>4. /\ Cardinality(N) \in Nat
      /\ f \in [N -> allocated + 1 .. allocated + Cardinality(N)]
      /\ \A a, c \in N : a # c => f[a] # f[c]
  <2> HIDE DEF N
  <2> QED BY <1>1, <1>2, NewObjectsType, SchedulerAssumption
<1>5. new = allocated + 1 .. allocated'
  <2> DEFINE I == allocated + 1 .. allocated + Cardinality(N)
  <2>1. f \in Injection(N, I)
    BY <1>4 DEF Injection, IsInjective
  <2>2. IsFiniteSet(I) /\ Cardinality(I) = Cardinality(N)
    <3>1. allocated + 1 \in Int /\ allocated + Cardinality(N) \in Int
      BY <1>1, <1>4
    <3> HIDE DEF N
    <3> QED BY <1>1, <1>4, <3>1, FS_Interval
  <2>3. f \in Surjection(N, I)
    <3> HIDE DEF N, I
    <3> QED BY <2>1, <2>2, FS_Injection
  <2>4. \A b \in I : \E a \in N : f[a] = b
    BY <2>3 DEF Surjection
  <2> HIDE DEF N
  <2> QED BY <1>2, <1>4, <2>4
<1>6. allocated' \in Nat /\ allocated <= allocated' /\ allocated' <= MaxObjects
  BY <1>1, <1>2, <1>4
<1>7. ASSUME NEW b \in Backend
      PROVE  IF b \in new THEN address'[b] \in Addr ELSE address'[b] = address[b]
  <2>1. b \in new => (CHOOSE a \in N : f[a] = b) \in N
    OBVIOUS
  <2> HIDE DEF new, N
  <2> QED BY <1>1, <1>3, <2>1 DEF new
<1>8. address' \in [Backend -> Addr \cup {Nil}]
  <2>1. address' = [b \in Backend |-> address'[b]]
    BY <1>3
  <2>2. address \in [Backend -> Addr \cup {Nil}]
    BY DEF TTypeOK, TypeOK
  <2> HIDE DEF new
  <2> QED BY <1>7, <2>1, <2>2
<1>9. ASSUME NEW s \in Slot
      PROVE  s \in UNION {SlotsOf(b) : b \in new} <=> s[1] > allocated /\ s[1] <= allocated'
  <2>1. s \in UNION {SlotsOf(b) : b \in new} <=> s[1] \in new
    BY DEF SlotsOf
  <2>2. s[1] \in Nat
    BY Typed
  <2> HIDE DEF new
  <2> QED BY <1>1, <1>5, <1>6, <2>1, <2>2
<1>10. creators' = [s \in Slot |-> IF s[1] > allocated /\ s[1] <= allocated'
                                   THEN creators[s] + 1 ELSE creators[s]]
  <2> HIDE DEF new, N
  <2> QED BY <1>3, <1>9 DEF Spawn, new
<1>11. \A b \in Backend : b \in new <=> b > allocated /\ b <= allocated'
  BY <1>1, <1>5, <1>6 DEF Backend
<1> HIDE DEF new
<1> QED
  BY <1>1, <1>6, <1>7, <1>8, <1>10, <1>11 DEF Backend

\* A report keeps the invariant of the scheduler: what it adds waits for a session.
LEMMA ReportKeeps ==
  ASSUME TunnelsInv, NEW S \in SUBSET Addr, TStatus(S)
  PROVE  IInv' /\ Bounded'
<1> USE DEF TunnelsInv
<1>1. /\ allocated \in Nat /\ allocated' \in Nat
      /\ allocated <= allocated' /\ allocated' <= MaxObjects
      /\ address' \in [Backend -> Addr \cup {Nil}]
      /\ \A b \in Backend : b <= allocated => address'[b] = address[b]
  BY NewBackends
<1>2. /\ backends' = [a \in Addr |-> IF a \in Known(S) THEN backends[a] ELSE Nil]
      /\ pool' = Retained(S)
      /\ UNCHANGED <<ongoing, pending, done, phase, backend, err, closed>>
  BY DEF TStatus
<1>3. ASSUME NEW a \in Known(S)
      PROVE  /\ a \in Addr /\ backends[a] \in Backend /\ backends[a] \in 1 .. allocated
             /\ backends'[a] = backends[a] /\ address'[backends[a]] = a
  BY <1>1, <1>2 DEF Known, IInv, TypeOK, Registered
<1>4. TypeOK'
  <2>1. backends' \in [Addr -> Backend \cup {Nil}]
    BY <1>2, <1>3
  <2>2. pool' \subseteq Backend
    <3>1. pool \subseteq Backend
      BY DEF IInv, TypeOK
    <3> QED BY <1>2, <1>3, <3>1 DEF Retained
  <2> QED BY <1>1, <1>2, <2>1, <2>2 DEF IInv, TypeOK
<1>5. Registered'
  BY <1>1, <1>2, <1>3 DEF Registered
<1>6. PoolRegistered'
  <2> SUFFICES ASSUME NEW b \in pool' PROVE \E a \in Known(S) : b = backends[a]
    BY <1>3 DEF PoolRegistered
  <2>1. CASE b \in pool /\ \A a \in Gone(S) : b # backends[a]
    <3>1. PICK a \in Addr : a = address[b] /\ backends[a] = b
      BY <2>1 DEF IInv, PoolRegistered
    <3>2. b # Nil
      BY <2>1 DEF IInv, TypeOK, Backend, Nil
    <3> QED BY <2>1, <3>1, <3>2 DEF Known, Gone
  <2> QED BY <1>2, <2>1 DEF Retained
<1>7. Holding' /\ OngoingExact' /\ OneHome' /\ Bounded'
  BY <1>2 DEF IInv, Holding, OngoingExact, Carried, OneHome, Bounded
<1> QED
  BY <1>4, <1>5, <1>6, <1>7 DEF IInv

\* The slots of new backends have a first session in the making.
LEMMA ReportStep ==
  ASSUME TunnelsInv, NEW S \in SUBSET Addr, TStatus(S)
  PROVE  TunnelsInv'
<1> USE DEF TunnelsInv
<1>1. /\ allocated \in Nat /\ allocated' \in Nat
      /\ allocated <= allocated' /\ allocated' <= MaxObjects
      /\ \A b \in Backend : b <= allocated => address'[b] = address[b]
      /\ \A b \in Backend : b > allocated /\ b <= allocated' => address'[b] \in Addr
      /\ creators' = [s \in Slot |-> IF s[1] > allocated /\ s[1] <= allocated'
                                     THEN creators[s] + 1 ELSE creators[s]]
  BY NewBackends
<1>2. UNCHANGED <<phase, backend, conn, switching, ready, fail, made, streams, gone,
                  broken, fwd, panicked>>
  BY DEF TStatus
<1>3. IInv' /\ Bounded'
  BY ReportKeeps
<1>4. /\ creators \in [Slot -> Nat]
      /\ \A m \in Elements(ready) : m.slot \in Slot
      /\ \A s \in Slot : s[1] \in Backend /\ s[1] \in Nat
  BY Typed DEF TTypeOK
<1>5. TTypeOK'
  <2>1. TypeOK'
    BY <1>3 DEF IInv
  <2>2. creators' \in [Slot -> Nat]
    BY <1>1, <1>4
  <2> QED BY <1>2, <2>1, <2>2 DEF TTypeOK
<1>6. Forwarding' /\ Owned'
  BY <1>2 DEF Forwarding, Owned
<1>7. Existing'
  <2>1. \A b \in 1 .. allocated' : address'[b] \in Addr
    <3>1. \A b \in 1 .. allocated' : b \in Backend /\ (b \in 1 .. allocated \/ b > allocated)
      BY <1>1, SchedulerAssumption DEF Backend, SchedulerAssumption
    <3> QED BY <1>1, <3>1 DEF Existing
  <2>2. \A r \in Req : phase'[r] \in InFlight => backend'[r] <= allocated'
    <3>1. \A r \in Req : phase[r] \in InFlight => backend[r] \in Nat
      BY DEF IInv, Holding, Backend
    <3> QED BY <1>1, <1>2, <3>1 DEF Existing
  <2>3. \A s \in Slot : s[1] > allocated' => s[1] > allocated
    BY <1>1, <1>4
  <2> QED BY <1>1, <1>2, <1>4, <2>1, <2>2, <2>3 DEF Existing
<1>8. \A r \in Req : At(r)' = At(r)
  BY <1>2 DEF At, SlotAt
<1>9. ASSUME NEW s \in Slot
      PROVE  IF s[1] > allocated /\ s[1] <= allocated'
             THEN creators'[s] = 1 /\ creators[s] = 0 /\ Making(s)' /\ Unasked(s)
                  /\ \A m \in Elements(ready) : m.slot # s
             ELSE creators'[s] = creators[s] /\ (Making(s)' <=> Making(s))
  <2>1. CASE s[1] > allocated /\ s[1] <= allocated'
    <3>1. creators'[s] = 1 /\ creators[s] = 0
      BY <1>1, <2>1 DEF Existing
    <3>2. \A r \in Req : fwd[r].step \in {"open", "report"} => backend[r] <= allocated
      BY DEF Forwarding, Existing, InFlight
    <3>3. \A r \in Req : fwd[r].step \in {"open", "report"} => At(r) # s
      <4>1. \A r \in Req : At(r)[1] = backend[r]
        BY DEF At, SlotAt
      <4>2. \A r \in Req : backend[r] <= allocated => backend[r] # s[1]
        BY <1>1, <1>4, <2>1
      <4> QED BY <3>2, <4>1, <4>2
    <3>4. Unasked(s)
      BY <2>1, <3>3 DEF Existing, Unasked
    <3> QED BY <2>1, <3>1, <3>4 DEF Making, Existing
  <2>2. CASE ~ (s[1] > allocated /\ s[1] <= allocated')
    BY <1>1, <1>2, <2>2 DEF Making
  <2> QED BY <2>1, <2>2
<1>10. \A s \in Slot : Unasked(s) => Unasked(s)'
  BY <1>2, <1>8 DEF Unasked
<1>11. Exclusive'
  <2>1. \A s \in Slot : /\ creators'[s] \in {0, 1}
                        /\ Making(s)' => s \in switching \/ Unasked(s)
    BY <1>9 DEF Exclusive
  <2>2. \A m \in Elements(ready) : creators'[m.slot] = 0
    BY <1>4, <1>9 DEF Exclusive
  <2> QED BY <1>2, <1>10, <2>1, <2>2 DEF Exclusive
<1>12. Tended'
  <2>1. \A s \in Slot : Reported(s) => Reported(s)'
    BY <1>2, <1>8 DEF Reported, At
  <2>2. \A s \in Slot : Making(s) => Making(s)'
    BY <1>9 DEF Making
  <2>3. \A s \in Slot : s[1] <= allocated' =>
          s[1] <= allocated \/ (s[1] > allocated /\ s[1] <= allocated')
    BY <1>1, <1>4
  <2> QED BY <1>2, <1>9, <2>1, <2>2, <2>3 DEF Tended
<1> QED
  BY <1>3, <1>5, <1>6, <1>7, <1>11, <1>12

\* A session registers its backend if the address has none, and the requests that
\* waited for one are dispatched: the scheduler keeps its invariant.
LEMMA SessionKeeps ==
  ASSUME TunnelsInv, SessionMsg
  PROVE  IInv' /\ Bounded' /\ Placing /\ UNCHANGED <<allocated, address>>
<1> USE DEF TunnelsInv
<1> DEFINE b == Head(ready).slot[1]
<1>1. UNCHANGED <<allocated, address, done, err>>
  BY DEF SessionMsg
<1>2. b \in Backend /\ b \in 1 .. allocated /\ address[b] \in Addr
  <2> DEFINE m == Head(ready)
  <2>1. m \in Elements(ready)
    BY Received DEF SessionMsg, TTypeOK
  <2> HIDE DEF m
  <2>2. m.slot \in Slot /\ m.slot[1] \in Backend /\ m.slot[1] \in Nat /\ allocated \in Nat
    BY <2>1, Typed
  <2>3. m.slot[1] <= allocated /\ m.slot[1] >= 1
    BY <2>1, <2>2 DEF Existing, Backend
  <2>4. m.slot[1] \in 1 .. allocated
    BY <2>2, <2>3
  <2> USE DEF m
  <2> HIDE DEF m
  <2>5. b = m.slot[1]
    BY DEF m
  <2> HIDE DEF b
  <2> QED BY <2>2, <2>4, <2>5 DEF Existing
<1> HIDE DEF b
<1>3. CASE UNCHANGED <<backends, pool, pending, phase, backend, ongoing, closed>>
  <2>1. UNCHANGED vars
    BY <1>1, <1>3 DEF vars
  <2>2. IInv' /\ Bounded'
    BY <2>1, InvariantStep, BoundedStep
  <2>3. Placing
    BY <1>1, <1>3 DEF Placing, Existing
  <2> QED BY <1>1, <2>2, <2>3
<1>4. ASSUME backends[address[b]] = Nil,
             backends' = [backends EXCEPT ![address[b]] = b],
             pool' = pool \cup {b}, Drain(pool')
      PROVE  IInv' /\ Bounded' /\ Placing
  <2> DEFINE P == pool \cup {b}
  <2>1. P \in SUBSET Backend /\ Drain(P) /\ \A c \in P : c <= allocated
    BY <1>2, <1>4, InHeap
  <2> HIDE DEF P
  <2>2. /\ pending' = <<>>
        /\ phase' \in [Req -> Phase] /\ backend' \in [Req -> Backend \cup {Nil}]
        /\ closed' \subseteq Req /\ ongoing' \in [Backend -> Int]
        /\ \A r \in Req : phase[r] # "pending" =>
             phase'[r] = phase[r] /\ backend'[r] = backend[r]
        /\ \A r \in Req : phase[r] = "pending" =>
             /\ phase'[r] \in {"refused", "connecting"}
             /\ phase'[r] = "connecting" => backend'[r] \in P
        /\ OngoingExact' /\ Bounded'
    BY <2>1, Draining, SchedulerAssumption DEF IInv
  <2>3. TypeOK'
    <3>1. backends' \in [Addr -> Backend \cup {Nil}] /\ pool' \subseteq Backend
      BY <1>2, <1>4 DEF IInv, TypeOK
    <3> QED BY <1>1, <2>2, <3>1 DEF IInv, TypeOK
  <2>4. Registered'
    BY <1>1, <1>2, <1>4 DEF IInv, TypeOK, Registered
  <2>5. PoolRegistered'
    <3>1. ASSUME NEW c \in pool, c # b
          PROVE  address[c] \in Addr /\ backends'[address[c]] = c
      <4>1. address[c] \in Addr /\ backends[address[c]] = c /\ c # Nil
        BY DEF IInv, PoolRegistered, TypeOK, Backend, Nil
      <4> QED BY <1>2, <1>4, <4>1 DEF IInv, TypeOK
    <3>2. backends'[address[b]] = b
      BY <1>2, <1>4 DEF IInv, TypeOK
    <3> QED BY <1>1, <1>2, <1>4, <3>1, <3>2 DEF PoolRegistered
  <2>6. Holding'
    BY <2>1, <2>2 DEF IInv, Holding, InFlight
  <2>7. OneHome'
    <3>1. {r \in Req : phase'[r] = "done"} = {r \in Req : phase[r] = "done"}
      BY <2>2
    <3>2. {r \in Req : phase'[r] = "pending"} = {}
      BY <2>2
    <3>3. Distinct(<<>>) /\ Elements(<<>>) = {}
      BY DEF Distinct, Elements
    <3> QED BY <1>1, <2>2, <3>1, <3>2, <3>3 DEF IInv, OneHome
  <2>8. Placing
    BY <1>1, <2>1, <2>2 DEF Placing, Existing, InFlight
  <2> QED BY <2>2, <2>3, <2>4, <2>5, <2>6, <2>7, <2>8 DEF IInv
<1> QED
  BY <1>1, <1>3, <1>4 DEF SessionMsg, Unknown, b

\* The slot of a session gets its connection, and the earlier one is closed.
LEMMA SessionStep == ASSUME TunnelsInv, SessionMsg PROVE TunnelsInv'
<1> USE DEF TunnelsInv
<1> DEFINE h == Head(ready)
           E == Elements(ready)
           D == Elements(ready')
           t == h.slot
<1>1. /\ h \in E /\ E = D \cup {h} /\ h \notin D /\ h.conn # Nil
      /\ Distinct(ready') /\ ready' \in Seq([slot : Slot, conn : Conn \cup {Nil}])
  <2>1. ready # <<>> /\ ready' = Tail(ready) /\ Head(ready).conn # Nil
    BY DEF SessionMsg
  <2>2. ready \in Seq([slot : Slot, conn : Conn \cup {Nil}]) /\ Distinct(ready)
    BY DEF TTypeOK, Exclusive
  <2> QED BY <2>1, <2>2, Received, TailDistinct
<1>2. /\ conn' = [conn EXCEPT ![t] = h.conn]
      /\ panicked' = panicked \ {t}
      /\ gone' = gone \cup ({conn[t]} \ {Nil})
      /\ CheckStreamId(conn', switching \ {t})
      /\ UNCHANGED <<allocated, fail, made, streams, broken, fwd>>
  BY DEF SessionMsg, Closed
<1>3. IInv' /\ Bounded' /\ Placing /\ UNCHANGED <<allocated, address>>
  BY SessionKeeps
<1>4. PICK T \in SUBSET Slot :
        /\ T \cap (switching \ {t}) = {} /\ \A s \in T : conn'[s] # Nil
        /\ switching' = (switching \ {t}) \cup T
        /\ creators' = [s \in Slot |-> IF s \in T THEN creators[s] + 1 ELSE creators[s]]
  BY <1>2 DEF CheckStreamId, AlmostUsedUp, SlotsOf, Spawn
<1>5. /\ \A m \in E : m.slot \in Slot /\ m.conn \in Conn \cup {Nil}
      /\ \A s \in Slot : s[1] \in Backend /\ s[1] \in Nat
      /\ allocated \in Nat
      /\ creators \in [Slot -> Nat] /\ switching \subseteq Slot
      /\ conn \in [Slot -> Conn \cup {Nil}] /\ gone \subseteq Conn
  BY Typed DEF TTypeOK
<1> HIDE DEF h, E, D
<1>6. /\ t \in Slot /\ h.conn \in Conn /\ t[1] <= allocated
      /\ creators[t] = 0 /\ \A m \in D : m.slot # t
  <2>1. t \in Slot /\ h.conn \in Conn /\ t[1] <= allocated
    BY <1>1, <1>5 DEF Existing, E
  <2>2. creators[t] = 0 /\ \A m \in D : m.slot # t
    BY <1>1 DEF Exclusive, E
  <2> QED BY <2>1, <2>2
<1>7. /\ conn'[t] = h.conn
      /\ \A s \in Slot : s # t => conn'[s] = conn[s]
  BY <1>2, <1>5, <1>6
<1>8. ASSUME NEW s \in T
      PROVE  creators[s] = 0 /\ s[1] <= allocated /\ \A m \in D : m.slot # s
  <2>1. CASE s = t
    BY <1>6, <2>1
  <2>2. CASE s # t
    <3>1. conn[s] # Nil /\ s \notin switching /\ s \in Slot
      BY <1>4, <1>7, <2>2
    <3>2. ~ Making(s)
      BY <3>1 DEF Exclusive, Unasked
    <3>3. s[1] <= allocated
      BY <1>5, <3>1 DEF Existing
    <3> QED BY <1>1, <3>1, <3>2, <3>3 DEF Exclusive, Making, E
  <2> QED BY <2>1, <2>2
<1>9. TTypeOK'
  <2>1. TypeOK'
    BY <1>3 DEF IInv
  <2>2. creators' \in [Slot -> Nat] /\ switching' \subseteq Slot
    BY <1>4, <1>5
  <2>3. conn' \in [Slot -> Conn \cup {Nil}] /\ gone' \subseteq Conn
    BY <1>2, <1>5, <1>6
  <2> QED BY <1>1, <1>2, <2>1, <2>2, <2>3 DEF TTypeOK
<1>10. Forwarding' /\ \A r \in Req : fwd[r].step \in {"open", "report"} => At(r)' = At(r)
  BY <1>2, <1>3, Steady
<1>11. Existing'
  <2>1. \A s \in Slot : s[1] > allocated => s \notin T /\ s # t
    BY <1>5, <1>6, <1>8
  <2> QED BY <1>1, <1>2, <1>3, <1>4, <1>5, <1>7, <2>1 DEF Existing, Placing, D, E
<1>12. ASSUME NEW s \in Slot
       PROVE  IF s = t THEN Making(s)' <=> s \in T ELSE Making(s)' <=> Making(s) \/ s \in T
  <2>1. Making(s)' <=> creators[s] > 0 \/ s \in T \/ \E m \in D : m.slot = s
    BY <1>4, <1>5 DEF Making, D
  <2>2. s # t => (Making(s) <=> creators[s] > 0 \/ \E m \in D : m.slot = s)
    BY <1>1 DEF Making, E
  <2>3. s = t => ~ (creators[s] > 0) /\ ~ \E m \in D : m.slot = s
    BY <1>6
  <2> QED BY <2>1, <2>2, <2>3
<1>13. Exclusive'
  <2>1. \A m \in D : m.slot \notin T /\ m.slot \in Slot /\ creators[m.slot] = 0
    BY <1>1, <1>5, <1>8 DEF Exclusive, E
  <2>2. \A s \in Slot : creators'[s] \in {0, 1}
    BY <1>4, <1>8 DEF Exclusive
  <2>3. \A m \in D : creators'[m.slot] = 0
    BY <1>4, <1>5, <2>1
  <2>4. \A s \in Slot : s # t /\ Unasked(s) => Unasked(s)'
    BY <1>2, <1>7, <1>10 DEF Unasked
  <2>5. \A m, n \in D : m.slot = n.slot => m = n
    BY <1>1 DEF Exclusive, E
  <2>6. ASSUME NEW s \in Slot, Making(s)' PROVE s \in switching' \/ Unasked(s)'
    <3>1. CASE s \in T
      BY <1>4, <3>1
    <3>2. CASE s \notin T
      <4>1. s # t /\ Making(s)
        BY <1>12, <2>6, <3>2
      <4> QED BY <1>4, <2>4, <4>1 DEF Exclusive
    <3> QED BY <3>1, <3>2
  <2> QED BY <1>1, <2>2, <2>3, <2>5, <2>6 DEF Exclusive, D
<1>14. /\ h.conn \in (1 .. made) \ gone /\ \A s \in Slot : conn[s] # h.conn
       /\ \A m \in D : m.conn = h.conn => FALSE
  BY <1>1 DEF Owned, E
<1>15. Owned'
  <2>1. gone' \subseteq 1 .. made
    <3>1. gone \subseteq 1 .. made /\ (conn[t] = Nil \/ conn[t] \in 1 .. made)
      BY <1>6 DEF Owned
    <3> HIDE DEF t
    <3> QED BY <1>2, <3>1
  <2>2. \A s \in Slot : conn'[s] \in {Nil} \cup 1 .. made
    BY <1>7, <1>14 DEF Owned
  <2>3. ASSUME NEW s \in Slot, NEW u \in Slot, conn'[s] = conn'[u], conn'[s] # Nil
        PROVE  s = u
    BY <1>7, <1>14, <2>3 DEF Owned
  <2>4. ASSUME NEW m \in D, m.conn # Nil
        PROVE  m.conn \in (1 .. made) \ gone' /\ \A s \in Slot : conn'[s] # m.conn
    <3>1. m.conn \in (1 .. made) \ gone /\ \A s \in Slot : conn[s] # m.conn
      BY <1>1, <2>4 DEF Owned, E
    <3> QED BY <1>2, <1>6, <1>7, <1>14, <2>4, <3>1
  <2>5. \A m, n \in D : m.conn = n.conn /\ m.conn # Nil => m = n
    BY <1>1 DEF Owned, E
  <2>6. ASSUME NEW c \in (1 .. made) \ gone'
        PROVE  (\E s \in Slot : conn'[s] = c) \/ (\E m \in D : m.conn = c)
    <3>1. c \in (1 .. made) \ gone /\ (conn[t] = c => c = Nil)
      BY <1>2
    <3>2. c # Nil
      BY DEF Nil
    <3>3. CASE \E s \in Slot : conn[s] = c
      BY <1>7, <3>1, <3>2, <3>3
    <3>4. CASE \E m \in E : m.conn = c
      BY <1>1, <1>6, <1>7, <3>4
    <3> QED BY <3>1, <3>3, <3>4 DEF Owned, E
  <2> QED BY <1>2, <2>1, <2>2, <2>3, <2>4, <2>5, <2>6 DEF Owned, D
<1>16. Tended'
  <2> SUFFICES ASSUME NEW s \in Slot \ panicked'
               PROVE  /\ s \in switching' => Making(s)'
                      /\ conn'[s] \notin gone'
                      /\ s[1] <= allocated /\ conn'[s] = Nil => Making(s)' \/ Reported(s)'
    BY <1>3 DEF Tended
  <2>1. CASE s = t
    <3>1. s \in switching' => Making(s)'
      BY <1>4, <1>12, <2>1
    <3>2. conn'[s] \notin gone' /\ conn'[s] # Nil
      BY <1>1, <1>2, <1>6, <1>7, <1>14, <2>1
    <3> QED BY <3>1, <3>2
  <2>2. CASE s # t
    <3>1. s \in Slot \ panicked /\ conn'[s] = conn[s]
      BY <1>2, <1>7, <2>2
    <3>2. conn[s] = conn[t] => conn[s] = Nil
      BY <1>6, <2>2 DEF Owned
    <3>3. conn'[s] \notin gone'
      BY <1>2, <3>1, <3>2 DEF Tended
    <3>4. Reported(s) => Reported(s)'
      <4>1. \A r \in Req : fwd[r].step = "report" => At(r)' = At(r)
        BY <1>10
      <4> QED BY <1>2, <4>1 DEF Reported, At
    <3> QED BY <1>4, <1>12, <2>2, <3>1, <3>3, <3>4 DEF Tended
  <2> QED BY <2>1, <2>2
<1> QED
  BY <1>3, <1>9, <1>10, <1>11, <1>13, <1>15, <1>16

\* A nil session: the old connection is closed in the slot, and the slot is marked.
LEMMA NilStep == ASSUME TunnelsInv, NilSessionMsg PROVE TunnelsInv'
<1> USE DEF TunnelsInv
<1> DEFINE h == Head(ready)
           E == Elements(ready)
           D == Elements(ready')
           t == h.slot
<1>1. /\ h \in E /\ E = D \cup {h} /\ h \notin D /\ h.conn = Nil
      /\ Distinct(ready') /\ ready' \in Seq([slot : Slot, conn : Conn \cup {Nil}])
  <2>1. ready # <<>> /\ ready' = Tail(ready) /\ Head(ready).conn = Nil
    BY DEF NilSessionMsg
  <2>2. ready \in Seq([slot : Slot, conn : Conn \cup {Nil}]) /\ Distinct(ready)
    BY DEF TTypeOK, Exclusive
  <2> QED BY <2>1, <2>2, Received, TailDistinct
<1>2. /\ gone' = gone \cup ({conn[t]} \ {Nil})
      /\ panicked' = panicked \cup {t}
      /\ UNCHANGED <<vars, conn, switching, creators, fail, made, streams, broken, fwd>>
  BY DEF NilSessionMsg, Closed
<1>3. IInv' /\ Bounded' /\ Forwarding'
  <2>1. IInv'
    BY <1>2, InvariantStep
  <2> QED BY <1>2, <2>1 DEF Bounded, Forwarding, vars
<1>4. /\ \A m \in E : m.slot \in Slot /\ m.conn \in Conn \cup {Nil}
      /\ conn \in [Slot -> Conn \cup {Nil}] /\ gone \subseteq Conn
  BY Typed DEF TTypeOK
<1> HIDE DEF h, E, D
<1>5. t \in Slot /\ creators[t] = 0 /\ \A m \in D : m.slot # t
  BY <1>1, <1>4 DEF Exclusive, E
<1>6. \A r \in Req : At(r)' = At(r)
  BY <1>2 DEF At, SlotAt, vars
<1>7. TTypeOK'
  <2>1. TypeOK'
    BY <1>3 DEF IInv
  <2>2. gone' \subseteq Conn
    BY <1>2, <1>4, <1>5
  <2> QED BY <1>1, <1>2, <2>1, <2>2 DEF TTypeOK
<1>8. Existing'
  BY <1>1, <1>2 DEF Existing, vars, D, E
<1>9. \A s \in Slot : Making(s)' <=> Making(s) /\ s # t
  <2>1. \A s \in Slot : Making(s)' <=> creators[s] > 0 \/ \E m \in D : m.slot = s
    BY <1>2 DEF Making, D
  <2>2. \A s \in Slot : Making(s) <=> creators[s] > 0 \/ \E m \in E : m.slot = s
    BY DEF Making, E
  <2> QED BY <1>1, <1>5, <2>1, <2>2
<1>10. Exclusive'
  <2>1. \A s \in Slot : Unasked(s) => Unasked(s)'
    BY <1>2, <1>6 DEF Unasked
  <2> QED BY <1>1, <1>2, <1>9, <2>1 DEF Exclusive, D, E
<1>11. Owned'
  <2>1. gone' \subseteq 1 .. made
    <3>1. gone \subseteq 1 .. made /\ (conn[t] = Nil \/ conn[t] \in 1 .. made)
      BY <1>5 DEF Owned
    <3> HIDE DEF t
    <3> QED BY <1>2, <3>1
  <2>2. ASSUME NEW m \in D, m.conn # Nil
        PROVE  m.conn \in (1 .. made) \ gone' /\ \A s \in Slot : conn[s] # m.conn
    <3>1. m.conn \in (1 .. made) \ gone /\ \A s \in Slot : conn[s] # m.conn
      BY <1>1, <2>2 DEF Owned, E
    <3> QED BY <1>2, <1>5, <3>1
  <2>3. \A m, n \in D : m.conn = n.conn /\ m.conn # Nil => m = n
    BY <1>1 DEF Owned, E
  <2>4. ASSUME NEW c \in (1 .. made) \ gone'
        PROVE  (\E s \in Slot : conn[s] = c) \/ (\E m \in D : m.conn = c)
    <3>1. c \in (1 .. made) \ gone /\ c # Nil
      BY <1>2 DEF Nil
    <3>2. (\E s \in Slot : conn[s] = c) \/ (\E m \in E : m.conn = c)
      BY <3>1 DEF Owned, E
    <3> QED BY <1>1, <3>1, <3>2
  <2>5. \A s, u \in Slot : conn[s] = conn[u] /\ conn[s] # Nil => s = u
    BY DEF Owned
  <2>6. \A s \in Slot : conn[s] \in {Nil} \cup 1 .. made
    BY DEF Owned
  <2> QED BY <1>2, <2>1, <2>2, <2>3, <2>4, <2>5, <2>6 DEF Owned, D
<1>12. Tended'
  <2> SUFFICES ASSUME NEW s \in Slot \ panicked'
               PROVE  /\ s \in switching => Making(s)'
                      /\ conn[s] \notin gone'
                      /\ s[1] <= allocated /\ conn[s] = Nil => Making(s)' \/ Reported(s)'
    BY <1>2 DEF Tended, vars
  <2>1. s # t /\ s \in Slot \ panicked
    BY <1>2
  <2>2. conn[s] = conn[t] => conn[s] = Nil
    BY <1>5, <2>1 DEF Owned
  <2>3. conn[s] \notin gone'
    BY <1>2, <2>1, <2>2 DEF Tended
  <2>4. Reported(s) => Reported(s)'
    BY <1>2, <1>6 DEF Reported, At
  <2> QED BY <1>9, <2>1, <2>3, <2>4 DEF Tended
<1> QED
  BY <1>3, <1>7, <1>8, <1>10, <1>11, <1>12

-----------------------------------------------------------------------------
(* Steps of creators and of transports. *)

\* A creator hands over the one session of its slot, with a new connection or none.
LEMMA HandOver ==
  ASSUME TunnelsInv, NEW s \in Slot, SessionUp(s) \/ SessionNil(s)
  PROVE  TunnelsInv'
<1> USE DEF TunnelsInv
<1>1. PICK c :
        /\ \/ c = Nil /\ made' = made
           \/ c = made + 1 /\ made' = made + 1 /\ made < MaxConn
        /\ creators[s] > 0 /\ creators' = [creators EXCEPT ![s] = @ - 1]
        /\ ready' = Append(ready, [slot |-> s, conn |-> c])
        /\ UNCHANGED <<vars, conn, switching, fail, streams, gone, broken, fwd, panicked>>
  <2>1. CASE SessionUp(s)
    <3> WITNESS made + 1
    <3> QED BY <2>1 DEF SessionUp
  <2>2. CASE SessionNil(s)
    <3> WITNESS Nil
    <3> QED BY <2>2 DEF SessionNil
  <2> QED BY <2>1, <2>2
<1> DEFINE n == [slot |-> s, conn |-> c]
           E == Elements(ready)
           D == Elements(ready')
           Session == [slot : Slot, conn : Conn \cup {Nil}]
<1>2. /\ creators \in [Slot -> Nat] /\ made \in Nat /\ MaxConn \in Nat /\ made <= MaxConn
      /\ ready \in Seq(Session) /\ Distinct(ready)
  BY TunnelsAssumption DEF TTypeOK, TunnelsAssumption, Exclusive
<1>3. n \in Session
  BY <1>1, <1>2 DEF Conn
<1>4. creators[s] = 1 /\ creators'[s] = 0
  BY <1>1, <1>2 DEF Exclusive
<1>5. \A m \in E : m.slot \in Slot /\ m.slot # s /\ creators[m.slot] = 0
  BY <1>4, Typed DEF Exclusive
<1>6. n \notin E
  <2>1. n.slot = s
    OBVIOUS
  <2> HIDE DEF n, E
  <2> QED BY <1>5, <2>1
<1>7. D = E \cup {n} /\ ready' \in Seq(Session) /\ Distinct(ready')
  <2>1. ready' = Append(ready, n)
    BY <1>1
  <2> HIDE DEF n, Session
  <2> QED BY <1>2, <1>3, <1>6, <2>1, Sent, AppendDistinct
<1>8. n.slot = s /\ n.conn = c
  OBVIOUS
<1> HIDE DEF n, E, D
<1>9. IInv' /\ Bounded' /\ Forwarding'
  <2>1. IInv'
    BY <1>1, InvariantStep
  <2> QED BY <1>1, <2>1 DEF Bounded, Forwarding, vars
<1>10. \A r \in Req : At(r)' = At(r)
  BY <1>1 DEF At, SlotAt, vars
<1>11. creators' \in [Slot -> Nat] /\ \A u \in Slot : u # s => creators'[u] = creators[u]
  BY <1>1, <1>2
<1>12. TTypeOK'
  <2>1. TypeOK'
    BY <1>9 DEF IInv
  <2>2. made' \in 0 .. MaxConn
    BY <1>1, <1>2
  <2> QED BY <1>1, <1>7, <1>11, <2>1, <2>2 DEF TTypeOK
<1>13. \A u \in Slot : Making(u)' <=> Making(u)
  <2>1. \A u \in Slot : Making(u)' <=> creators'[u] > 0 \/ \E m \in D : m.slot = u
    BY DEF Making, D
  <2>2. \A u \in Slot : Making(u) <=> creators[u] > 0 \/ \E m \in E : m.slot = u
    BY DEF Making, E
  <2> QED BY <1>1, <1>7, <1>8, <1>11, <2>1, <2>2
<1>14. Existing'
  <2>1. ~ (s[1] > allocated)
    BY <1>4 DEF Existing
  <2>2. \A u \in Slot : u[1] > allocated =>
          /\ u # s /\ creators'[u] = 0
          /\ \A m \in D : m.slot # u
    BY <1>7, <1>8, <1>11, <2>1 DEF Existing, E
  <2> QED BY <1>1, <2>2 DEF Existing, vars, D
<1>15. Exclusive'
  <2>1. \A u \in Slot : Unasked(u) => Unasked(u)'
    BY <1>1, <1>10 DEF Unasked
  <2>2. \A u \in Slot : creators'[u] \in {0, 1}
    BY <1>4, <1>11 DEF Exclusive
  <2>3. \A m \in D : creators'[m.slot] = 0
    BY <1>4, <1>5, <1>7, <1>8, <1>11
  <2>4. \A m, p \in D : m.slot = p.slot => m = p
    BY <1>5, <1>7, <1>8 DEF Exclusive, E
  <2> QED BY <1>1, <1>7, <1>13, <2>1, <2>2, <2>3, <2>4 DEF Exclusive, D
<1>16. Owned'
  <2>1. 1 .. made \subseteq 1 .. made' /\ (c # Nil => c \in (1 .. made') \ (1 .. made))
        /\ \A d \in 1 .. made' : d \in 1 .. made \/ d = c
    BY <1>1, <1>2
  <2>2. gone \subseteq 1 .. made /\ \A u \in Slot : conn[u] \in {Nil} \cup 1 .. made
    BY DEF Owned
  <2>3. gone' \subseteq 1 .. made' /\ \A u \in Slot : conn'[u] \in {Nil} \cup 1 .. made'
    BY <1>1, <2>1, <2>2
  <2>4. ASSUME NEW m \in D, m.conn # Nil
        PROVE  m.conn \in (1 .. made') \ gone /\ \A u \in Slot : conn[u] # m.conn
    <3>1. CASE m = n
      BY <1>8, <2>1, <2>2, <2>4, <3>1
    <3>2. CASE m \in E
      BY <2>1, <2>4, <3>2 DEF Owned, E
    <3> QED BY <1>7, <3>1, <3>2
  <2>5. ASSUME NEW m \in D, NEW p \in D, m.conn = p.conn, m.conn # Nil
        PROVE  m = p
    <3>1. \A q \in E : q.conn # Nil => q.conn \in 1 .. made
      BY DEF Owned, E
    <3>2. m \in E /\ p \in E => m = p
      BY <2>5 DEF Owned, E
    <3> QED BY <1>7, <1>8, <2>1, <2>5, <3>1, <3>2
  <2>6. ASSUME NEW d \in (1 .. made') \ gone
        PROVE  (\E u \in Slot : conn[u] = d) \/ (\E m \in D : m.conn = d)
    <3>1. CASE d = c
      BY <1>7, <1>8, <3>1
    <3>2. CASE d \in (1 .. made) \ gone
      BY <1>7, <3>2 DEF Owned, E
    <3> QED BY <2>1, <3>1, <3>2
  <2>7. \A u, v \in Slot : conn[u] = conn[v] /\ conn[u] # Nil => u = v
    BY DEF Owned
  <2> QED BY <1>1, <2>3, <2>4, <2>5, <2>6, <2>7 DEF Owned, D
<1>17. Tended'
  <2>1. \A u \in Slot : Reported(u) => Reported(u)'
    BY <1>1, <1>10 DEF Reported, At
  <2> QED BY <1>1, <1>13, <2>1 DEF Tended, vars
<1> QED
  BY <1>9, <1>12, <1>14, <1>15, <1>16, <1>17

\* The transport of a connection dies.
LEMMA BreakStep == ASSUME TunnelsInv, NEW c \in Conn, Break(c) PROVE TunnelsInv'
<1> USE DEF TunnelsInv
<1>1. /\ broken' = broken \cup {c}
      /\ UNCHANGED <<vars, conn, switching, creators, ready, fail, made, streams, gone,
                     fwd, panicked>>
  BY DEF Break
<1>2. IInv'
  BY <1>1, InvariantStep
<1>3. TTypeOK'
  BY <1>1, <1>2 DEF TTypeOK, IInv
<1> QED
  BY <1>1, <1>2, <1>3
     DEF Bounded, Forwarding, Existing, Exclusive, Owned, Tended, Making, Unasked,
         Reported, At, SlotAt, vars

-----------------------------------------------------------------------------
(* Steps of the forwarders. *)

\* What a forwarder that is in the loop is at.
LEMMA Serving ==
  ASSUME TunnelsInv, NEW r \in Req, fwd[r].step # "begin"
  PROVE  /\ phase[r] = "connecting" /\ backend[r] \in Backend
         /\ backend[r] \in Nat /\ backend[r] <= allocated
         /\ fwd[r] \in FwdState /\ fwd[r].todo \in Seq(0 .. TunnelsPerBackend - 1)
         /\ fwd[r].todo # <<>> => /\ At(r) \in Slot /\ At(r)[1] = backend[r]
                                  /\ NextSlot(r) \in FwdState
<1> USE DEF TunnelsInv
<1>1. phase[r] = "connecting" /\ fwd[r] \in FwdState
  BY DEF Forwarding
<1>2. backend[r] \in Backend /\ backend[r] \in Nat /\ backend[r] <= allocated
  BY <1>1 DEF IInv, Holding, Existing, InFlight, Backend
<1>3. fwd[r].todo \in Seq(0 .. TunnelsPerBackend - 1)
  BY <1>1 DEF FwdState
<1>4. ASSUME fwd[r].todo # <<>>
      PROVE  /\ Head(fwd[r].todo) \in 0 .. TunnelsPerBackend - 1
             /\ Tail(fwd[r].todo) \in Seq(0 .. TunnelsPerBackend - 1)
  <2> DEFINE I == 0 .. TunnelsPerBackend - 1
  <2>1. fwd[r].todo \in Seq(I)
    BY <1>3
  <2> HIDE DEF I
  <2>2. Head(fwd[r].todo) \in I /\ Tail(fwd[r].todo) \in Seq(I)
    BY <1>4, <2>1
  <2> QED BY <2>2 DEF I
<1>5. fwd[r].todo # <<>> => /\ At(r) \in Slot /\ At(r)[1] = backend[r]
                            /\ NextSlot(r) \in FwdState
  BY <1>2, <1>4 DEF At, SlotAt, Slot, NextSlot, Forwarder, FwdState
<1> QED
  BY <1>1, <1>2, <1>3, <1>5

\* A step by which the forwarder of r moves on to f, and slots stay as they are.
LEMMA LocalStep ==
  ASSUME TunnelsInv, IInv', Bounded', NEW r \in Req, NEW f \in FwdState,
         fwd' = [fwd EXCEPT ![r] = f],
         fwd[r].step # "report", f.step # "report",
         f.step # "begin" => phase'[r] = "connecting",
         f.step = "open" => f.todo # <<>> /\ f.conn \in Conn
                            /\ conn[SlotAt(r, Head(f.todo))] # Nil,
         phase[r] \in InFlight,
         \A q \in Req \ {r} : phase'[q] = phase[q],
         streams' \in [Conn -> 0 .. MaxStream],
         UNCHANGED <<allocated, address, backend, conn, switching, creators, ready, fail,
                     made, gone, broken, panicked>>
  PROVE  TunnelsInv'
<1> USE DEF TunnelsInv
<1>1. /\ fwd \in [Req -> FwdState]
      /\ fwd' \in [Req -> FwdState]
      /\ fwd'[r] = f /\ \A q \in Req : q # r => fwd'[q] = fwd[q]
  BY DEF Forwarding
<1>2. \A q \in Req : q # r => At(q)' = At(q)
  BY <1>1 DEF At, SlotAt
<1>3. At(r)' = SlotAt(r, Head(f.todo))
  BY <1>1 DEF At, SlotAt
<1>4. TTypeOK'
  <2>1. \A q \in Req : fwd'[q].conn \in Conn \cup {Nil}
    BY <1>1 DEF FwdState
  <2> QED BY <2>1 DEF TTypeOK, IInv
<1>5. Forwarding'
  BY <1>1 DEF Forwarding
<1>6. Existing'
  BY DEF Existing
<1>7. \A s \in Slot : Unasked(s) => Unasked(s)'
  BY <1>1, <1>2, <1>3 DEF Unasked
<1>8. Exclusive' /\ Owned'
  BY <1>7 DEF Exclusive, Making, Owned
<1>9. Tended'
  <2>1. \A s \in Slot : Reported(s) => Reported(s)'
    BY <1>1 DEF Reported, SlotAt
  <2> QED BY <2>1 DEF Tended, Making
<1> QED
  BY <1>4, <1>5, <1>6, <1>8, <1>9

\* The forwarder that takes the connection off its slot must report it next.
LEMMA SwapStep ==
  ASSUME TunnelsInv, NEW r \in Req, OpenFail(r), conn[At(r)] = fwd[r].conn
  PROVE  TunnelsInv'
<1> USE DEF TunnelsInv
<1> DEFINE c == fwd[r].conn
           s == At(r)
<1>1. /\ fwd[r].step = "open" /\ fwd[r].todo # <<>> /\ c \in Conn
      /\ conn' = [conn EXCEPT ![s] = Nil] /\ gone' = gone \cup {c}
      /\ fwd' = [fwd EXCEPT ![r] = [fwd[r] EXCEPT !.step = "report"]]
      /\ UNCHANGED <<vars, switching, creators, ready, fail, made, streams, broken,
                     panicked>>
  BY DEF OpenFail, Forwarding, At, Move
<1>2. s \in Slot /\ fwd[r] \in FwdState /\ phase[r] = "connecting"
  BY <1>1, Serving
<1>3. /\ fwd \in [Req -> FwdState] /\ fwd' \in [Req -> FwdState]
      /\ fwd'[r].step = "report" /\ fwd'[r].todo = fwd[r].todo /\ fwd'[r].conn = c
      /\ \A q \in Req : q # r => fwd'[q] = fwd[q]
  BY <1>1, <1>2 DEF Forwarding, FwdState
<1>4. \A q \in Req : At(q)' = At(q)
  BY <1>1, <1>3 DEF At, SlotAt, vars
<1> HIDE DEF c, s
<1>5. conn[s] = c /\ c # Nil /\ c \in 1 .. made
  BY <1>1, <1>2 DEF Owned, c, s, Nil, Conn
<1>6. /\ conn \in [Slot -> Conn \cup {Nil}] /\ gone \subseteq Conn
      /\ conn'[s] = Nil /\ \A u \in Slot : u # s => conn'[u] = conn[u] /\ conn[u] # c
  BY <1>1, <1>2, <1>5 DEF TTypeOK, Owned
<1>7. IInv' /\ Bounded'
  <2>1. IInv'
    BY <1>1, InvariantStep
  <2> QED BY <1>1, <2>1 DEF Bounded, vars
<1>8. TTypeOK'
  <2>1. \A q \in Req : fwd'[q].conn \in Conn \cup {Nil}
    BY <1>3 DEF FwdState
  <2> QED BY <1>1, <1>6, <1>7, <2>1 DEF TTypeOK, IInv
<1>9. Forwarding'
  BY <1>1, <1>2, <1>3 DEF Forwarding, vars
<1>10. Existing'
  BY <1>1, <1>6 DEF Existing, vars
<1>11. \A u \in Slot : Unasked(u) => Unasked(u)'
  <2>1. At(r) = s
    BY DEF s
  <2> QED BY <1>1, <1>3, <1>4, <1>6, <2>1 DEF Unasked
<1>12. Exclusive'
  BY <1>1, <1>11 DEF Exclusive, Making
<1>13. Owned'
  <2>1. gone' \subseteq 1 .. made /\ \A u \in Slot : conn'[u] \in {Nil} \cup 1 .. made
    BY <1>1, <1>5, <1>6 DEF Owned
  <2>2. \A u, v \in Slot : conn'[u] = conn'[v] /\ conn'[u] # Nil => u = v
    BY <1>6 DEF Owned
  <2>3. \A m \in Elements(ready) : m.conn # Nil =>
          m.conn \in (1 .. made) \ gone' /\ \A u \in Slot : conn'[u] # m.conn
    BY <1>1, <1>2, <1>5, <1>6 DEF Owned
  <2>4. \A d \in (1 .. made) \ gone' :
          (\E u \in Slot : conn'[u] = d) \/ (\E m \in Elements(ready) : m.conn = d)
    BY <1>1, <1>5, <1>6 DEF Owned
  <2> QED BY <1>1, <2>1, <2>2, <2>3, <2>4 DEF Owned
<1>14. Tended'
  <2>1. \A u \in Slot : u = s => Reported(u)'
    BY <1>3, <1>4 DEF Reported, At, s
  <2>2. \A u \in Slot : Reported(u) => Reported(u)'
    BY <1>1, <1>3, <1>4 DEF Reported, At
  <2>3. \A u \in Slot \ panicked : conn'[u] \notin gone'
    <3>1. Nil \notin gone /\ Nil # c
      BY <1>5, <1>6 DEF Nil, Conn
    <3> QED BY <1>1, <1>6, <3>1 DEF Tended
  <2>4. \A u \in Slot : Making(u)' <=> Making(u)
    BY <1>1 DEF Making
  <2>5. \A u \in Slot : conn'[u] = Nil => u = s \/ conn[u] = Nil
    BY <1>6
  <2>6. UNCHANGED <<allocated, switching, panicked>>
    BY <1>1 DEF vars
  <2>7. ASSUME NEW u \in Slot \ panicked
        PROVE  /\ u \in switching => Making(u)'
               /\ conn'[u] \notin gone'
               /\ u[1] <= allocated /\ conn'[u] = Nil => Making(u)' \/ Reported(u)'
    BY <2>1, <2>2, <2>3, <2>4, <2>5 DEF Tended
  <2> QED BY <2>6, <2>7 DEF Tended
<1> QED
  BY <1>7, <1>8, <1>9, <1>10, <1>12, <1>13, <1>14

\* The report leaves the forwarder and enters the channel in one step.
LEMMA ReportSent == ASSUME TunnelsInv, NEW r \in Req, SendFail(r) PROVE TunnelsInv'
<1> USE DEF TunnelsInv
<1> DEFINE s == At(r)
           f == NextSlot(r)
<1>1. /\ fwd[r].step = "report" /\ fwd[r].todo # <<>>
      /\ fail' = Append(fail, s) /\ fwd' = [fwd EXCEPT ![r] = f]
      /\ UNCHANGED <<vars, conn, switching, creators, ready, made, streams, gone, broken,
                     panicked>>
  BY DEF SendFail, Forwarding, At, Move
<1>2. /\ s \in Slot /\ s[1] = backend[r] /\ backend[r] \in Nat /\ backend[r] <= allocated
      /\ f \in FwdState /\ f.step = "pick" /\ phase[r] = "connecting"
  BY <1>1, Serving DEF NextSlot, Forwarder
<1> HIDE DEF s, f
<1>3. fail \in Seq(Slot) /\ allocated \in Nat
  BY Typed DEF TTypeOK
<1>4. fail' \in Seq(Slot) /\ Elements(fail') = Elements(fail) \cup {s}
  BY <1>1, <1>2, <1>3, Sent
<1>5. /\ fwd' \in [Req -> FwdState]
      /\ fwd'[r] = f /\ \A q \in Req : q # r => fwd'[q] = fwd[q]
  BY <1>1, <1>2 DEF Forwarding
<1>6. \A q \in Req : q # r => At(q)' = At(q)
  BY <1>1, <1>5 DEF At, SlotAt, vars
<1>7. IInv' /\ Bounded'
  <2>1. IInv'
    BY <1>1, InvariantStep
  <2> QED BY <1>1, <2>1 DEF Bounded, vars
<1>8. TTypeOK'
  <2>1. \A q \in Req : fwd'[q].conn \in Conn \cup {Nil}
    BY <1>5 DEF FwdState
  <2> QED BY <1>1, <1>4, <1>7, <2>1 DEF TTypeOK, IInv
<1>9. Forwarding'
  BY <1>1, <1>2, <1>5 DEF Forwarding, vars
<1>10. Existing'
  <2>1. ~ (s[1] > allocated)
    BY <1>2, <1>3
  <2> QED BY <1>1, <1>4, <2>1 DEF Existing, vars
<1>11. \A u \in Slot : Unasked(u) => Unasked(u)'
  <2>1. \A u \in Slot : Unasked(u) => u # s
    BY <1>1 DEF Unasked, s
  <2> QED BY <1>1, <1>2, <1>4, <1>5, <1>6, <2>1 DEF Unasked
<1>12. Exclusive' /\ Owned'
  BY <1>1, <1>11 DEF Exclusive, Making, Owned
<1>13. Tended'
  <2>1. \A u \in Slot : Reported(u) => Reported(u)'
    <3>1. \A u \in Slot : Reported(u) <=>
            u \in Elements(fail) \/ \E q \in Req : fwd[q].step = "report" /\ At(q) = u
      BY DEF Reported, At
    <3>2. \A u \in Slot : Reported(u)' <=>
            u \in Elements(fail') \/ \E q \in Req : fwd'[q].step = "report" /\ At(q)' = u
      BY DEF Reported, At
    <3> QED BY <1>4, <1>5, <1>6, <3>1, <3>2 DEF s
  <2> QED BY <1>1, <2>1 DEF Tended, Making, vars
<1> QED
  BY <1>7, <1>8, <1>9, <1>10, <1>12, <1>13

\* The slots in the order of the loop.
LEMMA Rotated ==
  ASSUME NEW k \in 0 .. TunnelsPerBackend - 1
  PROVE  Forwarder("pick", Rotation(k), Nil) \in FwdState
<1> DEFINE I == 0 .. TunnelsPerBackend - 1
<1>1. TunnelsPerBackend \in Nat \ {0}
  BY TunnelsAssumption DEF TunnelsAssumption
<1>2. \A i \in 1 .. TunnelsPerBackend : (k + i - 1) % TunnelsPerBackend \in I
  BY <1>1
<1>3. Rotation(k) \in [1 .. TunnelsPerBackend -> I]
  BY <1>2 DEF Rotation
<1>4. Rotation(k) \in Seq(I)
  <2> HIDE DEF I
  <2> QED BY <1>1, <1>3
<1> QED
  BY <1>4 DEF Forwarder, FwdState

\* The steps of a forwarder.
LEMMA ForwarderStep == ASSUME TunnelsInv, NEW r \in Req, TForward(r) PROVE TunnelsInv'
<1> USE DEF TunnelsInv
<1>1. /\ fwd \in [Req -> FwdState] /\ phase \in [Req -> Phase]
      /\ conn \in [Slot -> Conn \cup {Nil}]
      /\ streams \in [Conn -> 0 .. MaxStream] /\ MaxStream \in Nat
      /\ Idle \in FwdState /\ Idle.step = "begin"
  BY TunnelsAssumption
     DEF TunnelsAssumption, Forwarding, TTypeOK, TypeOK, Idle, Forwarder, FwdState
<1>2. UNCHANGED vars => IInv' /\ Bounded'
  <2> SUFFICES ASSUME UNCHANGED vars PROVE IInv' /\ Bounded'
    OBVIOUS
  <2>1. IInv'
    BY InvariantStep
  <2> QED BY <2>1 DEF Bounded, vars
<1>3. Forward(r) => IInv' /\ Bounded'
  <2>1. Forward(r) => Next
    BY DEF Next
  <2> QED BY <2>1, InvariantStep, BoundedStep
<1>4. CASE Begin(r)
  <2>1. PICK k \in 0 .. TunnelsPerBackend - 1 :
          fwd' = [fwd EXCEPT ![r] = Forwarder("pick", Rotation(k), Nil)]
    BY <1>4 DEF Begin, Move
  <2> DEFINE f == Forwarder("pick", Rotation(k), Nil)
  <2>2. f \in FwdState /\ f.step = "pick"
    BY Rotated DEF Forwarder
  <2>3. fwd' = [fwd EXCEPT ![r] = f]
    BY <2>1
  <2>4. /\ phase[r] = "connecting" /\ fwd[r].step = "begin"
        /\ UNCHANGED <<vars, conn, switching, creators, ready, fail, made, streams, gone,
                       broken, panicked>>
    BY <1>4 DEF Begin
  <2> HIDE DEF f
  <2> QED BY <1>1, <1>2, <2>2, <2>3, <2>4, LocalStep DEF vars, InFlight
<1>5. CASE Pick(r)
  <2>1. /\ fwd[r].step = "pick"
        /\ UNCHANGED <<vars, conn, switching, creators, ready, fail, made, streams, gone,
                       broken, panicked>>
    BY <1>5 DEF Pick
  <2>2. phase[r] = "connecting" /\ phase[r] \in InFlight
    BY <2>1 DEF Forwarding, InFlight
  <2>3. PICK f \in FwdState :
          /\ fwd' = [fwd EXCEPT ![r] = f]
          /\ f.step \in {"pick", "open", "dial"}
          /\ f.step = "open" => /\ f.todo # <<>> /\ f.conn \in Conn
                                /\ conn[SlotAt(r, Head(f.todo))] # Nil
    <3>1. CASE fwd[r].todo = <<>>
      <4> DEFINE f == Forwarder("dial", <<>>, Nil)
      <4>1. f \in FwdState /\ f.step = "dial" /\ fwd' = [fwd EXCEPT ![r] = f]
        BY <1>5, <3>1 DEF Pick, Move, Forwarder, FwdState
      <4> HIDE DEF f
      <4> QED BY <4>1
    <3>2. CASE fwd[r].todo # <<>> /\ conn[At(r)] = Nil
      <4> DEFINE f == NextSlot(r)
      <4>1. f \in FwdState /\ f.step = "pick" /\ fwd' = [fwd EXCEPT ![r] = f]
        BY <1>5, <2>1, <3>2, Serving DEF Pick, Move, At, NextSlot, Forwarder
      <4> HIDE DEF f
      <4> QED BY <4>1
    <3>3. CASE fwd[r].todo # <<>> /\ conn[At(r)] # Nil
      <4> DEFINE f == Forwarder("open", fwd[r].todo, conn[At(r)])
      <4>1. At(r) \in Slot /\ fwd[r].todo \in Seq(0 .. TunnelsPerBackend - 1)
        BY <2>1, <3>3, Serving
      <4>2. fwd' = [fwd EXCEPT ![r] = f]
        BY <1>5, <3>3 DEF Pick, Move, At
      <4>3. /\ f \in FwdState /\ f.step = "open" /\ f.todo = fwd[r].todo
            /\ f.conn = conn[At(r)] /\ f.conn \in Conn
        BY <1>1, <3>3, <4>1 DEF Forwarder, FwdState
      <4> HIDE DEF f
      <4> QED BY <3>3, <4>2, <4>3 DEF At
    <3> QED BY <3>1, <3>2, <3>3
  <2> QED BY <1>1, <1>2, <2>1, <2>2, <2>3, LocalStep DEF vars
<1>6. CASE OpenOk(r)
  <2> DEFINE c == fwd[r].conn
  <2>1. /\ fwd[r].step = "open" /\ c \in Conn /\ phase[r] = "connecting"
        /\ streams[c] < MaxStream /\ streams' = [streams EXCEPT ![c] = @ + 1]
        /\ phase' = [phase EXCEPT ![r] = "copying"]
        /\ fwd' = [fwd EXCEPT ![r] = Idle]
        /\ UNCHANGED <<allocated, address, backends, pool, ongoing, pending, done,
                       backend, err, closed>>
        /\ UNCHANGED <<conn, switching, creators, ready, fail, made, gone, broken, panicked>>
    BY <1>6 DEF OpenOk, HasStream, Move, Forwarding
  <2> HIDE DEF c
  <2>2. streams' \in [Conn -> 0 .. MaxStream]
    BY <1>1, <2>1
  <2>3. IInv' /\ Bounded'
    BY <1>3, <2>1 DEF Forward, DialOk
  <2> QED BY <1>1, <2>1, <2>2, <2>3, LocalStep DEF InFlight
<1>7. CASE OpenFail(r)
  <2>1. CASE conn[At(r)] = fwd[r].conn
    BY <1>7, <2>1, SwapStep
  <2>2. CASE conn[At(r)] # fwd[r].conn
    <3> DEFINE f == NextSlot(r)
    <3>1. /\ fwd[r].step = "open" /\ fwd[r].todo # <<>> /\ phase[r] = "connecting"
          /\ fwd' = [fwd EXCEPT ![r] = f]
          /\ UNCHANGED <<vars, conn, switching, creators, ready, fail, made, streams, gone,
                         broken, panicked>>
      BY <1>7, <2>2 DEF OpenFail, Move, At, Forwarding
    <3>2. f \in FwdState /\ f.step = "pick"
      BY <3>1, Serving DEF NextSlot, Forwarder
    <3> HIDE DEF f
    <3> QED BY <1>1, <1>2, <3>1, <3>2, LocalStep DEF vars, InFlight
  <2> QED BY <2>1, <2>2
<1>8. CASE SendFail(r)
  BY <1>8, ReportSent
<1>9. CASE Dial(r)
  <2>1. /\ fwd[r].step = "dial" /\ phase[r] = "connecting"
        /\ Forward(r) /\ fwd' = [fwd EXCEPT ![r] = Idle]
        /\ UNCHANGED <<conn, switching, creators, ready, fail, made, streams, gone, broken,
                       panicked>>
    BY <1>9 DEF Dial, Move, Forward, Forwarding
  <2>2. /\ \A q \in Req \ {r} : phase'[q] = phase[q]
        /\ UNCHANGED <<allocated, address, backend>>
    BY <1>1, <1>9 DEF Dial, DialOk, DialFail, Report
  <2> QED BY <1>1, <1>3, <2>1, <2>2, LocalStep DEF InFlight
<1>10. CASE Copied(r)
  <2>1. phase[r] = "copying" /\ Forward(r) /\ UNCHANGED tunnelVars
    BY <1>10 DEF Copied, CopyEnd, Forward
  <2>2. /\ \A q \in Req \ {r} : phase'[q] = phase[q]
        /\ UNCHANGED <<allocated, address, backend>>
    BY <1>1, <1>10 DEF Copied, CopyEnd, Report
  <2> DEFINE f == fwd[r]
  <2>3. f \in FwdState /\ f.step = "begin" /\ fwd' = [fwd EXCEPT ![r] = f]
    BY <1>1, <2>1 DEF Forwarding, tunnelVars
  <2> HIDE DEF f
  <2>4. fwd[r].step = "begin"
    BY <2>3 DEF f
  <2> QED BY <1>1, <1>3, <2>1, <2>2, <2>3, <2>4, LocalStep DEF InFlight, tunnelVars
<1> QED
  BY <1>4, <1>5, <1>6, <1>7, <1>8, <1>9, <1>10 DEF TForward

-----------------------------------------------------------------------------
(* The theorems. *)

\* Without backends nothing is in the making.
LEMMA TunnelsStart == ASSUME TInit PROVE TunnelsInv
<1>1. IInv /\ Bounded
  <2>1. Init
    BY DEF TInit
  <2>2. IInv
    BY <2>1, InitialState
  <2> QED BY <2>1, <2>2, SchedulerAssumption DEF Init, Bounded, SchedulerAssumption
<1>2. Elements(<<>>) = {} /\ Distinct(<<>>)
  BY DEF Elements, Distinct
<1>3. TTypeOK
  BY <1>1, TunnelsAssumption DEF TInit, TTypeOK, IInv, Idle, Forwarder, TunnelsAssumption
<1>4. Forwarding
  BY DEF TInit, Forwarding, Idle, Forwarder, FwdState
<1>5. Existing
  BY <1>2 DEF TInit, Init, Existing, InFlight
<1>6. Exclusive
  BY <1>2 DEF TInit, Exclusive, Making
<1>7. Owned
  BY <1>2 DEF TInit, Owned
<1>8. Tended
  <2>1. \A s \in Slot : s[1] \in Nat /\ s[1] > 0
    BY DEF Slot, Backend
  <2> QED BY <2>1 DEF TInit, Init, Tended
<1> QED
  BY <1>1, <1>3, <1>4, <1>5, <1>6, <1>7, <1>8 DEF TunnelsInv

\* Every step keeps the invariant.
LEMMA TunnelsStep == ASSUME TunnelsInv, [TNext]_tvars PROVE TunnelsInv'
<1>1. CASE (\E r \in Req : TJob(r)) \/ TFinish
  BY <1>1, JobOrFinish
<1>2. ASSUME NEW r \in Req, TForward(r) PROVE TunnelsInv'
  BY <1>2, ForwarderStep
<1>3. CASE FailMsg \/ SessionMsg \/ NilSessionMsg
  BY <1>3, FailStep, SessionStep, NilStep
<1>4. ASSUME NEW S \in (SUBSET Addr) \ {{}}, TStatus(S) PROVE TunnelsInv'
  BY <1>4, ReportStep
<1>5. ASSUME NEW s \in Slot, SessionUp(s) \/ SessionNil(s) PROVE TunnelsInv'
  BY <1>5, HandOver
<1>6. ASSUME NEW c \in Conn, Break(c) PROVE TunnelsInv'
  BY <1>6, BreakStep
<1>7. CASE UNCHANGED tvars
  <2>1. IInv'
    BY <1>7, InvariantStep DEF TunnelsInv, tvars
  <2> QED BY <1>7, <2>1
          DEF TunnelsInv, TTypeOK, Bounded, Forwarding, Existing, Exclusive, Owned, Tended,
              Making, Unasked, Reported, At, SlotAt, tvars, vars, tunnelVars, IInv
<1> QED
  BY <1>1, <1>2, <1>3, <1>4, <1>5, <1>6, <1>7 DEF TNext, Scheduling, SessionRetry

\* The invariant of the engine with tunnels, for any number of backends, slots,
\* requests and connections and any capacity of the channels.
THEOREM TunnelsInductive == TSpec => []TunnelsInv
BY TunnelsStart, TunnelsStep, PTL DEF TSpec

\* The types, among them that no stream id exceeds the limit of a connection.
THEOREM TunnelsTyped == TSpec => []TTypeOK
<1>1. TunnelsInv => TTypeOK
  BY DEF TunnelsInv
<1> QED
  BY <1>1, TunnelsInductive, PTL

\* What Scheduler promises also holds with tunnels, which report backends later and
\* drain s.pending when a session is ready.
THEOREM SchedulerKept == TSpec => [](OngoingExact /\ OneHome /\ PoolRegistered)
<1>1. TunnelsInv => OngoingExact /\ OneHome /\ PoolRegistered
  BY DEF TunnelsInv, IInv
<1> QED
  BY <1>1, TunnelsInductive, PTL

\* A set whose elements are the same has one at most.
LEMMA AtMostOne ==
  ASSUME NEW A, \A x, y \in A : x = y
  PROVE  /\ Cardinality(A) \in {0, 1}
         /\ Cardinality(A) = 0 <=> A = {}
<1>1. CASE A = {}
  BY <1>1, FS_EmptySet
<1>2. CASE A # {}
  <2>1. PICK x : x \in A
    BY <1>2
  <2>2. A = {x}
    BY <2>1
  <2>3. Cardinality({x}) = 1
    BY FS_Singleton
  <2> QED BY <1>2, <2>2, <2>3
<1> QED
  BY <1>1, <1>2

\* The positions of channel ready whose messages satisfy P hold one message at most.
LEMMA OnePlace ==
  ASSUME TunnelsInv, NEW I \in SUBSET DOMAIN ready,
         \A i, j \in I : ready[i] = ready[j]
  PROVE  \A i, j \in I : i = j
BY DEF TunnelsInv, Exclusive, Distinct

\* No two sessions are made for one slot at a time: FailMsg and SpdyCheckStreamId
\* exclude each other by the flag, and nothing can ask while the first is made.
THEOREM SessionsExclusive == TSpec => []OneCreator
<1>1. ASSUME TunnelsInv, NEW s \in Slot
      PROVE  creators[s] + Cardinality(Arriving(s)) <= 1
  <2>1. \A i, j \in Arriving(s) : ready[i] = ready[j]
    BY <1>1 DEF TunnelsInv, Exclusive, Arriving, Elements
  <2>2. Arriving(s) \in SUBSET DOMAIN ready
    BY DEF Arriving
  <2>3. /\ Cardinality(Arriving(s)) \in {0, 1}
        /\ Cardinality(Arriving(s)) = 0 <=> Arriving(s) = {}
    BY <1>1, <2>1, <2>2, OnePlace, AtMostOne
  <2>4. creators[s] \in {0, 1}
    BY <1>1 DEF TunnelsInv, Exclusive
  <2>5. Arriving(s) # {} => creators[s] = 0
    BY <1>1 DEF TunnelsInv, Exclusive, Arriving, Elements
  <2> QED BY <2>3, <2>4, <2>5
<1>2. TunnelsInv => OneCreator
  BY <1>1 DEF OneCreator
<1> QED
  BY <1>2, TunnelsInductive, PTL

\* A connection that the balancer has not closed is in one slot or in one session on
\* its way to a slot: SwitchSpdyConn and the compare-and-swap lose none.
THEOREM ConnectionsOwned == TSpec => []ConnOwned
<1>1. ASSUME TunnelsInv, NEW c \in (1 .. made) \ gone
      PROVE  Cardinality({s \in Slot : conn[s] = c})
               + Cardinality({i \in DOMAIN ready : ready[i].conn = c}) = 1
  <2> DEFINE A == {s \in Slot : conn[s] = c}
             B == {i \in DOMAIN ready : ready[i].conn = c}
  <2>1. c # Nil
    BY DEF Nil
  <2>2. \A s, t \in A : s = t
    BY <1>1, <2>1 DEF TunnelsInv, Owned
  <2>3. \A i, j \in B : ready[i] = ready[j]
    BY <1>1, <2>1 DEF TunnelsInv, Owned, Elements
  <2>4. \A i, j \in B : i = j
    BY <1>1, <2>3, OnePlace
  <2>5. A = {} \/ B = {}
    BY <1>1, <2>1 DEF TunnelsInv, Owned, Elements
  <2>6. A # {} \/ B # {}
    BY <1>1 DEF TunnelsInv, Owned, Elements
  <2>7. /\ Cardinality(A) \in {0, 1} /\ Cardinality(B) \in {0, 1}
        /\ Cardinality(A) = 0 <=> A = {}
        /\ Cardinality(B) = 0 <=> B = {}
    <3> HIDE DEF A, B
    <3> QED BY <2>2, <2>4, AtMostOne
  <2> HIDE DEF A, B
  <2> QED BY <2>5, <2>6, <2>7 DEF A, B
<1>2. TunnelsInv => ConnOwned
  BY <1>1 DEF ConnOwned
<1> QED
  BY <1>2, TunnelsInductive, PTL

\* A slot without a usable connection has a creator at work, a session on the way or
\* a report on the way to the scheduler, unless its last session was nil.
THEOREM SlotsTended == TSpec => []SlotTended
<1>1. TunnelsInv => SlotTended
  BY DEF TunnelsInv, Tended, SlotTended, Making, Arriving, Elements
<1> QED
  BY <1>1, TunnelsInductive, PTL

=============================================================================
