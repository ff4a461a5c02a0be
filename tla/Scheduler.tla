----------------------------- MODULE Scheduler -----------------------------
(***************************************************************************)
(* The native engine of gbalancer in its default configuration, without    *)
(* tunnels (-tunnels 0): the scheduler goroutine of                        *)
(* engine/native/scheduler.go, which owns the pool of backends and the     *)
(* pending list, and the forwarder goroutines (run, ForwarderNewConnection *)
(* and sockCopy) that serve one client connection each and report on the   *)
(* done channel.                                                           *)
(*                                                                         *)
(* One case of Schedule's select is one action, with everything it calls.  *)
(* The heap is the set of its members: HeapTop is what container/heap      *)
(* promises of Pop (module Pool), and "b.index == -1" is "b \notin pool",  *)
(* because every index that is read belongs to a backend that was pushed.  *)
(*                                                                         *)
(* A definition named D_X is D with a fault X that a change to the code    *)
(* could plausibly make; it stands before D and nothing here uses it.      *)
(***************************************************************************)
EXTENDS Integers, FiniteSets, Sequences

CONSTANTS
  Addr,           \* backend addresses, named by their rank in string order
  Req,            \* client connections (Request objects)
  MaxObjects,     \* bound: NewBackend calls in one behaviour
  MaxForwardersPerBackend,
  MaxForwarders,  \* capacity of the done channel
  LeastWeight,    \* flag -failover: heap ordered by weight, not by load
  Shuffle         \* flag -shuffle: equal weights, new backends in any order

ASSUME SchedulerAssumption ==
  /\ Addr \subseteq Nat \ {0} /\ IsFiniteSet(Addr)
  /\ IsFiniteSet(Req)
  /\ MaxObjects \in Nat
  /\ MaxForwardersPerBackend \in Nat \ {0}
  /\ MaxForwarders \in Nat \ {0}
  /\ LeastWeight \in BOOLEAN
  /\ Shuffle \in BOOLEAN

Nil == 0
Backend == 1 .. MaxObjects   \* Backend objects, numbered as they are created

\* Where a request is: not yet accepted, in s.pending, owned by a forwarder
\* (connecting, copying, or reported on done), refused at the limit, finished.
Phase == {"new", "pending", "connecting", "copying", "done",
          "refused", "finished"}
InFlight == {"connecting", "copying", "done"}

VARIABLES
  allocated,   \* Backend objects created so far
  address,     \* Backend.address
  backends,    \* s.backends: address -> object, Nil where the key is absent
  pool,        \* s.pool: the backends in the heap
  ongoing,     \* Backend.ongoing
  pending,     \* s.pending
  done,        \* s.done, a buffered channel
  phase,       \* control state of each request
  backend,     \* Request.backend
  err,         \* Request.err: "nil" or the "dial" error of net.Dial
  closed       \* requests whose client connection the balancer has closed

vars == <<allocated, address, backends, pool, ongoing, pending, done,
          phase, backend, err, closed>>

Init ==
  /\ allocated = 0
  /\ address = [b \in Backend |-> Nil]
  /\ backends = [a \in Addr |-> Nil]
  /\ pool = {}
  /\ ongoing = [b \in Backend |-> 0]
  /\ pending = <<>>
  /\ done = <<>>
  /\ phase = [r \in Req |-> "new"]
  /\ backend = [r \in Req |-> Nil]
  /\ err = [r \in Req |-> "nil"]
  /\ closed = {}

-----------------------------------------------------------------------------
(* The heap order.  nextBackendSequence numbers the objects as they are     *)
(* created, so without -shuffle the weight of an object is its own number.  *)

Weight(b) == IF Shuffle THEN 0 ELSE b

Less_Reversed(b, c, load) == load[b] > load[c]
Less_Load(b, c, load) == load[b] < load[c]
Less(b, c, load) == IF LeastWeight THEN Weight(b) < Weight(c)
                                   ELSE load[b] < load[c]

HeapTop(P, load) == {b \in P : \A c \in P : ~ Less(c, b, load)}

\* dispatch turns a request away when the top of the heap is full.
Full_OffByOne(b, load) == load[b] > MaxForwardersPerBackend
Full(b, load) == load[b] >= MaxForwardersPerBackend

\* dispatch(r), called with the heap P and the counters load.
Dispatch(r, P, load) ==
  /\ pool' = P
  /\ \/ /\ P = {}
        /\ pending' = Append(pending, r)
        /\ phase' = [phase EXCEPT ![r] = "pending"]
        /\ ongoing' = load
        /\ UNCHANGED <<backend, closed>>
     \/ \E b \in HeapTop(P, load) :
          /\ Full(b, load)
          /\ phase' = [phase EXCEPT ![r] = "refused"]
          /\ closed' = closed \cup {r}
          /\ ongoing' = load
          /\ UNCHANGED <<pending, backend>>
     \/ \E b \in HeapTop(P, load) :
          /\ ~ Full(b, load)
          /\ phase' = [phase EXCEPT ![r] = "connecting"]
          /\ backend' = [backend EXCEPT ![r] = b]
          /\ ongoing' = [load EXCEPT ![b] = @ + 1]
          /\ UNCHANGED <<pending, closed>>

-----------------------------------------------------------------------------
(* The cases of Schedule's select. *)

\* case j := <-job: the listener accepted connection r.
Job(r) ==
  /\ phase[r] = "new"
  /\ Dispatch(r, pool, ongoing)
  /\ UNCHANGED <<allocated, address, backends, done, err>>

\* backend.ongoing--, for a backend in the heap or out of it.
Released_InHeapOnly(b) ==
  IF b \in pool THEN [ongoing EXCEPT ![b] = @ - 1] ELSE ongoing
Released(b) == [ongoing EXCEPT ![b] = @ - 1]

\* A backend whose connection failed is kept out of the heap.
Evicted_Not(b) == pool
Evicted(b) == pool \ {b}

\* A backend whose connection ended well is re-sorted, if it is in the heap.
Resorted_Pushed(b) == pool \cup {b}
Resorted(b) == pool

\* case back := <-s.done: finish(back).
Finish ==
  /\ done # <<>>
  /\ done' = Tail(done)
  /\ LET r == Head(done)
         b == backend[r]
     IN \/ /\ err[r] = "dial"
           /\ Dispatch(r, Evicted(b), Released(b))
        \/ /\ err[r] = "nil"
           /\ ongoing' = Released(b)
           /\ pool' = Resorted(b)
           /\ phase' = [phase EXCEPT ![r] = "finished"]
           /\ UNCHANGED <<pending, backend, closed>>
  /\ UNCHANGED <<allocated, address, backends, err>>

\* The objects NewBackend creates for the addresses N, in the order of addrs:
\* shuffled, or sorted when -shuffle=false.
NewObjects(N) ==
  {f \in [N -> allocated + 1 .. allocated + Cardinality(N)] :
     \A a, c \in N : a # c => /\ f[a] # f[c]
                              /\ (~ Shuffle /\ a < c) => f[a] < f[c]}

Known(S) == {a \in S : backends[a] # Nil}
Fresh(S) == {a \in S : backends[a] = Nil}
Gone(S)  == {a \in Addr \ S : backends[a] # Nil}

\* What a status message does to the backends that are registered already:
\* RemoveBackend for the absent ones, heap.Push for the ones out of the heap.
Retained_KeepsGone(S) == pool \cup {backends[a] : a \in Known(S)}
Retained_AllReported(S) == (pool \ {backends[a] : a \in Gone(S)})
                             \cup {backends[a] : a \in S}
Retained(S) == (pool \ {backends[a] : a \in Gone(S)})
                 \cup {backends[a] : a \in Known(S)}

\* case backends := <-status: the wrangler reports the non-empty set S as up.
Status(S) ==
  /\ allocated + Cardinality(Fresh(S)) <= MaxObjects
  /\ allocated' = allocated + Cardinality(Fresh(S))
  /\ \E f \in NewObjects(Fresh(S)) :
       LET made == {f[a] : a \in Fresh(S)} IN
       /\ address' = [b \in Backend |-> IF b \in made
                                        THEN CHOOSE a \in Fresh(S) : f[a] = b
                                        ELSE address[b]]
       /\ backends' = [a \in Addr |-> CASE a \in Fresh(S) -> f[a]
                                        [] a \in Known(S) -> backends[a]
                                        [] OTHER -> Nil]
       /\ pool' = Retained(S) \cup made
  /\ UNCHANGED <<ongoing, pending, done, phase, backend, err, closed>>

-----------------------------------------------------------------------------
(* The forwarder of request r: run(r). *)

\* Send r on the done channel, once it has room.
Report(r) ==
  /\ Len(done) < MaxForwarders
  /\ done' = Append(done, r)
  /\ phase' = [phase EXCEPT ![r] = "done"]

\* net.Dial answered and both sockCopy goroutines are started.
DialOk(r) ==
  /\ phase[r] = "connecting"
  /\ phase' = [phase EXCEPT ![r] = "copying"]
  /\ UNCHANGED <<allocated, address, backends, pool, ongoing, pending, done,
                 backend, err, closed>>

DialFail_NoReturn(r) ==
  /\ phase[r] = "connecting" /\ Len(done) < MaxForwarders
  /\ done' = Append(done, r)
  /\ phase' = [phase EXCEPT ![r] = "copying"]
  /\ err' = [err EXCEPT ![r] = "dial"]
  /\ UNCHANGED <<allocated, address, backends, pool, ongoing, pending,
                 backend, closed>>

\* net.Dial failed: every error it returns is an OpError with Op "dial".
DialFail(r) ==
  /\ phase[r] = "connecting"
  /\ Report(r)
  /\ err' = [err EXCEPT ![r] = "dial"]
  /\ UNCHANGED <<allocated, address, backends, pool, ongoing, pending,
                 backend, closed>>

\* Both copies ended and closed both connections.  "clean": neither reported
\* an error, which takes a client connection that was still open.  A copy
\* error stores ForwarderNewConnection's own err, which is nil here, in
\* req.err; two clean copies leave req.err as it was.
CopyEnd(r, clean) ==
  /\ phase[r] = "copying"
  /\ clean => r \notin closed
  /\ Report(r)
  /\ err' = IF clean THEN err ELSE [err EXCEPT ![r] = "nil"]
  /\ closed' = closed \cup {r}
  /\ UNCHANGED <<allocated, address, backends, pool, ongoing, pending, backend>>

Forward(r) ==
  \/ DialOk(r)
  \/ DialFail(r)
  \/ \E clean \in BOOLEAN : CopyEnd(r, clean)

StatusAny == \E S \in (SUBSET Addr) \ {{}} : Status(S)

Next ==
  \/ \E r \in Req : Job(r)
  \/ Finish
  \/ StatusAny
  \/ \E r \in Req : Forward(r)

Spec == Init /\ [][Next]_vars

\* The scheduler goroutine keeps selecting, a dial ends (it succeeds, is
\* refused or times out in the kernel), and both peers of a copied connection
\* close it sooner or later.  Clients and the wrangler owe nothing.
Fairness ==
  /\ WF_vars(Finish)
  /\ \A r \in Req : WF_vars(Forward(r))

FairSpec == Spec /\ Fairness
-----------------------------------------------------------------------------
(* Properties. *)

TypeOK ==
  /\ allocated \in 0 .. MaxObjects
  /\ address \in [Backend -> Addr \cup {Nil}]
  /\ backends \in [Addr -> Backend \cup {Nil}]
  /\ pool \subseteq Backend
  /\ ongoing \in [Backend -> Int]
  /\ pending \in Seq(Req)
  /\ done \in Seq(Req)
  /\ phase \in [Req -> Phase]
  /\ backend \in [Req -> Backend \cup {Nil}]
  /\ err \in [Req -> {"nil", "dial"}]
  /\ closed \subseteq Req

Carried(b) == {r \in Req : backend[r] = b /\ phase[r] \in InFlight}

\* Backend.ongoing, a uint that dispatch increments and three branches of
\* finish decrement, is exactly the number of requests whose forwarder has not
\* been finished: it cannot wrap below zero, a retry is not counted twice, and
\* a backend that left the heap or s.backends keeps counting down.
OngoingExact == \A b \in Backend : ongoing[b] = Cardinality(Carried(b))

Distinct(s) == \A i, j \in DOMAIN s : s[i] = s[j] => i = j
Elements(s) == {s[i] : i \in DOMAIN s}

\* A request is in one place: s.pending and the done channel hold no request
\* twice, and hold exactly those that wait to be dispatched or finished, so no
\* request is lost between the scheduler and its forwarder or finished twice.
OneHome ==
  /\ Distinct(pending) /\ Elements(pending) = {r \in Req : phase[r] = "pending"}
  /\ Distinct(done) /\ Elements(done) = {r \in Req : phase[r] = "done"}

\* The heap holds only objects s.backends still maps to their address: finish
\* of a late request never pushes back a backend the wrangler took down, which
\* nothing could remove from the heap again.
PoolRegistered == \A b \in pool : address[b] \in Addr /\ backends[address[b]] = b

\* s.backends maps an address to an object that NewBackend made for it.
Registered ==
  \A a \in Addr : backends[a] # Nil => /\ backends[a] \in 1 .. allocated
                                      /\ address[backends[a]] = a

\* A request with a forwarder has a backend to be finished on.
Holding == \A r \in Req : phase[r] \in InFlight => backend[r] \in Backend

\* The inductive invariant: what every step of the scheduler and of a forwarder
\* preserves, and needs, to keep the counters, the lists and the heap right.
IInv ==
  /\ TypeOK
  /\ Holding
  /\ Registered
  /\ PoolRegistered
  /\ OngoingExact
  /\ OneHome

\* A client is turned away only when every backend in the heap carries
\* MaxForwardersPerBackend connections ("all backend forwarders exceed %d",
\* scheduler.go:170).
RefusedOnlyWhenSaturated ==
  [][\A r \in Req : phase[r] # "refused" /\ phase'[r] = "refused"
        => \A b \in pool' : Cardinality(Carried(b)) >= MaxForwardersPerBackend]_vars

\* A step that is not a status message that brings a backend up, brings one
\* back or takes one down.
Quiet == UNCHANGED backends /\ pool' \subseteq pool

Settled(r) == phase[r] \notin InFlight

\* Once the wrangler has no more news, every dispatched request is settled: the
\* retries of failed dials run out, because each takes a backend off the heap,
\* and the done channel, which forwarders fill and one goroutine empties, never
\* blocks for good.
Settles == <>[][Quiet]_vars => <>[](\A r \in Req : Settled(r))

\* dispatch parks a request on s.pending while the heap is empty; once a
\* backend is in the heap for good the request gets its turn ("dispatch or add
\* to pending list", scheduler.go:156; "drain the pending list",
\* scheduler.go:141).
PendingDrained ==
  (<>[](pool # {})) => \A r \in Req : phase[r] = "pending" ~> phase[r] # "pending"

\* finish dispatches a request again only when its dial failed (scheduler.go:243,
\* "retry the connection is it failed on dial"), never one whose connections
\* have been served and closed.
NeverRedispatchClosed ==
  [][\A r \in closed : phase[r] = "done" => phase'[r] \in {"done", "finished"}]_vars

\* The promise of module LoadBalancer: placement by the connections a backend
\* really carries, whatever its counter says.
serving == [r \in Req |-> IF phase[r] \in InFlight THEN backend[r] ELSE Nil]

LB == INSTANCE LoadBalancer WITH
        Server <- Backend,
        None <- Nil,
        weight <- [b \in Backend |-> Weight(b)],
        MaxPerServer <- MaxForwardersPerBackend,
        eligible <- pool,
        serving <- serving,
        waiting <- {r \in Req : phase[r] = "pending"},
        over <- {r \in Req : phase[r] \in {"refused", "finished"}}

\* The scheduler and its forwarders implement the abstract load balancer.
ImplementsLoadBalancer == LB!Spec
=============================================================================
