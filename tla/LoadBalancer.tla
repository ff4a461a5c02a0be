---------------------------- MODULE LoadBalancer ----------------------------
(***************************************************************************)
(* What the native engine promises its clients, without counters, heaps,   *)
(* channels or goroutines: each connection waits, is carried by one        *)
(* server, or is over; it is placed on the eligible server that carries    *)
(* least (or, in failover mode, on the one of least weight), and refused   *)
(* only when that server is full.  Module Scheduler implements it.         *)
(***************************************************************************)
EXTENDS Integers, FiniteSets

CONSTANTS
  Req,           \* client connections
  Server,        \* servers that carry them
  None,          \* no server
  weight,        \* Backend.weight
  LeastWeight,   \* flag -failover
  MaxPerServer   \* MaxForwardersPerBackend

VARIABLES
  eligible,   \* servers that new connections may be placed on
  serving,    \* the server each connection is carried by
  waiting,    \* connections that found no eligible server
  over        \* connections refused or completed

vars == <<eligible, serving, waiting, over>>

Init ==
  /\ eligible = {}
  /\ serving = [r \in Req |-> None]
  /\ waiting = {}
  /\ over = {}

Carried(s, carrier) == {r \in Req : carrier[r] = s}
Load(s, carrier) == Cardinality(Carried(s, carrier))

\* The servers of E that come first when the connections are carried as said.
First(E, carrier) ==
  {s \in E : \A t \in E : IF LeastWeight
                          THEN weight[s] <= weight[t]
                          ELSE Load(s, carrier) <= Load(t, carrier)}

\* The placement carrier, but with r on s.
Moved(r, s, carrier) == [q \in Req |-> IF q = r THEN s ELSE carrier[q]]

\* r, which carrier does not place, is placed on a server of E, if any.
Place(r, E, carrier) ==
  /\ eligible' = E
  /\ \/ E = {} /\ waiting' = waiting \cup {r} /\ serving' = carrier /\ over' = over
     \/ \E s \in First(E, carrier) :
          IF Load(s, carrier) < MaxPerServer
          THEN /\ serving' = Moved(r, s, carrier)
               /\ UNCHANGED <<waiting, over>>
          ELSE /\ over' = over \cup {r}
               /\ serving' = carrier
               /\ UNCHANGED waiting

Accept(r) ==
  /\ r \notin waiting \cup over /\ serving[r] = None
  /\ Place(r, eligible, serving)

\* r could not use its server, which stops being eligible; r is placed anew.
Retry(r) ==
  /\ serving[r] # None
  /\ Place(r, eligible \ {serving[r]}, Moved(r, None, serving))

Complete(r) ==
  /\ serving[r] # None
  /\ serving' = Moved(r, None, serving)
  /\ over' = over \cup {r}
  /\ UNCHANGED <<eligible, waiting>>

\* The health checks change who is eligible, to a non-empty set: a report is
\* never empty.  Connections stay where they are.
Report ==
  /\ eligible' \in (SUBSET Server) \ {{}}
  /\ UNCHANGED <<serving, waiting, over>>

Next ==
  \/ \E r \in Req : Accept(r) \/ Retry(r) \/ Complete(r)
  \/ Report

Spec == Init /\ [][Next]_vars

-----------------------------------------------------------------------------
TypeOK ==
  /\ eligible \subseteq Server
  /\ serving \in [Req -> Server \cup {None}]
  /\ waiting \subseteq Req
  /\ over \subseteq Req

\* A connection waits, is carried or is over, and no server carries more than
\* MaxForwardersPerBackend of them, however often connections were retried.
Exclusive ==
  /\ waiting \cap over = {}
  /\ \A r \in Req : serving[r] # None => r \notin waiting \cup over

WithinLimit == \A s \in Server : Load(s, serving) <= MaxPerServer
=============================================================================
