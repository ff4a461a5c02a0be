---------------------------- MODULE PrioritySet ----------------------------
(***************************************************************************)
(* What the scheduler relies on the pool for: a set of backends, from      *)
(* which a least one is taken, and whose keys change only while the        *)
(* backend is out of the set or by taking it out and putting it back.      *)
(***************************************************************************)
EXTENDS Integers

CONSTANTS
  Backend,   \* Backend objects
  Limit      \* MaxForwardersPerBackend

VARIABLES
  leastweight,   \* whether the key is the weight
  weight,        \* Backend.weight
  members,       \* the backends in the pool
  ongoing        \* Backend.ongoing

fixed == <<leastweight, weight>>
vars == <<fixed, members, ongoing>>

Key(b) == IF leastweight THEN weight[b] ELSE ongoing[b]

Least(b) == b \in members /\ \A c \in members : Key(b) <= Key(c)

Init ==
  /\ leastweight \in BOOLEAN /\ weight \in [Backend -> Nat]
  /\ members = {} /\ ongoing = [b \in Backend |-> 0]

Add(b) == members' = members \cup {b} /\ UNCHANGED <<fixed, ongoing>>

Remove(b) == members' = members \ {b} /\ UNCHANGED <<fixed, ongoing>>

\* A least backend takes one more connection, unless it is full.
Place(b) ==
  /\ Least(b) /\ ongoing[b] < Limit
  /\ ongoing' = [ongoing EXCEPT ![b] = @ + 1]
  /\ UNCHANGED <<fixed, members>>

\* A connection of b ended; b leaves the set if the connection failed.
Finish(b) ==
  /\ ongoing[b] > 0
  /\ ongoing' = [ongoing EXCEPT ![b] = @ - 1]
  /\ members' \in {members, members \ {b}}
  /\ UNCHANGED fixed

Next == \E b \in Backend : Add(b) \/ Remove(b) \/ Place(b) \/ Finish(b)

Spec == Init /\ [][Next]_vars
=============================================================================
