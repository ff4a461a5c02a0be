----------------------------- MODULE Listeners -----------------------------
(***************************************************************************)
(* The listeners of the native engine (native.Serve) and main.Stop, in the *)
(* process of each instance of gbalancer that serves: an acceptor per      *)
(* listener hands connections to the scheduler over the unbuffered job     *)
(* channel, a second goroutine closes the listener when done is closed,    *)
(* and Stop waits for the acceptors in the wait group.                     *)
(*                                                                         *)
(* The address of a listener is used by one process at a time.  That of a  *)
(* unix listener is a file, which stays when the process dies without      *)
(* closing it.  Temporary errors of Accept only make an acceptor try again *)
(* and are left out.                                                       *)
(***************************************************************************)
EXTENDS Naturals

CONSTANTS
  Inst,        \* instances of the program
  Listener,    \* GetListenAddrs: 1, 2, ... in their order
  Unix,        \* those that are unix sockets
  Free, Left   \* an address that is not in use, a socket file left behind

ASSUME ListenersAssumption ==
  /\ Listener \subseteq Nat /\ Unix \subseteq Listener
  /\ {Free, Left} \cap Inst = {} /\ Free # Left

VARIABLES
  server,     \* the serving code: "none", "boot" (Serve), "up", "stop" (Stop)
  acceptor,   \* acceptors: "none", "accept", "send" (job <- req), "gone"
  address     \* who uses an address

lvars == <<server, acceptor, address>>

LInit ==
  /\ server = [i \in Inst |-> "none"]
  /\ acceptor = [i \in Inst |-> [l \in Listener |-> "none"]]
  /\ address = [l \in Listener |-> Free]

\* The process of the server of i is over; the kernel closes what it had.
Freed(i, l) == IF address[l] # i THEN address[l]
               ELSE IF l \in Unix THEN Left ELSE Free
ProcessOver(i) ==
  /\ server' = [server EXCEPT ![i] = "none"]
  /\ acceptor' = [acceptor EXCEPT ![i] = [l \in Listener |-> "none"]]
  /\ address' = [l \in Listener |-> Freed(i, l)]

\* The loop over the addresses has come to l.
AtListener(i, l) ==
  /\ server[i] = "boot" /\ acceptor[i][l] = "none"
  /\ \A k \in Listener : k < l => acceptor[i][k] # "none"

\* Listen for one address, its closer and its acceptor.
Listen(i, l) ==
  /\ AtListener(i, l) /\ address[l] = Free
  /\ address' = [address EXCEPT ![l] = i]
  /\ acceptor' = [acceptor EXCEPT ![i][l] = "accept"]
  /\ UNCHANGED server

\* The address is in use: log.Fatal.
ListenFails(i, l) ==
  /\ AtListener(i, l) /\ address[l] # Free
  /\ ProcessOver(i)

Served(i) ==
  /\ server[i] = "boot" /\ \A l \in Listener : acceptor[i][l] # "none"
  /\ server' = [server EXCEPT ![i] = "up"]
  /\ UNCHANGED <<acceptor, address>>

Accept(i, l) ==
  /\ acceptor[i][l] = "accept" /\ address[l] = i
  /\ acceptor' = [acceptor EXCEPT ![i][l] = "send"]
  /\ UNCHANGED <<server, address>>

\* The scheduler receives from job, whether done is closed or not.
Scheduling_UntilDone(i) == server[i] # "stop"
Scheduling(i) == TRUE

Hand_Once(i, l) ==
  /\ acceptor[i][l] = "send" /\ Scheduling(i)
  /\ acceptor' = [acceptor EXCEPT ![i][l] = "gone"]
  /\ UNCHANGED <<server, address>>
Hand(i, l) ==
  /\ acceptor[i][l] = "send" /\ Scheduling(i)
  /\ acceptor' = [acceptor EXCEPT ![i][l] = "accept"]
  /\ UNCHANGED <<server, address>>

\* close(s.done)
CloseDone(i) ==
  /\ server[i] = "up"
  /\ server' = [server EXCEPT ![i] = "stop"]
  /\ UNCHANGED <<acceptor, address>>

\* <-done; listener.Close(), which removes a socket file.
CloseListener(i, l) ==
  /\ server[i] = "stop" /\ address[l] = i
  /\ address' = [address EXCEPT ![l] = Free]
  /\ UNCHANGED <<server, acceptor>>

\* Accept of a closed listener fails: wgroup.Done().
AcceptFails(i, l) ==
  /\ acceptor[i][l] = "accept" /\ address[l] # i
  /\ acceptor' = [acceptor EXCEPT ![i][l] = "gone"]
  /\ UNCHANGED <<server, address>>

\* The listeners the wait group still counts.
Awaited_Open(i) == {l \in Listener : address[l] = i}
Awaited(i) == {l \in Listener : acceptor[i][l] \in {"accept", "send"}}

\* wgroup.Wait() returns.
Stopped(i) == server[i] = "stop" /\ Awaited(i) = {}

\* The goroutines of the server: the one that calls Serve, and two per listener.
Serve(i) == Served(i) \/ \E l \in Listener : Listen(i, l)
Acceptor(i, l) == Hand(i, l) \/ AcceptFails(i, l)
Closer(i, l) == CloseListener(i, l)
=============================================================================
