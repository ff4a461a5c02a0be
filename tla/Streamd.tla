------------------------------ MODULE Streamd ------------------------------
(* The two programs around a SPDY connection: the director, which opens a   *)
(* stream for each client it forwards (backend.go, scheduler.go), and the   *)
(* agent of cmd/streamd, which dials the service for each stream it is      *)
(* given.  At both ends two copiers join a socket and the stream: "out"     *)
(* copies from the socket to the stream and then closes the stream, "in"    *)
(* copies from the stream to the socket and then closes the socket.         *)
EXTENDS Spdystream

CONSTANTS
  Data,      \* Data[e][n]: bound on what the socket of stream n at e has to say
  Leaves,    \* Leaves[e]: bound on the streams whose socket at e is closed by its far end
  Faults     \* which of these happen: the slot is switched, dials fail, an end dies

Fault == {"switch", "dial"} \cup End
ASSUME StreamdAssumption == 
  /\ Data \in [End -> [Index -> Nat]]
  /\ Leaves \in [End -> SUBSET Index]
  /\ Faults \subseteq Fault

VARIABLES
  sock,    \* sock[e][n]: "none", "open", "gone" (closed by its far end), "closed"
  said,    \* said[e][n]: messages copied from the socket into the stream
  heard,   \* heard[e][n]: messages copied from the stream into the socket
  copier,  \* copier[e][n]: where the two copiers are, and what "in" holds
  tunnel,  \* the director's session: "new", "pinging", "up", "dead"
  lost     \* history: the transport was lost, not closed by shutdown

svars == <<wire, blocks, conn, queue, worker, stream, sock, said, heard, copier, tunnel, lost>>
app == <<sock, said, heard, copier, tunnel, lost>>

NoCopier == [out |-> "none", in |-> "none", held |-> <<>>]
Copying == [NoCopier EXCEPT !.out = "copy", !.in = "read"]
Stopped == [NoCopier EXCEPT !.out = "done", !.in = "done"]

SInit ==
  /\ LibInit
  /\ sock = [e \in End |-> [n \in Index |-> "none"]]
  /\ said = [e \in End |-> [n \in Index |-> 0]]
  /\ heard = [e \in End |-> [n \in Index |-> <<>>]]
  /\ copier = [e \in End |-> [n \in Index |-> NoCopier]]
  /\ tunnel = "new"
  /\ lost = FALSE

-----------------------------------------------------------------------------
(* NewConnTunnel pings the agent before anything else, without a timeout. *)
Ping ==
  /\ tunnel = "new"
  /\ \E ok \in BOOLEAN : SendPing(ok) /\ tunnel' = IF ok THEN "pinging" ELSE "dead"
  /\ UNCHANGED <<conn, queue, worker, stream, sock, said, heard, copier, lost>>
Pinged ==
  /\ tunnel = "pinging"
  /\ \/ conn["director"].pinged /\ tunnel' = "up"
     \/ ~conn["director"].serving /\ tunnel' = "dead"
  /\ UNCHANGED <<lib, sock, said, heard, copier, lost>>

(* A client is forwarded.  The forwarder may hold the connection from       *)
(* before the scheduler switched the slot and closed it.                    *)
Forward(n) ==
  /\ tunnel = "up"
  /\ CreateStream(n)
  /\ sock' = [sock EXCEPT !["director"][n] = "open"]
  /\ copier' = [copier EXCEPT !["director"][n].out = "syn"]
  /\ UNCHANGED <<wire, blocks, queue, worker, said, heard, tunnel, lost>>

(* run starts the copiers without waiting for the reply.  When the SYN      *)
(* could not be sent the client is served over TCP, and a forwarder that    *)
(* finds its connection still in the slot closes it (CloseConn).            *)
Forwarded(n) ==
  /\ copier["director"][n].out = "syn"
  /\ \E ok \in BOOLEAN :
       /\ SendStream(n, ok)
       /\ copier' = [copier EXCEPT !["director"][n] = IF ok THEN Copying ELSE Stopped]
       /\ sock' = [sock EXCEPT !["director"][n] = IF ok THEN @ ELSE "none"]
  /\ UNCHANGED <<conn, queue, worker, stream, said, heard, tunnel, lost>>

(* AgentStreamHandler, in the worker: dial the service, reply, copy.  When  *)
(* the dial fails it returns without a word to the director.                *)
Handler(w, n) ==
  /\ worker["agent"][w].at = "handler" /\ worker["agent"][w].n = n
  /\ \/ \E ok \in BOOLEAN :
          /\ SendReply(n, ok)
          /\ sock' = [sock EXCEPT !["agent"][n] = "open"]
          /\ copier' = [copier EXCEPT !["agent"][n] = IF ok THEN Copying ELSE @]
     \/ /\ "dial" \in Faults
        /\ UNCHANGED <<wire, blocks, stream, sock, copier>>
  /\ worker' = [worker EXCEPT !["agent"][w] = Idle]
  /\ UNCHANGED <<conn, queue, said, heard, tunnel, lost>>

-----------------------------------------------------------------------------
(* The "out" copier.  Messages carry their number. *)
CopyOut(e, n) ==
  /\ copier[e][n].out = "copy" /\ sock[e][n] = "open" /\ said[e][n] < Data[e][n]
  /\ \E ok \in BOOLEAN :
       /\ WriteData(e, n, <<said[e][n] + 1>>, ok)
       /\ said' = [said EXCEPT ![e][n] = IF ok THEN @ + 1 ELSE @]
       /\ copier' = [copier EXCEPT ![e][n].out = IF ok THEN @ ELSE "close"]
  /\ UNCHANGED <<conn, queue, worker, stream, sock, heard, tunnel, lost>>

EndOut(e, n) ==
  /\ copier[e][n].out = "copy" /\ sock[e][n] \in {"gone", "closed"}
  /\ copier' = [copier EXCEPT ![e][n].out = "close"]
  /\ UNCHANGED <<lib, sock, said, heard, tunnel, lost>>

(* Stream.Close *)
CloseOut(e, n) ==
  /\ copier[e][n].out = "close"
  /\ CloseChan(e, n)
  /\ copier' = [copier EXCEPT ![e][n].out = "finish"]
  /\ UNCHANGED <<wire, blocks, conn, queue, worker, sock, said, heard, tunnel, lost>>
FinishOut(e, n) ==
  /\ copier[e][n].out = "finish"
  /\ \/ stream[e][n].finished /\ UNCHANGED <<wire, blocks>>
     \/ ~stream[e][n].finished /\ \E ok \in BOOLEAN : WriteFin(e, n, ok)
  /\ MarkFinished(e, n)
  /\ copier' = [copier EXCEPT ![e][n].out = "done"]
  /\ UNCHANGED <<conn, queue, worker, sock, said, heard, tunnel, lost>>

(* The "in" copier: Stream.Read takes a message or finds the stream closed. *)
ShutIn(e, n) ==
  /\ sock' = [sock EXCEPT ![e][n] = "closed"]
  /\ copier' = [copier EXCEPT ![e][n].in = "done", ![e][n].held = <<>>]
ReadIn(e, n) ==
  /\ copier[e][n].in = "read"
  /\ \/ \E w \in Offering(e, n) :
          /\ copier' = [copier EXCEPT ![e][n].in = "write", ![e][n].held = worker[e][w].data]
          /\ worker' = [worker EXCEPT ![e][w] = Idle]
          /\ UNCHANGED sock
     \/ /\ stream[e][n].closed
        /\ ShutIn(e, n)
        /\ UNCHANGED worker
  /\ UNCHANGED <<wire, blocks, conn, queue, stream, said, heard, tunnel, lost>>
WriteIn(e, n) ==
  /\ copier[e][n].in = "write"
  /\ \/ /\ sock[e][n] = "open"
        /\ heard' = [heard EXCEPT ![e][n] = @ \o copier[e][n].held]
        /\ copier' = [copier EXCEPT ![e][n].in = "read", ![e][n].held = <<>>]
        /\ UNCHANGED sock
     \/ /\ sock[e][n] # "open"
        /\ ShutIn(e, n)
        /\ UNCHANGED heard
  /\ UNCHANGED <<lib, said, tunnel, lost>>

-----------------------------------------------------------------------------
(* The environment. *)

(* A client or the service closes its socket. *)
Gone(e, n) ==
  /\ sock[e][n] = "open" /\ n \in Leaves[e]
  /\ sock' = [sock EXCEPT ![e][n] = "gone"]
  /\ UNCHANGED <<lib, said, heard, copier, tunnel, lost>>

(* One of the programs ends: streamd by a signal, or because Accept failed  *)
(* and Serve was given no connection; the director likewise.  Its sockets   *)
(* go with it.                                                              *)
Dies(e) ==
  /\ e \in Faults /\ conn[e].serving
  /\ lost' = TRUE
  /\ conn' = [conn EXCEPT ![e] = [NewConnection EXCEPT !.open = FALSE, !.serving = FALSE]]
  /\ wire' = [wire EXCEPT ![e] = <<>>]
  /\ queue' = [queue EXCEPT ![e] = [w \in Worker |-> <<>>]]
  /\ worker' = [worker EXCEPT ![e] = [w \in Worker |-> Idle]]
  /\ stream' = [stream EXCEPT ![e] = [n \in Index |-> NoStream]]
  /\ sock' = [sock EXCEPT ![e] = [n \in Index |-> "closed"]]
  /\ copier' = [copier EXCEPT ![e] = [n \in Index |-> Stopped]]
  /\ tunnel' = IF e = "director" THEN "dead" ELSE tunnel
  /\ UNCHANGED <<blocks, said, heard>>

-----------------------------------------------------------------------------
Serve(e) == ServeFrame(e) \/ ServeEnd(e)
Resets(e) == \E n \in Index : SendReset(e, Id(n))
Out(e, n) == EndOut(e, n) \/ CloseOut(e, n) \/ FinishOut(e, n)
In(e, n) == ReadIn(e, n) \/ WriteIn(e, n)
Session == Ping \/ Pinged
Goes(e) == SendGoAway(e) \/ Shutdown(e)

Lib ==
  /\ \E e \in End : \/ Serve(e) \/ Resets(e) \/ Goes(e)
                    \/ \E w \in Worker : Handle(e, w)
  /\ UNCHANGED app
Program ==
  \/ Lib \/ Session
  \/ \E w \in Worker, n \in Index : Handler(w, n)
  \/ \E n \in Index : Forwarded(n)
  \/ \E e \in End, n \in Index : Out(e, n) \/ In(e, n)
Switched == "switch" \in Faults /\ tunnel = "up" /\ CloseConn("director") /\ UNCHANGED app
Environment ==
  \/ Switched
  \/ \E n \in Index : Forward(n)
  \/ \E e \in End, n \in Index : CopyOut(e, n) \/ Gone(e, n)
  \/ \E e \in End : Dies(e)
SNext == Program \/ Environment
SSpec == SInit /\ [][SNext]_svars

(* The goroutines of both programs go on.  What the sockets have to say is  *)
(* not up to them, so CopyOut has no fairness, nor do the faults, the       *)
(* clients and the choice of the scheduler to switch.  No step can be taken *)
(* for ever (each moves a frame, a message or a goroutine on), so that some *)
(* step is taken as long as there is one means that each goroutine goes on. *)
SFairSpec == SSpec /\ WF_svars(Program)

-----------------------------------------------------------------------------
(* Types.  The transport and the queues (QUEUE_SIZE) never hold more than   *)
(* their size, and there are as many header blocks as streams at most.      *)
STypeOK ==
  /\ \A e \in End :
       /\ Len(wire[e]) <= WireCap
       /\ blocks[e] \in [out : 0..MaxStream, in : 0..MaxStream]
       /\ conn[e].shut \in {"no", "goaway", "waiting", "closed", "failed"}
       /\ conn[e].robin \in Worker
       /\ \A w \in Worker :
            /\ Len(queue[e][w]) <= QUEUE_SIZE
            /\ worker[e][w].at \in {"idle", "handler", "data", "reset"}
       /\ \A n \in Index :
            /\ stream[e][n] \in [known : BOOLEAN, replied : BOOLEAN, finished : BOOLEAN, closed : BOOLEAN]
            /\ copier[e][n].out \in {"none", "syn", "copy", "close", "finish", "done"}
            /\ copier[e][n].in \in {"none", "read", "write", "done"}
  /\ sock \in [End -> [Index -> {"none", "open", "gone", "closed"}]]
  /\ said \in [End -> [Index -> Nat]]
  /\ tunnel \in {"new", "pinging", "up", "dead"}

(* The five workers and the priorities of the queues do not disturb what a  *)
(* stream carries: messages come out in the order they went in, and a       *)
(* stream that was closed by its other end had delivered all of them.       *)
InOrder ==
  \A e \in End, n \in Index :
    /\ heard[e][n] = [k \in 1..Len(heard[e][n]) |-> k]
    /\ Len(heard[e][n]) <= said[Other(e)][n]
    /\ (copier[e][n].in = "read" /\ copier[e][n].out = "copy" /\ stream[e][n].closed)
         => Len(heard[e][n]) = said[Other(e)][n]

(* Whoever writes, the frames on the transport can be read: each header     *)
(* block is the next one for the decompressor of the reader (writeLock and  *)
(* the single reader of Serve), and fields the reader refuses are not set.  *)
WireReadable ==
  \A e \in End : \A i \in 1..Len(wire[e]) :
    ~Unreadable(wire[e][i],
                blocks[e].in + Cardinality({j \in 1..(i - 1) : wire[e][j].type \in Compressed}))

(* "No active streams, close should be safe" (shutdown): when an end closes *)
(* the transport, no stream that both ends carry is cut: both have closed   *)
(* it, although the two tables change at different times.                   *)
Carried(n) == stream["agent"][n].known \/ copier["agent"][n].out # "none"
CloseSafe ==
  [][\A e \in End :
       (~lost /\ conn[e].shut = "waiting" /\ conn[e].serving /\ conn'[e].shut = "closed")
         => \A n \in Index : Carried(n) => \A o \in End : stream[o][n].closed]_svars

(* When the client of a stream has left, the goroutines of the stream come  *)
(* to an end at both ends, unless a worker is jammed: it waits for a reader *)
(* that has gone, or with the reset of a stream that nobody waits for.  An  *)
(* agent whose transport is lost keeps its streams until the service leaves.*)
Done(e, n) == copier[e][n].out \in {"none", "done"} /\ copier[e][n].in \in {"none", "done"}
Jammed == \E e \in End, w \in Worker :
  \/ worker[e][w].at = "reset"
  \/ worker[e][w].at = "data" /\ copier[e][worker[e][w].n].in = "done"
Left(n) == sock["director"][n] \in {"gone", "closed"}
Settled(n) ==
  Left(n) => \/ Jammed
             \/ Done("director", n) /\ (Done("agent", n) \/ lost)
Settles == <>[](\A n \in Index : Settled(n))

(* Stream.Close "closes the stream by sending an empty data frame with the  *)
(* finish flag set": Close comes back.                                      *)
CloseEnds == \A n \in Index : (copier["director"][n].out = "close") ~> (copier["director"][n].out = "done")
=============================================================================
