---------------------------- MODULE Spdystream ----------------------------
(* One SPDY connection of docker/spdystream between the director, which     *)
(* opens streams, and the agent (streamd), which accepts them: the Serve    *)
(* loop, the frame queues and their workers, the table of streams, GOAWAY   *)
(* and shutdown at both ends.  What the two programs do with the streams is *)
(* in Streamd.  Each definition is one step of one goroutine; a step of a   *)
(* caller of the library is an operator that Streamd takes into its own.    *)
EXTENDS Framer, FiniteSets, SequencesExt

CONSTANTS
  MaxStream,     \* bound: streams the director may open on the connection
  FRAME_WORKERS, \* frame queues of a connection, each with a worker
  QUEUE_SIZE,    \* frames in a frame queue
  WireCap        \* frames the transport holds in one direction

ASSUME SpdystreamAssumption ==
  /\ {MaxStream, FRAME_WORKERS, QUEUE_SIZE, WireCap} \subseteq Nat \ {0}

End == {"director", "agent"}
Other(e) == CHOOSE o \in End : o # e
Index == 1..MaxStream
Worker == 0..(FRAME_WORKERS - 1)
Id(n) == 2 * n - 1             \* the ids of streams the client end opens
IndexOf(id) == (id + 1) \div 2

VARIABLES
  wire,    \* wire[e]: what was written to e and not yet read by e
  blocks,  \* blocks[e]: header blocks e has written and read
  conn,    \* conn[e]: the Connection object of e
  queue,   \* queue[e][w]: frames with their priorities, in the order of Pop
  worker,  \* worker[e][w]: what the frame handler of the queue is doing
  stream   \* stream[e][n]: the Stream object of e

lib == <<wire, blocks, conn, queue, worker, stream>>

Idle == [at |-> "idle", n |-> 0, data |-> <<>>]
NoStream == [known |-> FALSE, replied |-> FALSE, finished |-> FALSE, closed |-> FALSE]

(* open: the socket; serving: Serve has not returned, closeChan is open;    *)
(* shut: "no", "goaway" (Close has a frame to write), "waiting" for the     *)
(* streams, "closed" by shutdown, "failed" (Close could not write);         *)
(* resets: streams for which a goroutine still has a RST to send.           *)
NewConnection == [open |-> TRUE, serving |-> TRUE, goneAway |-> FALSE, shut |-> "no",
                  received |-> 1, next |-> 1, robin |-> 0, resets |-> {}, pinged |-> FALSE]
LibInit ==
  /\ wire = [e \in End |-> <<>>]
  /\ blocks = [e \in End |-> [out |-> 0, in |-> 0]]
  /\ conn = [e \in End |-> NewConnection]
  /\ queue = [e \in End |-> [w \in Worker |-> <<>>]]
  /\ worker = [e \in End |-> [w \in Worker |-> Idle]]
  /\ stream = [e \in End |-> [n \in Index |-> NoStream]]

-----------------------------------------------------------------------------
(* Writing.  A writer holds writeLock until the transport has taken its     *)
(* frame, so nobody writes while there is no room.  Once one of the ends    *)
(* has closed the transport a write fails, or is lost.                      *)
Sent(e, f, ok) ==
  /\ ok \in BOOLEAN
  /\ IF ok
     THEN /\ conn[e].open /\ ~Unwritable(f) /\ Len(wire[Other(e)]) < WireCap
          /\ wire' = IF conn[Other(e)].open
                     THEN [wire EXCEPT ![Other(e)] = Append(@, Write(f, blocks[e].out))]
                     ELSE wire
          /\ blocks' = [blocks EXCEPT ![e].out = @ + (IF f.type \in Compressed THEN 1 ELSE 0)]
     ELSE /\ Unwritable(f) \/ \E o \in End : ~conn[o].open
          /\ UNCHANGED <<wire, blocks>>

Known(e) == {n \in Index : stream[e][n].known}
Priority(e, n) == IF stream[e][n].known THEN 0 ELSE 7

(* Mutant of Pushed: the insertion order is compared the wrong way round. *)
Pushed_Newest(q, f, priority) ==
  LET before == {i \in DOMAIN q : q[i].priority < priority}
  IN InsertAt(q, Cardinality(before) + 1, [frame |-> f, priority |-> priority])
(* Push: frames of one priority stay in order, a lower number goes first. *)
Pushed(q, f, priority) ==
  LET before == {i \in DOMAIN q : q[i].priority <= priority}
  IN InsertAt(q, Cardinality(before) + 1, [frame |-> f, priority |-> priority])
(* Mutant of Push: the size of the queue is not looked at. *)
Push_NoSize(e, w, f, priority) ==
  queue' = [queue EXCEPT ![e][w] = Pushed(@, f, priority)]
Push(e, w, f, priority) ==
  /\ Len(queue[e][w]) < QUEUE_SIZE
  /\ queue' = [queue EXCEPT ![e][w] = Pushed(@, f, priority)]

-----------------------------------------------------------------------------
(* Serve.  A frame whose queue is full waits in Push, and with it all that  *)
(* follows: here it waits on the transport.                                 *)

(* validateStreamId: ids only grow. *)
Valid(e, id) == id >= conn[e].received

(* addStreamFrame: the stream is known before its SYN is handled, so that   *)
(* it keeps the connection from shutting down.                              *)
Accepted(e, f) ==
  /\ Push(e, f.id % FRAME_WORKERS, f, 0)
  /\ conn' = [conn EXCEPT ![e].received = f.id + 2]
  /\ stream' = [stream EXCEPT ![e][IndexOf(f.id)] = [NoStream EXCEPT !.known = TRUE]]

(* checkStreamFrame: after GOAWAY a SYN is dropped, one that comes out of   *)
(* order is answered with a RST.                                            *)
Syn(e, f) ==
  \/ /\ ~conn[e].goneAway /\ Valid(e, f.id)
     /\ Accepted(e, f)
  \/ /\ conn[e].goneAway
     /\ UNCHANGED <<conn, queue, stream>>
  \/ /\ ~conn[e].goneAway /\ ~Valid(e, f.id)
     /\ conn' = [conn EXCEPT ![e].resets = @ \cup {f.id}]
     /\ UNCHANGED <<queue, stream>>

(* Every frame of a stream goes to the worker of the stream; PING and       *)
(* GOAWAY go to the workers in turn.                                        *)
Dispatched(e, f) ==
  \/ /\ f.type = "syn"
     /\ Syn(e, f)
  \/ /\ f.type \in {"reply", "data", "rst"}
     /\ Push(e, f.id % FRAME_WORKERS, f, Priority(e, IndexOf(f.id)))
     /\ UNCHANGED <<conn, stream>>
  \/ /\ f.type \in {"ping", "goaway"}
     /\ Push(e, conn[e].robin, f, 0)
     /\ conn' = [conn EXCEPT ![e].robin = (@ + 1) % FRAME_WORKERS]
     /\ UNCHANGED stream

ServeFrame(e) ==
  /\ conn[e].serving /\ conn[e].open /\ wire[e] # <<>>
  /\ ~Unreadable(Head(wire[e]), blocks[e].in)
  /\ Dispatched(e, Read(Head(wire[e])))
  /\ wire' = [wire EXCEPT ![e] = Tail(@)]
  /\ blocks' = [blocks EXCEPT ![e].in = @ + (IF Head(wire[e]).type \in Compressed THEN 1 ELSE 0)]
  /\ UNCHANGED worker

(* The loop ends on a read error.  The table is emptied, but no stream is   *)
(* closed, and the socket is left to its owner.                             *)
ServeEnd(e) ==
  /\ conn[e].serving
  /\ \/ ~conn[e].open
     \/ wire[e] = <<>> /\ ~conn[Other(e)].open
     \/ wire[e] # <<>> /\ Unreadable(Head(wire[e]), blocks[e].in)
  /\ conn' = [conn EXCEPT ![e].serving = FALSE]
  /\ stream' = [stream EXCEPT ![e] = [n \in Index |-> [stream[e][n] EXCEPT !.known = FALSE]]]
  /\ UNCHANGED <<wire, blocks, queue, worker>>

SendReset(e, id) ==
  /\ id \in conn[e].resets
  /\ \E ok \in BOOLEAN : Sent(e, Frame("rst", id, 1, 0, <<>>), ok)
  /\ conn' = [conn EXCEPT ![e].resets = @ \ {id}]
  /\ UNCHANGED <<queue, worker, stream>>

-----------------------------------------------------------------------------
(* The workers.  getStream and the handling of a frame is one step, up to   *)
(* the point where the handler waits.                                       *)
Popped(e, w) == queue' = [queue EXCEPT ![e][w] = Tail(@)]
Wait(e, w, at, n, data) ==
  worker' = [worker EXCEPT ![e][w] = [at |-> at, n |-> n, data |-> data]]

(* remoteStreamFinish: the stream is forgotten if this end has finished. *)
RemoteFinished(s) == [s EXCEPT !.closed = TRUE, !.known = @ /\ ~s.finished]

(* The handler of a new stream runs in the worker. *)
HandleSyn(e, w, n) ==
  /\ IF stream[e][n].known THEN Wait(e, w, "handler", n, <<>>) ELSE UNCHANGED worker
  /\ UNCHANGED <<conn, stream>>

HandleReply(e, n) ==
  /\ stream' = [stream EXCEPT ![e][n].replied = @ \/ stream[e][n].known]
  /\ UNCHANGED <<conn, worker>>

(* A RST for a stream without a reply is handed to the caller of Wait.  No  *)
(* caller of the program waits, so the worker stays there.                  *)
HandleReset(e, w, n) ==
  LET s == stream[e][n]
      reset == [s EXCEPT !.known = FALSE, !.closed = TRUE, !.replied = TRUE]
  IN /\ \/ ~s.known /\ UNCHANGED <<worker, stream>>
        \/ /\ s.known /\ ~s.replied
           /\ stream' = [stream EXCEPT ![e][n] = reset]
           /\ Wait(e, w, "reset", n, <<>>)
        \/ /\ s.known /\ s.replied
           /\ stream' = [stream EXCEPT ![e][n] = [reset EXCEPT !.finished = TRUE]]
           /\ UNCHANGED worker
     /\ UNCHANGED conn

(* Data waits for a reader with dataLock held; an empty frame ends the      *)
(* stream.  Before the reply, and after Close, data is dropped.             *)
HandleData(e, w, n, f) ==
  LET s == stream[e][n]
      taken == s.known /\ s.replied
  IN /\ IF taken /\ f.data # <<>> /\ ~s.closed
        THEN Wait(e, w, "data", n, f.data) ELSE UNCHANGED worker
     /\ stream' = IF taken /\ f.flags = 1
                  THEN [stream EXCEPT ![e][n] = RemoteFinished(s)] ELSE stream
     /\ UNCHANGED conn

HandleGoAway(e) ==
  /\ conn' = IF conn[e].goneAway THEN conn
             ELSE [conn EXCEPT ![e].goneAway = TRUE, ![e].shut = "waiting"]
  /\ UNCHANGED <<worker, stream>>

(* A ping of the other end is sent back, an answer wakes the caller. *)
HandlePing(e, f) ==
  \/ /\ e = "agent"
     /\ \E ok \in BOOLEAN : Sent(e, f, ok)
     /\ UNCHANGED <<conn, worker, stream>>
  \/ /\ e = "director"
     /\ conn' = [conn EXCEPT ![e].pinged = TRUE]
     /\ UNCHANGED <<wire, blocks, worker, stream>>

Handle(e, w) ==
  /\ worker[e][w].at = "idle" /\ queue[e][w] # <<>>
  /\ LET f == Head(queue[e][w]).frame
         n == IndexOf(f.id)
     IN \/ f.type = "ping" /\ HandlePing(e, f)
        \/ /\ \/ f.type = "syn" /\ HandleSyn(e, w, n)
              \/ f.type = "reply" /\ HandleReply(e, n)
              \/ f.type = "rst" /\ HandleReset(e, w, n)
              \/ f.type = "data" /\ HandleData(e, w, n, f)
              \/ f.type = "goaway" /\ HandleGoAway(e)
           /\ UNCHANGED <<wire, blocks>>
  /\ Popped(e, w)

-----------------------------------------------------------------------------
(* Steps of the callers. *)

(* CreateStream takes the next id (ids run out after 2^30 streams, here     *)
(* after MaxStream) and enters the stream in the table ...                  *)
NextStreamId(n) ==
  /\ conn["director"].next = Id(n)
  /\ conn' = [conn EXCEPT !["director"].next = @ + 2]
CreateStream(n) ==
  /\ NextStreamId(n)
  /\ stream' = [stream EXCEPT !["director"][n] = [NoStream EXCEPT !.known = TRUE]]
(* ... and then sends the SYN, after others that took their ids later. *)
SendStream(n, ok) == Sent("director", Frame("syn", Id(n), 0, 0, <<>>), ok)

SendReply(n, ok) ==
  /\ Sent("agent", Frame("reply", Id(n), 0, 0, <<>>), ok)
  /\ stream' = [stream EXCEPT !["agent"][n].replied = @ \/ ok]

WriteData(e, n, data, ok) == Sent(e, Frame("data", Id(n), 0, 0, data), ok)
WriteFin(e, n, ok) == Sent(e, Frame("data", Id(n), 0, 1, <<>>), ok)

(* The worker that waits for the reader of a stream. *)
Offering(e, n) == {w \in Worker : worker[e][w].at = "data" /\ worker[e][w].n = n}

(* Mutant of CloseChan: Close always takes the stream out of the table. *)
CloseChan_Removes(e, n) ==
  /\ Offering(e, n) = {}
  /\ stream' = [stream EXCEPT ![e][n].closed = TRUE, ![e][n].known = FALSE]
(* Mutant of CloseChan: no select, so that Close of a stream which the other *)
(* end has closed panics on its closed channel.                             *)
CloseChan_NoSelect(e, n) ==
  /\ Offering(e, n) = {} /\ ~stream[e][n].closed
  /\ stream' = [stream EXCEPT ![e][n].closed = TRUE]
(* The first half of Stream.Close needs dataLock, which the worker holds    *)
(* while it waits for a reader.                                             *)
CloseChan(e, n) ==
  /\ Offering(e, n) = {}
  /\ stream' = [stream EXCEPT ![e][n].closed = TRUE, ![e][n].known = @ /\ ~stream[e][n].closed]
(* The second half: WriteData marks the stream before it sends the FIN. *)
MarkFinished(e, n) == stream' = [stream EXCEPT ![e][n].finished = TRUE]

SendPing(ok) == Sent("director", Frame("ping", 1, 0, 0, <<>>), ok)

(* Connection.Close says that it goes away, then sends GOAWAY, then has     *)
(* shutdown wait for the streams.                                           *)
CloseConn(e) ==
  /\ ~conn[e].goneAway
  /\ conn' = [conn EXCEPT ![e].goneAway = TRUE, ![e].shut = "goaway"]
  /\ UNCHANGED <<wire, blocks, queue, worker, stream>>

SendGoAway(e) ==
  /\ conn[e].shut = "goaway"
  /\ \E ok \in BOOLEAN :
       /\ Sent(e, Frame("goaway", IF conn[e].received > 2 THEN conn[e].received - 2 ELSE 0,
                        0, 0, <<>>), ok)
       /\ conn' = [conn EXCEPT ![e].shut = IF ok THEN "waiting" ELSE "failed"]
  /\ UNCHANGED <<queue, worker, stream>>

(* shutdown closes the socket when no stream is left; what was written      *)
(* before still reaches the other end.                                      *)
Shutdown(e) ==
  /\ conn[e].shut = "waiting" /\ Known(e) = {}
  /\ conn' = [conn EXCEPT ![e].open = FALSE, ![e].shut = "closed"]
  /\ wire' = [wire EXCEPT ![e] = <<>>]
  /\ UNCHANGED <<blocks, queue, worker, stream>>
=============================================================================
