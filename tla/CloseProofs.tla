---------------------------- MODULE CloseProofs ----------------------------
(***************************************************************************)
(* Theorems about the end of the streams of module Streamd, for every      *)
(* value of its constants: when one end of a connection closes it, no      *)
(* stream that both ends carry is cut.  The invariants of StreamdProofs    *)
(* say what is on its way to a stream; the third one, here, says when an   *)
(* end may forget it.  Moves lists what a step may do to one stream, and   *)
(* MovesKept shows that such steps keep the invariant; the rest shows that *)
(* every step is one of them.                                              *)
(***************************************************************************)
EXTENDS StreamdProofs

-----------------------------------------------------------------------------
(* The third invariant. *)

\* The frames on the transport to e, and those in its queues.
OnWire(e) == {Read(wire[e][i]) : i \in DOMAIN wire[e]}
InQueues(e) == UNION {{queue[e][w][i].frame : i \in DOMAIN queue[e][w]} : w \in Worker}
Coming(e) == OnWire(e) \cup InQueues(e)

\* The SYN, the RST and the FIN of stream n.
SynOf(f, n) == f.type = "syn" /\ f.id = Id(n)
RstOf(f, n) == f.type = "rst" /\ f.id = Id(n)
FinOf(f, n) == f.type = "data" /\ f.id = Id(n) /\ f.flags = 1

\* The SYN is on the transport, or in a queue of the agent.
Unread(n) == \E f \in OnWire("agent") : SynOf(f, n)
InHand(n) == \E f \in InQueues("agent") : SynOf(f, n)

\* A FIN of the stream is on its way to e, or a RST to the director.
FinComes(e, n) == \E f \in Coming(e) : FinOf(f, n)
RstComes(n) == \E f \in Coming("director") : RstOf(f, n)

\* The other end has closed the stream and has sent its FIN.
Ended(e, n) == copier[Other(e)][n].out = "done" /\ stream[Other(e)][n].closed

\* The agent has refused the stream.
Refusal(n) ==
  /\ ~ Unread(n) /\ ~ InHand(n) /\ ~ Dialing(n)
  /\ ~ stream["agent"][n].known /\ copier["agent"][n].out = "none"
  /\ copier["director"][n].out \notin {"none", "syn"}

\* For the other end the stream is over.
Over(e, n) == Ended(e, n) \/ (e = "director" /\ Refusal(n))

\* An end forgets a stream, or finds it closed, when the other end has closed it.
Parted(e, n) ==
  /\ FinComes(e, n) => Ended(e, n)
  /\ copier[e][n].out = "finish" => stream[e][n].closed
  /\ stream[e][n].closed /\ copier[e][n].out \in {"copy", "close"} => Over(e, n)
  /\ conn[e].serving /\ ~ stream[e][n].known /\ copier[e][n].out # "none" =>
       stream[e][n].closed /\ Over(e, n)

\* The agent knows a stream from when it has read its SYN, and resets those it never knew.
Entered(n) ==
  /\ conn["agent"].serving /\ (Dialing(n) \/ InHand(n)) => stream["agent"][n].known
  /\ Unread(n) => ~ stream["agent"][n].known
  /\ Carried(n) => copier["director"][n].out \notin {"none", "syn"}
  /\ Id(n) \in conn["agent"].resets \/ RstComes(n) => Refusal(n)

\* The third inductive invariant: it speaks of connections that are not lost.
Standing(n) == Entered(n) /\ \A e \in End : Parted(e, n)
PartInv == lost \/ \A n \in Index : Standing(n)

\* How a step may move the "out" copier of a stream at e.
OutMoves(e, n) ==
  \/ copier'[e][n].out = copier[e][n].out
  \/ copier[e][n].out = "copy" /\ copier'[e][n].out = "close"
  \/ copier[e][n].out = "close" /\ copier'[e][n].out = "finish" /\ stream'[e][n].closed
  \/ copier[e][n].out = "finish" /\ copier'[e][n].out = "done"
  \/ /\ e = "director" /\ copier[e][n].out = "none" /\ copier'[e][n].out = "syn"
     /\ stream'[e][n].known
  \/ /\ \/ e = "director" /\ copier[e][n].out = "syn"
        \/ e = "agent" /\ copier[e][n].out = "none" /\ Dialing(n)
     /\ copier'[e][n].out \in {"copy", "done"} /\ ~ stream'[e][n].closed
     /\ stream'[e][n].known \/ ~ conn'[e].serving

\* ... and what else it may do to the stream there.
EndMoves(e, n) ==
  /\ OutMoves(e, n)
  /\ stream[e][n].closed => stream'[e][n].closed
  /\ stream'[e][n].closed => \/ stream[e][n].closed \/ Over(e, n)
                             \/ copier'[e][n].out \notin {"copy", "close"}
  /\ stream'[e][n].known => \/ stream[e][n].known
                            \/ e = "director" /\ copier[e][n].out = "none"
                            \/ e = "agent" /\ Unread(n) /\ ~ Unread(n)'
  /\ ~ stream'[e][n].known => \/ ~ stream[e][n].known \/ ~ conn'[e].serving
                              \/ /\ stream'[e][n].closed /\ Over(e, n)
                                 /\ copier[e][n].out # "none"
  /\ conn'[e].serving => conn[e].serving

\* What a step may do to stream n.
Moves(n) ==
  /\ \A e \in End :
       /\ EndMoves(e, n)
       /\ FinComes(e, n)' => \/ FinComes(e, n)
                             \/ copier[Other(e)][n].out = "finish" /\ copier'[Other(e)][n].out = "done"
  /\ Unread(n)' => Unread(n) \/ copier["director"][n].out = "syn"
  /\ InHand(n)' => InHand(n) \/ (Unread(n) /\ stream'["agent"][n].known)
  /\ Dialing(n)' => Dialing(n) \/ (InHand(n) /\ stream'["agent"][n].known)
  /\ Id(n) \in conn'["agent"].resets => Id(n) \in conn["agent"].resets \/ Refusal(n)'
  /\ RstComes(n)' => RstComes(n) \/ Refusal(n)

-----------------------------------------------------------------------------
(* Steps that keep the invariant. *)

\* A frame that comes is in the line of its stream.
LEMMA ComingLine ==
  ASSUME LibTyped, Queues, NEW e \in End, NEW n \in Index, NEW f \in Coming(e), Of(f, n)
  PROVE  Carries(Line(e, n), n, f.type)
<1> DEFINE q == queue[e][Home(n)]
           w == wire[e]
<1>1. q \in Seq(Queued) /\ w \in Seq(Written) /\ Line(e, n) = LineOf(q, w)
  <2>1. Home(n) \in Worker
    BY Naming, Numbered DEF Home
  <2> QED BY <2>1 DEF Line, LibTyped
<1>2. CASE f \in OnWire(e)
  <2>1. PICK i \in DOMAIN w : f = Read(w[i])
    BY <1>2 DEF OnWire
  <2> HIDE DEF q, w
  <2>2. Len(q) \in Nat /\ Len(w) \in Nat /\ i \in 1 .. Len(w)
    BY <1>1, <2>1, LenProperties
  <2>3. /\ DOMAIN LineOf(q, w) = 1 .. Len(q) + Len(w)
        /\ Len(q) + i \in Len(q) + 1 .. Len(q) + Len(w) /\ (Len(q) + i) - Len(q) = i
    BY <1>1, <2>2, LineType
  <2>4. LineOf(q, w)[Len(q) + i] = Read(w[(Len(q) + i) - Len(q)])
    BY <1>1, <2>3, LineType
  <2>5. LineOf(q, w)[Len(q) + i] = f /\ Len(q) + i \in DOMAIN LineOf(q, w)
    BY <2>1, <2>2, <2>3, <2>4
  <2> QED BY <1>1, <2>5 DEF Carries, Mine
<1>3. CASE f \in InQueues(e)
  <2>1. PICK v \in Worker : \E i \in DOMAIN queue[e][v] : queue[e][v][i].frame = f
    BY <1>3 DEF InQueues
  <2>2. PICK i \in DOMAIN queue[e][v] : queue[e][v][i].frame = f
    BY <2>1
  <2>3. v = Home(n)
    BY <2>2 DEF Queues
  <2>4. i \in DOMAIN q /\ q[i].frame = f
    BY <2>2, <2>3
  <2> HIDE DEF q, w
  <2>5. Len(q) \in Nat /\ Len(w) \in Nat /\ i \in 1 .. Len(q)
    BY <1>1, <2>4, LenProperties
  <2>6. DOMAIN LineOf(q, w) = 1 .. Len(q) + Len(w) /\ LineOf(q, w)[i] = q[i].frame
    BY <1>1, <2>5, LineType
  <2>7. i \in DOMAIN LineOf(q, w)
    BY <2>5, <2>6
  <2> QED BY <1>1, <2>4, <2>6, <2>7 DEF Carries, Mine
<1> QED
  BY <1>2, <1>3 DEF Coming

\* So is the SYN of a stream.
LEMMA SynLine ==
  ASSUME LibTyped, Queues, NEW n \in Index, Unread(n) \/ InHand(n)
  PROVE  Carries(Line("agent", n), n, "syn")
<1>1. PICK f \in Coming("agent") : SynOf(f, n)
  BY DEF Unread, InHand, Coming
<1>2. Of(f, n) /\ f.type = "syn"
  BY <1>1 DEF SynOf, Of
<1> QED
  BY <1>2, ComingLine, Ends

\* A step of these keeps the invariant.
LEMMA MovesKept ==
  ASSUME StreamInv, OrderInv, NEW n \in Index, Standing(n), Moves(n)
  PROVE  Standing(n)'
<1> USE DEF Standing
<1>1. \A e \in End : EndMoves(e, n) /\ OutMoves(e, n)
  BY DEF Moves, EndMoves
<1>2. "director" \in End /\ "agent" \in End /\ \A e \in End : Other(e) \in End
  BY Ends
<1>3. Unread(n) => copier["director"][n].out \notin {"none", "syn"}
  BY SynLine DEF StreamInv, OrderInv, Conversation, Before, Carries
<1>4. Dialing(n) => copier["director"][n].out \notin {"none", "syn"}
  BY DEF OrderInv, Conversation, Before
<1>5. copier["director"][n].out \notin {"none", "syn"} => copier'["director"][n].out \notin {"none", "syn"}
  BY <1>1, <1>2 DEF OutMoves
<1>6. \A e \in End : Ended(e, n) => Ended(e, n)'
  <2>1. \A e \in End : copier[e][n].out = "done" => copier'[e][n].out = "done"
    BY <1>1 DEF OutMoves
  <2>2. \A e \in End : stream[e][n].closed => stream'[e][n].closed
    BY <1>1 DEF EndMoves
  <2> QED BY <1>2, <2>1, <2>2 DEF Ended
<1>7. Refusal(n) => Refusal(n)'
  <2> SUFFICES ASSUME Refusal(n) PROVE Refusal(n)'
    OBVIOUS
  <2>1. copier'["agent"][n].out = "none"
    BY <1>1, <1>2 DEF OutMoves, Refusal
  <2>2. ~ stream'["agent"][n].known
    BY <1>1, <1>2 DEF EndMoves, Refusal
  <2>3. ~ Unread(n)' /\ ~ InHand(n)' /\ ~ Dialing(n)'
    BY DEF Moves, Refusal
  <2> QED BY <1>5, <2>1, <2>2, <2>3 DEF Refusal
<1>8. \A e \in End : Over(e, n) => Over(e, n)'
  BY <1>6, <1>7 DEF Over
<1>9. ASSUME NEW e \in End PROVE Parted(e, n)'
  <2>1. Parted(e, n) /\ EndMoves(e, n) /\ OutMoves(e, n) /\ (Over(e, n) => Over(e, n)')
    BY <1>1, <1>8
  <2>2. FinComes(e, n)' => Ended(e, n)'
    <3> SUFFICES ASSUME FinComes(e, n)' PROVE Ended(e, n)'
      OBVIOUS
    <3>1. CASE FinComes(e, n)
      BY <1>6, <2>1, <3>1 DEF Parted
    <3>2. CASE copier[Other(e)][n].out = "finish" /\ copier'[Other(e)][n].out = "done"
      <4>1. stream[Other(e)][n].closed
        BY <1>2, <3>2 DEF Parted
      <4>2. stream'[Other(e)][n].closed
        BY <1>1, <1>2, <4>1 DEF EndMoves
      <4> QED BY <3>2, <4>2 DEF Ended
    <3> QED BY <3>1, <3>2 DEF Moves
  <2>3. copier'[e][n].out = "finish" => stream'[e][n].closed
    BY <2>1 DEF Parted, EndMoves, OutMoves
  <2>4. stream'[e][n].closed /\ copier'[e][n].out \in {"copy", "close"} => Over(e, n)'
    BY <2>1 DEF Parted, EndMoves, OutMoves
  <2>5. conn'[e].serving /\ ~ stream'[e][n].known /\ copier'[e][n].out # "none" =>
          stream'[e][n].closed /\ Over(e, n)'
    <3> SUFFICES ASSUME conn'[e].serving, ~ stream'[e][n].known, copier'[e][n].out # "none"
                 PROVE  stream'[e][n].closed /\ Over(e, n)'
      OBVIOUS
    <3>1. conn[e].serving /\ (~ stream[e][n].known \/ (stream'[e][n].closed /\ Over(e, n)))
      BY <2>1 DEF EndMoves
    <3>2. copier[e][n].out # "none"
      BY <2>1 DEF OutMoves
    <3>3. CASE ~ stream[e][n].known
      BY <2>1, <3>1, <3>2, <3>3 DEF Parted, EndMoves
    <3> QED BY <2>1, <3>1, <3>3
  <2> QED BY <2>2, <2>3, <2>4, <2>5 DEF Parted
<1>10. ASSUME conn'["agent"].serving, Dialing(n)' \/ InHand(n)' PROVE stream'["agent"][n].known
  <2>1. Dialing(n) \/ InHand(n) \/ stream'["agent"][n].known
    BY <1>10 DEF Moves
  <2>2. CASE Dialing(n) \/ InHand(n)
    <3>1. conn["agent"].serving
      BY <1>1, <1>2, <1>10 DEF EndMoves
    <3>2. stream["agent"][n].known
      BY <2>2, <3>1 DEF Entered
    <3>3. copier["agent"][n].out = "none"
      <4>1. CASE InHand(n)
        BY <4>1, SynLine DEF StreamInv, OrderInv, Conversation, Unhandled, Introduced
      <4>2. CASE Dialing(n)
        BY <4>2 DEF StreamInv, Once, Dialing, Pending
      <4> QED BY <2>2, <4>1, <4>2
    <3> QED BY <1>1, <1>2, <1>10, <3>2, <3>3 DEF EndMoves
  <2> QED BY <2>1, <2>2
<1>11. Unread(n)' => ~ stream'["agent"][n].known
  <2> SUFFICES ASSUME Unread(n)' PROVE ~ stream'["agent"][n].known
    OBVIOUS
  <2>1. Unread(n) \/ copier["director"][n].out = "syn"
    BY DEF Moves
  <2>2. ~ stream["agent"][n].known
    BY <2>1 DEF Entered, Carried
  <2> QED BY <1>1, <1>2, <2>2 DEF EndMoves
<1>12. Carried(n)' => copier'["director"][n].out \notin {"none", "syn"}
  <2> SUFFICES ASSUME Carried(n)' PROVE copier["director"][n].out \notin {"none", "syn"}
    BY <1>5
  <2>1. CASE stream'["agent"][n].known
    BY <1>1, <1>2, <1>3, <2>1 DEF EndMoves, Entered, Carried
  <2>2. CASE copier'["agent"][n].out # "none"
    BY <1>1, <1>2, <1>4, <2>2 DEF OutMoves, Entered, Carried
  <2> QED BY <2>1, <2>2 DEF Carried
<1>13. Id(n) \in conn'["agent"].resets \/ RstComes(n)' => Refusal(n)'
  BY <1>7 DEF Moves, Entered
<1> QED
  BY <1>9, <1>10, <1>11, <1>12, <1>13 DEF Entered, Id

-----------------------------------------------------------------------------
(* Frames on the transport and in the queues. *)

\* What a write adds to the transport.
LEMMA WireSent ==
  ASSUME LibTyped, NEW e \in End, NEW f \in Frames, NEW ok, Sent(e, f, ok), NEW d \in End
  PROVE  \A x \in OnWire(d)' : x \in OnWire(d) \/ /\ ok /\ d = Other(e) /\ x.type = f.type
                                                  /\ x.id = f.id /\ x.flags = Flags(f)
<1> DEFINE o == Other(e)
           y == Write(f, blocks[e].out)
<1>1. o \in End /\ wire \in [End -> Seq(Written)] /\ wire[o] \in Seq(Written) /\ blocks[e].out \in Nat
  BY Ends DEF LibTyped
<1>2. CASE wire'[d] = wire[d]
  BY <1>2 DEF OnWire
<1>3. CASE ok /\ d = o /\ wire'[d] = Append(wire[d], y)
  <2> DEFINE w == wire[d]
  <2>1. w \in Seq(Written) /\ y \in Written
    BY <1>1, <1>3, WriteFrame
  <2>2. Read(y).type = f.type /\ Read(y).id = f.id /\ Read(y).flags = Flags(f)
    BY DEF Read, Write, Frame
  <2> HIDE DEF w, y
  <2>3. \A i \in DOMAIN Append(w, y) : (i \in DOMAIN w /\ Append(w, y)[i] = w[i]) \/ Append(w, y)[i] = y
    <3>1. /\ DOMAIN w = 1 .. Len(w) /\ Len(w) \in Nat
          /\ DOMAIN Append(w, y) = 1 .. Len(Append(w, y)) /\ Len(Append(w, y)) = Len(w) + 1
      BY <2>1, Appended, LenProperties
    <3> QED BY <2>1, <3>1, Appended
  <2> QED BY <1>3, <2>2, <2>3 DEF OnWire, w
<1>4. wire'[d] = wire[d] \/ (ok /\ d = o /\ wire'[d] = Append(wire[d], y))
  BY <1>1 DEF Sent
<1> QED
  BY <1>2, <1>3, <1>4

\* A frame is read.
LEMMA WireRead ==
  ASSUME LibTyped, NEW e \in End, wire[e] # <<>>, wire' = [wire EXCEPT ![e] = Tail(@)]
  PROVE  /\ Head(wire[e]) \in Written /\ Read(Head(wire[e])) \in OnWire(e)
         /\ \A d \in End : OnWire(d)' \subseteq OnWire(d)
<1>1. wire \in [End -> Seq(Written)] /\ wire[e] \in Seq(Written)
  BY DEF LibTyped
<1> DEFINE w == wire[e]
<1>2. /\ w \in Seq(Written) /\ w # <<>> /\ wire'[e] = Tail(w)
      /\ \A d \in End : d # e => wire'[d] = wire[d]
  BY <1>1
<1> HIDE DEF w
<1>3. /\ Head(w) = w[1] /\ 1 \in DOMAIN w /\ Head(w) \in Written
      /\ \A i \in DOMAIN Tail(w) : i + 1 \in DOMAIN w /\ Tail(w)[i] = w[i + 1]
  <2>1. /\ DOMAIN w = 1 .. Len(w) /\ DOMAIN Tail(w) = 1 .. Len(Tail(w))
        /\ Len(w) \in Nat \ {0} /\ Len(Tail(w)) = Len(w) - 1
    BY <1>2, Taken, LenProperties
  <2> QED BY <1>2, <2>1, Taken
<1>4. OnWire(e)' \subseteq OnWire(e)
  BY <1>2, <1>3 DEF OnWire, w
<1>5. \A d \in End : d # e => OnWire(d)' = OnWire(d)
  BY <1>2 DEF OnWire
<1> QED
  BY <1>3, <1>4, <1>5 DEF OnWire, w

\* A frame enters a queue.
LEMMA QueuePushed ==
  ASSUME LibTyped, NEW e \in End, NEW w \in Worker, NEW f \in Frames, NEW p \in Nat,
         Push(e, w, f, p), NEW d \in End
  PROVE  \A x \in InQueues(d)' : x \in InQueues(d) \/ (d = e /\ x = f)
<1>1. queue \in [End -> [Worker -> Seq(Queued)]] /\ queue' = [queue EXCEPT ![e][w] = Pushed(@, f, p)]
  BY DEF LibTyped, Push
<1> SUFFICES ASSUME NEW v \in Worker, NEW i \in DOMAIN queue'[d][v]
             PROVE  queue'[d][v][i].frame \in InQueues(d) \/ (d = e /\ queue'[d][v][i].frame = f)
  BY DEF InQueues
<1>2. CASE d = e /\ v = w
  <2> DEFINE q == queue[e][w]
  <2>1. q \in Seq(Queued) /\ queue'[d][v] = Pushed(q, f, p)
    BY <1>1, <1>2
  <2> HIDE DEF q
  <2>2. PICK k \in 0 .. Len(q) :
           /\ Pushed(q, f, p) \in Seq(Queued) /\ Len(Pushed(q, f, p)) = Len(q) + 1
           /\ \A j \in 1 .. Len(q) + 1 : Pushed(q, f, p)[j] =
                IF j <= k THEN q[j]
                ELSE IF j = k + 1 THEN [frame |-> f, priority |-> p] ELSE q[j - 1]
    BY <2>1, PushedSomewhere
  <2>3. DOMAIN q = 1 .. Len(q) /\ Len(q) \in Nat /\ i \in 1 .. Len(q) + 1
    BY <2>1, <2>2, LenProperties
  <2>4. \/ i \in DOMAIN q /\ queue'[d][v][i] = q[i]
        \/ queue'[d][v][i].frame = f
        \/ i - 1 \in DOMAIN q /\ queue'[d][v][i] = q[i - 1]
    BY <2>1, <2>2, <2>3
  <2>5. \A j \in DOMAIN q : q[j].frame \in InQueues(e)
    BY DEF InQueues, q
  <2> QED BY <1>2, <2>4, <2>5
<1>3. CASE d # e \/ v # w
  BY <1>1, <1>3 DEF InQueues
<1> QED
  BY <1>2, <1>3

\* A frame leaves its queue.
LEMMA QueuePopped ==
  ASSUME LibTyped, NEW e \in End, NEW w \in Worker, queue[e][w] # <<>>, Popped(e, w)
  PROVE  /\ Head(queue[e][w]).frame \in InQueues(e)
         /\ \A d \in End : InQueues(d)' \subseteq InQueues(d)
<1> DEFINE q == queue[e][w]
<1>1. /\ queue \in [End -> [Worker -> Seq(Queued)]] /\ q \in Seq(Queued) /\ q # <<>>
      /\ queue'[e][w] = Tail(q)
      /\ \A d \in End, v \in Worker : d # e \/ v # w => queue'[d][v] = queue[d][v]
  BY DEF LibTyped, Popped
<1> HIDE DEF q
<1>2. /\ Head(q) = q[1] /\ 1 \in DOMAIN q
      /\ \A i \in DOMAIN Tail(q) : i + 1 \in DOMAIN q /\ Tail(q)[i] = q[i + 1]
  <2>1. /\ DOMAIN q = 1 .. Len(q) /\ DOMAIN Tail(q) = 1 .. Len(Tail(q))
        /\ Len(q) \in Nat \ {0} /\ Len(Tail(q)) = Len(q) - 1
    BY <1>1, Taken, LenProperties
  <2> QED BY <1>1, <2>1, Taken
<1>3. ASSUME NEW d \in End, NEW v \in Worker, NEW i \in DOMAIN queue'[d][v]
      PROVE  queue'[d][v][i].frame \in InQueues(d)
  <2>1. CASE d = e /\ v = w
    <3>1. i + 1 \in DOMAIN q /\ queue'[d][v][i] = q[i + 1]
      BY <1>1, <1>2, <2>1
    <3> QED BY <2>1, <3>1 DEF InQueues, q
  <2>2. CASE d # e \/ v # w
    BY <1>1, <2>2 DEF InQueues
  <2> QED BY <2>1, <2>2
<1> QED
  BY <1>2, <1>3 DEF InQueues, q

-----------------------------------------------------------------------------
(* Steps that bring nothing new. *)

\* A frame that means nothing for the end of stream n, and a step that brings no other.
Plain(f, n) == ~ SynOf(f, n) /\ ~ FinOf(f, n) /\ (RstOf(f, n) => Refusal(n))
Fewer(n) ==
  \A d \in End :
    /\ \A x \in OnWire(d)' : x \in OnWire(d) \/ Plain(x, n)
    /\ \A x \in InQueues(d)' : x \in InQueues(d) \/ Plain(x, n) \/ (x \in OnWire(d) /\ ~ SynOf(x, n))

\* With such a step nothing is on its way that was not.
LEMMA FewerFrames ==
  ASSUME NEW n \in Index, Fewer(n)
  PROVE  /\ \A e \in End : FinComes(e, n)' => FinComes(e, n)
         /\ Unread(n)' => Unread(n)
         /\ InHand(n)' => InHand(n)
         /\ RstComes(n)' => RstComes(n) \/ Refusal(n)
<1>1. /\ \A f : SynOf(f, n)' <=> SynOf(f, n)
      /\ \A f : FinOf(f, n)' <=> FinOf(f, n)
      /\ \A f : RstOf(f, n)' <=> RstOf(f, n)
  BY DEF SynOf, FinOf, RstOf, Id
<1>2. ASSUME NEW e \in End, FinComes(e, n)' PROVE FinComes(e, n)
  <2>1. PICK f \in Coming(e)' : FinOf(f, n)
    BY <1>1, <1>2 DEF FinComes
  <2>2. f \in OnWire(e)' \/ f \in InQueues(e)'
    BY <2>1 DEF Coming
  <2>3. f \in OnWire(e) \/ f \in InQueues(e)
    BY <2>1, <2>2 DEF Fewer, Plain
  <2> QED BY <2>1, <2>3 DEF FinComes, Coming
<1>3. ASSUME RstComes(n)' PROVE RstComes(n) \/ Refusal(n)
  <2>1. PICK f \in Coming("director")' : RstOf(f, n)
    BY <1>1, <1>3 DEF RstComes
  <2>2. f \in OnWire("director")' \/ f \in InQueues("director")'
    BY <2>1 DEF Coming
  <2>3. f \in OnWire("director") \/ f \in InQueues("director") \/ Refusal(n)
    BY <2>1, <2>2, Ends DEF Fewer, Plain
  <2> QED BY <2>1, <2>3 DEF RstComes, Coming
<1>4. Unread(n)' => Unread(n)
  BY <1>1, Ends DEF Unread, Fewer, Plain
<1>5. InHand(n)' => InHand(n)
  BY <1>1, Ends DEF InHand, Fewer, Plain
<1> QED
  BY <1>2, <1>3, <1>4, <1>5

\* A step that brings no frame that matters.
LEMMA FewerMoves ==
  ASSUME NEW n \in Index, Fewer(n), \A e \in End : EndMoves(e, n),
         Dialing(n)' => Dialing(n) \/ (InHand(n) /\ stream'["agent"][n].known),
         Id(n) \in conn'["agent"].resets => Id(n) \in conn["agent"].resets \/ Refusal(n)'
  PROVE  Moves(n)
<1>1. /\ \A e \in End : FinComes(e, n)' => FinComes(e, n)
      /\ Unread(n)' => Unread(n)
      /\ InHand(n)' => InHand(n)
      /\ RstComes(n)' => RstComes(n) \/ Refusal(n)
  BY FewerFrames
<1> QED
  BY <1>1 DEF Moves

\* An end where little happens.
LEMMA EndStill ==
  ASSUME NEW n \in Index, NEW e \in End,
         \/ copier'[e][n].out = copier[e][n].out
         \/ copier[e][n].out = "copy" /\ copier'[e][n].out = "close",
         stream'[e][n].closed => stream[e][n].closed,
         stream[e][n].closed => stream'[e][n].closed,
         stream'[e][n].known => stream[e][n].known,
         ~ stream'[e][n].known => ~ stream[e][n].known \/ ~ conn'[e].serving,
         conn'[e].serving => conn[e].serving
  PROVE  EndMoves(e, n)
BY DEF EndMoves, OutMoves

\* A step that does little for stream n.
LEMMA StillMoves ==
  ASSUME NEW n \in Index, Fewer(n), Dialing(n)' => Dialing(n),
         Id(n) \in conn'["agent"].resets => Id(n) \in conn["agent"].resets,
         \A e \in End :
           /\ \/ copier'[e][n].out = copier[e][n].out
              \/ copier[e][n].out = "copy" /\ copier'[e][n].out = "close"
           /\ stream'[e][n].closed => stream[e][n].closed
           /\ stream[e][n].closed => stream'[e][n].closed
           /\ stream'[e][n].known => stream[e][n].known
           /\ ~ stream'[e][n].known => ~ stream[e][n].known \/ ~ conn'[e].serving
           /\ conn'[e].serving => conn[e].serving
  PROVE  Moves(n)
<1>1. \A e \in End : EndMoves(e, n)
  BY EndStill
<1> QED
  BY <1>1, FewerMoves

\* A frame is sent that means nothing for it.
LEMMA SentFewer ==
  ASSUME LibTyped, NEW e \in End, NEW f \in Frames, NEW ok, Sent(e, f, ok), NEW n \in Index,
         Plain(f, n), \A d \in End : InQueues(d)' \subseteq InQueues(d)
  PROVE  Fewer(n)
<1>1. ASSUME NEW d \in End, NEW x \in OnWire(d)', x \notin OnWire(d) PROVE Plain(x, n)
  <2>1. x.type = f.type /\ x.id = f.id /\ x.flags = Flags(f)
    BY <1>1, WireSent
  <2> QED BY <2>1 DEF Plain, SynOf, FinOf, RstOf, Flags
<1> QED
  BY <1>1 DEF Fewer

\* A step of the library that moves no stream.
LEMMA QuietMoves ==
  ASSUME StreamInv, OrderInv, UNCHANGED app, NEW n \in Index, Standing(n), NEW e \in End,
         \/ ServeEnd(e) \/ Resets(e) \/ Goes(e) \/ CloseConn(e)
  PROVE  Moves(n)
<1>1. LibTyped /\ conn \in [End -> Connections] /\ stream \in [End -> [Index -> Streams]]
      /\ wire \in [End -> Seq(Written)] /\ UNCHANGED copier
  BY DEF StreamInv, LibTyped, app
<1>2. ASSUME UNCHANGED <<wire, queue>> PROVE Fewer(n)
  BY <1>2 DEF Fewer, OnWire, InQueues
<1>3. ASSUME UNCHANGED worker PROVE Dialing(n)' => Dialing(n)
  BY <1>3 DEF Dialing, Handling
<1>4. ASSUME UNCHANGED queue PROVE \A d \in End : InQueues(d)' \subseteq InQueues(d)
  BY <1>4 DEF InQueues
<1>5. CASE ServeEnd(e)
  <2>1. /\ conn' = [conn EXCEPT ![e].serving = FALSE] /\ UNCHANGED <<wire, queue, worker>>
        /\ stream' = [stream EXCEPT ![e] = [m \in Index |-> [stream[e][m] EXCEPT !.known = FALSE]]]
    BY <1>5 DEF ServeEnd
  <2>2. \A d \in End : /\ conn'[d].resets = conn[d].resets /\ conn'[d].serving => conn[d].serving
                       /\ d = e => ~ conn'[d].serving
    BY <1>1, <2>1 DEF Connections
  <2>3. ASSUME NEW d \in End
        PROVE  /\ stream'[d][n].closed = stream[d][n].closed
               /\ stream'[d][n].known => stream[d][n].known
               /\ d # e => stream'[d][n] = stream[d][n]
    <3>1. CASE d = e
      <4>1. stream'[d][n] = [stream[d][n] EXCEPT !.known = FALSE] /\ stream[d][n] \in Streams
        BY <1>1, <2>1, <3>1
      <4> QED BY <3>1, <4>1 DEF Streams
    <3>2. CASE d # e
      BY <1>1, <2>1, <3>2
    <3> QED BY <3>1, <3>2
  <2> QED BY <1>1, <1>2, <1>3, <2>1, <2>2, <2>3, StillMoves, Ends
<1>6. CASE Resets(e)
  <2>1. PICK m \in Index, ok \in BOOLEAN :
          /\ Id(m) \in conn[e].resets /\ Sent(e, Frame("rst", Id(m), 1, 0, <<>>), ok)
          /\ conn' = [conn EXCEPT ![e].resets = @ \ {Id(m)}] /\ UNCHANGED <<queue, worker, stream>>
    BY <1>6 DEF Resets, SendReset
  <2> DEFINE f == Frame("rst", Id(m), 1, 0, <<>>)
  <2>2. f \in Frames /\ f.type = "rst" /\ f.id = Id(m)
    BY Naming DEF Frame, Frames, Kind
  <2>3. e = "agent"
    BY <2>1, Ends DEF OrderInv
  <2>4. Plain(f, n)
    BY <2>1, <2>2, <2>3 DEF Standing, Entered, Plain, SynOf, FinOf, RstOf
  <2> HIDE DEF f
  <2>5. Fewer(n)
    BY <1>1, <1>4, <2>1, <2>2, <2>4, SentFewer DEF f
  <2>6. \A d \in End : conn'[d].resets \subseteq conn[d].resets /\ conn'[d].serving = conn[d].serving
    BY <1>1, <2>1 DEF Connections
  <2> QED BY <1>1, <1>3, <2>1, <2>5, <2>6, StillMoves, Ends
<1>7. CASE SendGoAway(e)
  <2>1. PICK id \in Nat, ok \in BOOLEAN :
          /\ Sent(e, Frame("goaway", id, 0, 0, <<>>), ok)
          /\ conn' = [conn EXCEPT ![e].shut = IF ok THEN "waiting" ELSE "failed"]
          /\ UNCHANGED <<queue, worker, stream>>
    <3>1. (IF conn[e].received > 2 THEN conn[e].received - 2 ELSE 0) \in Nat
      BY <1>1 DEF Connections
    <3> QED BY <1>7, <3>1 DEF SendGoAway
  <2> DEFINE f == Frame("goaway", id, 0, 0, <<>>)
  <2>2. f \in Frames /\ f.type = "goaway"
    BY DEF Frame, Frames, Kind
  <2>3. Plain(f, n)
    BY <2>2 DEF Plain, SynOf, FinOf, RstOf
  <2> HIDE DEF f
  <2>4. Fewer(n)
    BY <1>1, <1>4, <2>1, <2>2, <2>3, SentFewer DEF f
  <2>5. \A d \in End : conn'[d].resets = conn[d].resets /\ conn'[d].serving = conn[d].serving
    BY <1>1, <2>1 DEF Connections
  <2> QED BY <1>1, <1>3, <2>1, <2>4, <2>5, StillMoves, Ends
<1>8. CASE Shutdown(e)
  <2>1. /\ conn' = [conn EXCEPT ![e].open = FALSE, ![e].shut = "closed"]
        /\ wire' = [wire EXCEPT ![e] = <<>>] /\ UNCHANGED <<queue, worker, stream>>
    BY <1>8 DEF Shutdown
  <2>2. \A d \in End : OnWire(d)' \subseteq OnWire(d)
    BY <1>1, <2>1 DEF OnWire
  <2>3. Fewer(n)
    BY <1>4, <2>1, <2>2 DEF Fewer
  <2>4. \A d \in End : conn'[d].resets = conn[d].resets /\ conn'[d].serving = conn[d].serving
    BY <1>1, <2>1 DEF Connections
  <2> QED BY <1>1, <1>3, <2>1, <2>3, <2>4, StillMoves, Ends
<1>9. CASE CloseConn(e)
  <2>1. conn' = [conn EXCEPT ![e].goneAway = TRUE, ![e].shut = "goaway"]
        /\ UNCHANGED <<wire, queue, worker, stream>>
    BY <1>9 DEF CloseConn
  <2>2. \A d \in End : conn'[d].resets = conn[d].resets /\ conn'[d].serving = conn[d].serving
    BY <1>1, <2>1 DEF Connections
  <2> QED BY <1>1, <1>2, <1>3, <2>1, <2>2, StillMoves, Ends
<1> QED
  BY <1>5, <1>6, <1>7, <1>8, <1>9 DEF Goes

\* A step of the programs that moves no stream.
LEMMA ProgramMoves ==
  ASSUME StreamInv, NEW n \in Index, NEW e \in End, NEW m \in Index,
         Session \/ CopyOut(e, m) \/ EndOut(e, m) \/ In(e, m) \/ Gone(e, m)
  PROVE  Moves(n)
<1>1. /\ LibTyped /\ worker \in [End -> [Worker -> Workers]]
      /\ copier \in [End -> [Index -> Copiers]] /\ said \in [End -> [Index -> Nat]]
  BY DEF StreamInv, LibTyped, AppTyped
<1>2. UNCHANGED <<conn, queue, stream>>
  BY DEF Session, Ping, Pinged, CopyOut, EndOut, In, ReadIn, WriteIn, Gone, lib
<1>3. \A d \in End : InQueues(d)' \subseteq InQueues(d)
  BY <1>2 DEF InQueues
<1>4. ASSUME UNCHANGED wire PROVE Fewer(n)
  BY <1>2, <1>4 DEF Fewer, OnWire, InQueues
<1>5. ASSUME UNCHANGED worker PROVE Dialing(n)' => Dialing(n)
  BY <1>5 DEF Dialing, Handling
<1>6. CASE Ping
  <2>1. PICK ok \in BOOLEAN : Sent("director", Frame("ping", 1, 0, 0, <<>>), ok)
    BY <1>6 DEF Ping, SendPing
  <2> DEFINE f == Frame("ping", 1, 0, 0, <<>>)
  <2>2. f \in Frames /\ Plain(f, n)
    BY DEF Frame, Frames, Kind, Plain, SynOf, FinOf, RstOf
  <2> HIDE DEF f
  <2>3. Fewer(n)
    BY <1>1, <1>3, <2>1, <2>2, SentFewer, Ends DEF f
  <2>4. UNCHANGED <<worker, copier>>
    BY <1>6 DEF Ping
  <2> QED BY <1>2, <1>5, <2>3, <2>4, StillMoves
<1>7. CASE Pinged \/ Gone(e, m)
  <2>1. UNCHANGED <<wire, worker, copier>>
    BY <1>7 DEF Pinged, Gone, lib
  <2> QED BY <1>2, <1>4, <1>5, <2>1, StillMoves
<1>8. CASE CopyOut(e, m)
  <2>1. PICK ok \in BOOLEAN :
          /\ Sent(e, Frame("data", Id(m), 0, 0, <<said[e][m] + 1>>), ok)
          /\ copier' = [copier EXCEPT ![e][m].out = IF ok THEN @ ELSE "close"]
          /\ copier[e][m].out = "copy" /\ UNCHANGED worker
    BY <1>8 DEF CopyOut, WriteData
  <2> DEFINE f == Frame("data", Id(m), 0, 0, <<said[e][m] + 1>>)
  <2>2. f \in Frames /\ Plain(f, n)
    BY <1>1, Naming DEF Frame, Frames, Kind, Plain, SynOf, FinOf, RstOf
  <2> HIDE DEF f
  <2>3. Fewer(n)
    BY <1>1, <1>3, <2>1, <2>2, SentFewer DEF f
  <2>4. \A d \in End : \/ copier'[d][n].out = copier[d][n].out
                       \/ copier[d][n].out = "copy" /\ copier'[d][n].out = "close"
    BY <1>1, <2>1 DEF Copiers
  <2> QED BY <1>2, <1>5, <2>1, <2>3, <2>4, StillMoves
<1>9. CASE EndOut(e, m)
  <2>1. /\ copier[e][m].out = "copy" /\ copier' = [copier EXCEPT ![e][m].out = "close"]
        /\ UNCHANGED <<wire, worker>>
    BY <1>9 DEF EndOut, lib
  <2>2. \A d \in End : \/ copier'[d][n].out = copier[d][n].out
                       \/ copier[d][n].out = "copy" /\ copier'[d][n].out = "close"
    BY <1>1, <2>1 DEF Copiers
  <2> QED BY <1>2, <1>4, <1>5, <2>1, <2>2, StillMoves
<1>10. CASE In(e, m)
  <2>1. UNCHANGED wire /\ \/ UNCHANGED worker
                          \/ \E w \in Worker : worker' = [worker EXCEPT ![e][w] = Idle]
    BY <1>10 DEF In, ReadIn, WriteIn, Offering, lib
  <2>2. Dialing(n)' => Dialing(n)
    <3>1. \A w \in Worker : worker'["agent"][w] = worker["agent"][w] \/ worker'["agent"][w] = Idle
      BY <1>1, <2>1, Ends
    <3> QED BY <3>1 DEF Dialing, Handling, Idle
  <2>3. \E x, y : copier' = [copier EXCEPT ![e][m].in = x, ![e][m].held = y]
    <3>1. CASE ReadIn(e, m)
      BY <3>1 DEF ReadIn, ShutIn
    <3>2. CASE WriteIn(e, m)
      BY <3>2 DEF WriteIn, ShutIn
    <3> QED BY <1>10, <3>1, <3>2 DEF In
  <2>4. \A d \in End : copier'[d][n].out = copier[d][n].out
    BY <1>1, <2>3 DEF Copiers
  <2> QED BY <1>2, <1>4, <2>1, <2>2, <2>4, StillMoves
<1> QED
  BY <1>6, <1>7, <1>8, <1>9, <1>10 DEF Session

-----------------------------------------------------------------------------
(* Steps that concern one stream. *)

\* Only stream m at e is concerned.
Only(e, m) ==
  /\ \A d \in End, n \in Index : d # e \/ n # m =>
       stream'[d][n] = stream[d][n] /\ copier'[d][n].out = copier[d][n].out
  /\ \A d \in End : conn'[d].serving = conn[d].serving /\ conn'[d].resets = conn[d].resets

\* Then it is the only one to look at.
LEMMA OnlyMoves ==
  ASSUME NEW e \in End, NEW m \in Index, Only(e, m), NEW n \in Index, Fewer(n),
         n = m => EndMoves(e, n), Dialing(n)' => Dialing(n) \/ (InHand(n) /\ stream'["agent"][n].known)
  PROVE  Moves(n)
<1>1. \A d \in End : EndMoves(d, n)
  BY EndStill DEF Only
<1> QED
  BY <1>1, FewerMoves, Ends DEF Only

\* The first half of Stream.Close.
LEMMA CloseOutMoves ==
  ASSUME StreamInv, NEW n \in Index, Standing(n), NEW e \in End, NEW m \in Index, CloseOut(e, m)
  PROVE  Moves(n)
<1>1. /\ stream \in [End -> [Index -> Streams]] /\ copier \in [End -> [Index -> Copiers]]
      /\ UNCHANGED <<wire, conn, queue, worker>> /\ copier[e][m].out = "close"
      /\ copier' = [copier EXCEPT ![e][m].out = "finish"]
      /\ stream' = [stream EXCEPT ![e][m].closed = TRUE, ![e][m].known = @ /\ ~stream[e][m].closed]
  BY DEF StreamInv, LibTyped, AppTyped, CloseOut, CloseChan
<1>2. Only(e, m)
  BY <1>1 DEF Only
<1>3. /\ copier'[e][m].out = "finish" /\ stream'[e][m].closed
      /\ stream'[e][m].known => stream[e][m].known
      /\ ~ stream'[e][m].known => ~ stream[e][m].known \/ stream[e][m].closed
  <2>1. /\ stream'[e][m] = [stream[e][m] EXCEPT !.closed = TRUE, !.known = @ /\ ~stream[e][m].closed]
        /\ stream[e][m] \in Streams
    BY <1>1
  <2>2. stream'[e][m].closed = TRUE /\ stream'[e][m].known = (stream[e][m].known /\ ~ stream[e][m].closed)
    BY <2>1 DEF Streams
  <2>3. copier'[e][m].out = "finish"
    BY <1>1 DEF Copiers
  <2> QED BY <2>2, <2>3
<1>4. n = m => EndMoves(e, n)
  BY <1>1, <1>3 DEF EndMoves, OutMoves, Standing, Parted
<1>5. Fewer(n) /\ (Dialing(n)' => Dialing(n))
  BY <1>1 DEF Fewer, OnWire, InQueues, Dialing, Handling
<1> QED
  BY <1>2, <1>4, <1>5, OnlyMoves

\* The second half.
LEMMA FinishOutMoves ==
  ASSUME StreamInv, NEW n \in Index, NEW e \in End, NEW m \in Index, FinishOut(e, m)
  PROVE  Moves(n)
<1>1. /\ LibTyped /\ stream \in [End -> [Index -> Streams]] /\ copier \in [End -> [Index -> Copiers]]
      /\ UNCHANGED <<conn, queue, worker>> /\ copier[e][m].out = "finish"
      /\ copier' = [copier EXCEPT ![e][m].out = "done"]
      /\ stream' = [stream EXCEPT ![e][m].finished = TRUE]
  BY DEF StreamInv, LibTyped, AppTyped, FinishOut, MarkFinished
<1>2. Only(e, m)
  BY <1>1 DEF Only
<1>3. /\ copier'[e][m].out = "done" /\ stream'[e][m].closed = stream[e][m].closed
      /\ stream'[e][m].known = stream[e][m].known
  BY <1>1 DEF Streams, Copiers
<1>4. \A d \in End : EndMoves(d, n)
  <2>1. ASSUME NEW d \in End PROVE EndMoves(d, n)
    <3>1. CASE d = e /\ n = m
      BY <1>1, <1>3, <3>1 DEF EndMoves, OutMoves
    <3>2. CASE d # e \/ n # m
      BY <1>2, <3>2, EndStill DEF Only
    <3> QED BY <3>1, <3>2
  <2> QED BY <2>1
<1>5. Dialing(n)' => Dialing(n)
  BY <1>1 DEF Dialing, Handling
<1>6. \A d \in End : InQueues(d)' = InQueues(d)
  BY <1>1 DEF InQueues
<1>7. CASE UNCHANGED wire
  <2>1. Fewer(n)
    BY <1>1, <1>7 DEF Fewer, OnWire, InQueues
  <2> QED BY <1>2, <1>4, <1>5, <2>1, FewerMoves, Ends DEF Only
<1>8. CASE \E ok \in BOOLEAN : WriteFin(e, m, ok)
  <2> DEFINE f == Frame("data", Id(m), 0, 1, <<>>)
  <2>1. PICK ok \in BOOLEAN : Sent(e, f, ok)
    BY <1>8 DEF WriteFin
  <2>2. /\ f \in Frames /\ f.type = "data" /\ f.id = Id(m)
        /\ Other(e) \in End /\ Other(Other(e)) = e
    BY Naming, Ends DEF Frame, Frames, Kind
  <2> HIDE DEF f
  <2>3. CASE n # m
    <3>1. Plain(f, n)
      BY <2>2, <2>3, Naming DEF Plain, SynOf, FinOf, RstOf
    <3>2. Fewer(n)
      BY <1>1, <1>6, <2>1, <2>2, <3>1, SentFewer
    <3> QED BY <1>2, <1>4, <1>5, <3>2, FewerMoves, Ends DEF Only
  <2>4. CASE n = m
    <3>1. \A d \in End : \A x \in Coming(d)' : x \in Coming(d) \/ (d = Other(e) /\ x.type = "data")
      BY <1>1, <1>6, <2>1, <2>2, WireSent DEF Coming
    <3>2. \A d \in End : FinComes(d, n)' => FinComes(d, n) \/ d = Other(e)
      BY <3>1 DEF FinComes, FinOf, Id
    <3>3. RstComes(n)' => RstComes(n)
      BY <3>1, Ends DEF RstComes, RstOf, Id
    <3>4. (Unread(n)' => Unread(n)) /\ (InHand(n)' => InHand(n))
      BY <1>1, <1>6, <2>1, <2>2, WireSent, Ends DEF Unread, InHand, SynOf, Id
    <3>5. n = m /\ copier[e][n].out = "finish" /\ copier'[e][n].out = "done"
      BY <1>1, <1>3, <2>4
    <3> QED BY <1>2, <1>4, <1>5, <2>2, <3>2, <3>3, <3>4, <3>5, Ends DEF Moves, Only
  <2> QED BY <2>3, <2>4
<1> QED
  BY <1>7, <1>8 DEF FinishOut

\* A client is forwarded.
LEMMA ForwardMoves ==
  ASSUME StreamInv, OrderInv, NEW n \in Index, NEW m \in Index, Forward(m)
  PROVE  Moves(n)
<1>1. /\ conn \in [End -> Connections] /\ stream \in [End -> [Index -> Streams]]
      /\ copier \in [End -> [Index -> Copiers]] /\ UNCHANGED <<wire, queue, worker>>
      /\ tunnel = "up" /\ conn["director"].next = Id(m)
      /\ conn' = [conn EXCEPT !["director"].next = @ + 2]
      /\ stream' = [stream EXCEPT !["director"][m] = [NoStream EXCEPT !.known = TRUE]]
      /\ copier' = [copier EXCEPT !["director"][m].out = "syn"]
  BY DEF StreamInv, LibTyped, AppTyped, Forward, CreateStream, NextStreamId
<1>2. Only("director", m)
  BY <1>1, Ends DEF Only, Connections
<1>3. copier["director"][m].out = "none"
  <2>1. Id(m) \in Nat
    BY Naming
  <2> QED BY <1>1, <2>1 DEF StreamInv, Sparing
<1>4. ~ stream["director"][m].closed
  BY <1>3, Ends DEF OrderInv, Conversation, Silent
<1>5. copier'["director"][m].out = "syn" /\ stream'["director"][m].known /\ ~ stream'["director"][m].closed
  BY <1>1, Ends DEF Streams, Copiers, NoStream
<1>6. n = m => EndMoves("director", n)
  BY <1>2, <1>3, <1>4, <1>5, Ends DEF EndMoves, OutMoves, Only
<1>7. Fewer(n) /\ (Dialing(n)' => Dialing(n))
  BY <1>1 DEF Fewer, OnWire, InQueues, Dialing, Handling
<1> QED
  BY <1>2, <1>6, <1>7, OnlyMoves, Ends

\* Its SYN is sent.
LEMMA ForwardedMoves ==
  ASSUME StreamInv, OrderInv, NEW n \in Index, Standing(n), NEW m \in Index, Forwarded(m)
  PROVE  Moves(n)
<1> DEFINE f == Frame("syn", Id(m), 0, 0, <<>>)
<1>1. PICK ok \in BOOLEAN : /\ Sent("director", f, ok)
                            /\ copier' = [copier EXCEPT !["director"][m] = IF ok THEN Copying ELSE Stopped]
  BY DEF Forwarded, SendStream
<1>2. /\ LibTyped /\ copier \in [End -> [Index -> Copiers]] /\ UNCHANGED <<conn, queue, worker, stream>>
      /\ copier["director"][m].out = "syn"
  BY DEF StreamInv, AppTyped, Forwarded
<1>3. f \in Frames /\ f.type = "syn" /\ f.id = Id(m)
  BY Naming DEF Frame, Frames, Kind
<1> HIDE DEF f
<1>4. Only("director", m)
  BY <1>1, <1>2, Ends DEF Only
<1>5. copier'["director"][m].out \in {"copy", "done"}
  <2>1. copier'["director"][m] = IF ok THEN Copying ELSE Stopped
    BY <1>1, <1>2, Ends
  <2> QED BY <2>1, Copies
<1>6. n = m => EndMoves("director", n)
  <2>1. ~ stream["director"][m].closed
    BY <1>2, Ends DEF OrderInv, Conversation, Silent
  <2>2. n = m => stream["director"][m].known \/ ~ conn["director"].serving
    BY <1>2, <2>1, Ends DEF Standing, Parted
  <2> QED BY <1>2, <1>5, <2>1, <2>2 DEF EndMoves, OutMoves
<1>7. \A d \in End : EndMoves(d, n)
  BY <1>4, <1>6, EndStill DEF Only
<1>8. Dialing(n)' => Dialing(n)
  BY <1>2 DEF Dialing, Handling
<1>9. \A d \in End : InQueues(d)' = InQueues(d)
  BY <1>2 DEF InQueues
<1>10. CASE n # m
  <2>1. Plain(f, n)
    BY <1>3, <1>10, Naming DEF Plain, SynOf, FinOf, RstOf
  <2>2. Fewer(n)
    BY <1>1, <1>2, <1>3, <1>9, <2>1, SentFewer, Ends
  <2> QED BY <1>2, <1>7, <1>8, <2>2, FewerMoves
<1>11. CASE n = m
  <2>1. \A d \in End : \A x \in Coming(d)' : x \in Coming(d) \/ (d = "agent" /\ x.type = "syn")
    BY <1>1, <1>3, <1>9, <1>2, WireSent, Ends DEF Coming
  <2>2. \A d \in End : FinComes(d, n)' => FinComes(d, n)
    BY <2>1 DEF FinComes, FinOf, Id
  <2>3. RstComes(n)' => RstComes(n)
    BY <2>1, Ends DEF RstComes, RstOf, Id
  <2>4. InHand(n)' => InHand(n)
    BY <1>9, Ends DEF InHand, SynOf, Id
  <2> QED BY <1>2, <1>7, <1>8, <1>11, <2>2, <2>3, <2>4 DEF Moves
<1> QED
  BY <1>10, <1>11

\* The handler of a stream ends.
LEMMA HandlerMoves ==
  ASSUME StreamInv, OrderInv, NEW n \in Index, Standing(n), NEW w \in Worker, NEW m \in Index,
         Handler(w, m)
  PROVE  Moves(n)
<1>1. /\ LibTyped /\ copier \in [End -> [Index -> Copiers]] /\ worker \in [End -> [Worker -> Workers]]
      /\ stream \in [End -> [Index -> Streams]] /\ UNCHANGED <<conn, queue>>
      /\ worker["agent"][w].at = "handler" /\ worker["agent"][w].n = m
      /\ worker' = [worker EXCEPT !["agent"][w] = Idle]
  BY DEF StreamInv, LibTyped, AppTyped, Handler
<1>2. Dialing(m) /\ copier["agent"][m].out = "none"
  BY <1>1 DEF Dialing, Handling, StreamInv, Once, Pending
<1>3. Dialing(n)' => Dialing(n)
  <2>1. \A v \in Worker : worker'["agent"][v] = worker["agent"][v] \/ worker'["agent"][v] = Idle
    BY <1>1, Ends
  <2> QED BY <2>1 DEF Dialing, Handling, Idle
<1>4. \A d \in End : InQueues(d)' = InQueues(d)
  BY <1>1 DEF InQueues
<1>5. CASE UNCHANGED <<wire, stream, copier>>
  <2>1. Fewer(n)
    BY <1>1, <1>5 DEF Fewer, OnWire, InQueues
  <2> QED BY <1>1, <1>3, <1>5, <2>1, StillMoves
<1>6. CASE \E ok \in BOOLEAN :
             /\ SendReply(m, ok)
             /\ copier' = [copier EXCEPT !["agent"][m] = IF ok THEN Copying ELSE @]
  <2> DEFINE f == Frame("reply", Id(m), 0, 0, <<>>)
  <2>1. PICK ok \in BOOLEAN : /\ Sent("agent", f, ok)
                              /\ stream' = [stream EXCEPT !["agent"][m].replied = @ \/ ok]
                              /\ copier' = [copier EXCEPT !["agent"][m] = IF ok THEN Copying ELSE @]
    BY <1>6 DEF SendReply
  <2>2. f \in Frames /\ Plain(f, n)
    BY Naming DEF Frame, Frames, Kind, Plain, SynOf, FinOf, RstOf
  <2> HIDE DEF f
  <2>3. Fewer(n)
    BY <1>1, <1>4, <2>1, <2>2, SentFewer, Ends
  <2>4. Only("agent", m)
    BY <1>1, <2>1, Ends DEF Only
  <2>5. /\ stream'["agent"][m].known = stream["agent"][m].known
        /\ stream'["agent"][m].closed = stream["agent"][m].closed
    BY <1>1, <2>1, Ends DEF Streams
  <2>6. copier'["agent"][m].out \in {"copy", copier["agent"][m].out}
    <3>1. copier'["agent"][m] = IF ok THEN Copying ELSE copier["agent"][m]
      BY <1>1, <2>1, Ends
    <3> QED BY <3>1, Copies
  <2>7. n = m => EndMoves("agent", n)
    <3>1. ~ stream["agent"][m].closed
      BY <1>2, Ends DEF OrderInv, Conversation, Silent
    <3>2. n = m => stream["agent"][m].known \/ ~ conn["agent"].serving
      BY <1>2 DEF Standing, Entered
    <3> QED BY <1>1, <1>2, <2>5, <2>6, <3>1, <3>2 DEF EndMoves, OutMoves
  <2> QED BY <1>3, <2>3, <2>4, <2>7, OnlyMoves, Ends
<1> QED
  BY <1>5, <1>6 DEF Handler

-----------------------------------------------------------------------------
(* Steps of the workers and of Serve. *)

\* What a worker does with a frame.
LEMMA HandleMoves ==
  ASSUME StreamInv, OrderInv, UNCHANGED app, NEW n \in Index, Standing(n),
         NEW e \in End, NEW w \in Worker, Handle(e, w)
  PROVE  Moves(n)
<1> DEFINE f == Head(queue[e][w]).frame
<1>1. /\ LibTyped /\ Queues /\ conn \in [End -> Connections] /\ stream \in [End -> [Index -> Streams]]
      /\ worker \in [End -> [Worker -> Workers]] /\ UNCHANGED copier
      /\ queue[e][w] # <<>> /\ Popped(e, w)
  BY DEF StreamInv, OrderInv, LibTyped, Handle, app
<1>2. f \in InQueues(e) /\ f \in Frames /\ \A d \in End : InQueues(d)' \subseteq InQueues(d)
  BY <1>1, QueuePopped, PopMine
<1>3. ASSUME UNCHANGED wire PROVE Fewer(n)
  BY <1>2, <1>3 DEF Fewer, OnWire
<1>4. ASSUME UNCHANGED worker PROVE Dialing(n)' => Dialing(n)
  BY <1>4 DEF Dialing, Handling
<1>5. ASSUME NEW m, NEW at, NEW data, Wait(e, w, at, m, data)
      PROVE  Dialing(n)' => Dialing(n) \/ (e = "agent" /\ at = "handler" /\ n = m)
  <2>1. /\ \A v \in Worker : v # w \/ e # "agent" => worker'["agent"][v] = worker["agent"][v]
        /\ e = "agent" => worker'["agent"][w] = [at |-> at, n |-> m, data |-> data]
    BY <1>1, <1>5, Ends DEF Wait
  <2> QED BY <2>1 DEF Dialing, Handling
<1> HIDE DEF f
<1>6. CASE f.type = "ping" /\ HandlePing(e, f)
  <2>1. UNCHANGED <<worker, stream>> /\ \A d \in End : conn'[d].serving = conn[d].serving
                                                    /\ conn'[d].resets = conn[d].resets
    BY <1>1, <1>6 DEF HandlePing, Connections
  <2>2. CASE UNCHANGED wire
    BY <1>1, <1>3, <1>4, <2>1, <2>2, StillMoves, Ends
  <2>3. CASE \E ok \in BOOLEAN : Sent(e, f, ok)
    <3>1. Plain(f, n)
      BY <1>6 DEF Plain, SynOf, FinOf, RstOf
    <3>2. Fewer(n)
      BY <1>1, <1>2, <2>3, <3>1, SentFewer
    <3> QED BY <1>1, <1>4, <2>1, <3>2, StillMoves, Ends
  <2> QED BY <1>6, <2>2, <2>3 DEF HandlePing
<1>7. CASE f.type = "goaway" /\ HandleGoAway(e) /\ UNCHANGED wire
  <2>1. UNCHANGED <<worker, stream>> /\ \A d \in End : conn'[d].serving = conn[d].serving
                                                    /\ conn'[d].resets = conn[d].resets
    BY <1>1, <1>7 DEF HandleGoAway, Connections
  <2> QED BY <1>1, <1>3, <1>4, <1>7, <2>1, StillMoves, Ends
<1>8. ASSUME NEW m \in Index, f.type \notin {"ping", "goaway"}, m = IndexOf(f.id), UNCHANGED wire,
             \/ f.type = "syn" /\ HandleSyn(e, w, m)
             \/ f.type = "reply" /\ HandleReply(e, m)
             \/ f.type = "rst" /\ HandleReset(e, w, m)
             \/ f.type = "data" /\ HandleData(e, w, m, f)
      PROVE  Moves(n)
  <2>1. f.id = Id(m) /\ Of(f, m)
    BY <1>2, <1>8, OfStream DEF Of
  <2>2. Fewer(n) /\ UNCHANGED conn
    BY <1>3, <1>8 DEF HandleSyn, HandleReply, HandleReset, HandleData
  <2>3. Only(e, m)
    <3>1. \A d \in End, k \in Index : d # e \/ k # m => stream'[d][k] = stream[d][k]
      BY <1>1, <1>8 DEF HandleSyn, HandleReply, HandleReset, HandleData
    <3> QED BY <1>1, <2>2, <3>1 DEF Only
  <2>4. stream[e][m] \in Streams
    BY <1>1
  <2>5. CASE f.type = "syn" /\ HandleSyn(e, w, m)
    <3>1. UNCHANGED stream
      BY <2>5 DEF HandleSyn
    <3>2. n = m => EndMoves(e, n)
      BY <1>1, <2>2, <3>1, EndStill
    <3>3. Dialing(n)' => Dialing(n) \/ (InHand(n) /\ stream'["agent"][n].known)
      <4>1. e = "agent" /\ n = m => InHand(n)
        BY <1>2, <2>1, <2>5 DEF InHand, SynOf
      <4>2. CASE stream[e][m].known /\ Wait(e, w, "handler", m, <<>>)
        BY <1>5, <3>1, <4>1, <4>2
      <4>3. CASE UNCHANGED worker
        BY <1>4, <4>3
      <4> QED BY <2>5, <4>2, <4>3 DEF HandleSyn
    <3> QED BY <2>2, <2>3, <3>2, <3>3, OnlyMoves
  <2>6. CASE f.type = "reply" /\ HandleReply(e, m)
    <3>1. stream' = [stream EXCEPT ![e][m].replied = @ \/ stream[e][m].known] /\ UNCHANGED worker
      BY <2>6 DEF HandleReply
    <3>2. stream'[e][m].known = stream[e][m].known /\ stream'[e][m].closed = stream[e][m].closed
      BY <1>1, <3>1 DEF Streams
    <3>3. n = m => EndMoves(e, n)
      BY <1>1, <2>2, <3>2, EndStill
    <3> QED BY <1>4, <2>2, <2>3, <3>1, <3>3, OnlyMoves
  <2>7. CASE f.type = "rst" /\ HandleReset(e, w, m)
    <3>1. Dialing(n)' => Dialing(n)
      <4>1. UNCHANGED worker \/ Wait(e, w, "reset", m, <<>>)
        BY <2>7 DEF HandleReset
      <4> QED BY <1>4, <1>5, <4>1
    <3>2. n = m => e = "director" /\ Refusal(n)
      <4>1. Carries(Line(e, m), m, "rst")
        BY <1>1, <1>2, <2>1, <2>7, ComingLine DEF Coming
      <4>2. e = "director"
        BY <4>1, Ends DEF OrderInv, Conversation, Kinds
      <4>3. n = m => RstComes(n)
        BY <1>2, <2>1, <2>7, <4>2 DEF RstComes, RstOf, Coming
      <4> QED BY <4>2, <4>3 DEF Standing, Entered
    <3>3. \/ stream'[e][m] = stream[e][m]
          \/ stream'[e][m].known = FALSE /\ stream'[e][m].closed = TRUE
      <4> DEFINE reset == [stream[e][m] EXCEPT !.known = FALSE, !.closed = TRUE, !.replied = TRUE]
      <4>1. /\ reset.known = FALSE /\ reset.closed = TRUE
            /\ [reset EXCEPT !.finished = TRUE].known = FALSE
            /\ [reset EXCEPT !.finished = TRUE].closed = TRUE
        BY <2>4 DEF Streams
      <4>2. stream'[e][m] \in {stream[e][m], reset, [reset EXCEPT !.finished = TRUE]}
        BY <1>1, <2>7 DEF HandleReset
      <4> QED BY <4>1, <4>2
    <3>4. n = m => EndMoves(e, n)
      BY <1>1, <2>2, <3>2, <3>3 DEF EndMoves, OutMoves, Over, Refusal
    <3> QED BY <2>2, <2>3, <3>1, <3>4, OnlyMoves
  <2>8. CASE f.type = "data" /\ HandleData(e, w, m, f)
    <3>1. Dialing(n)' => Dialing(n)
      <4>1. UNCHANGED worker \/ Wait(e, w, "data", m, f.data)
        BY <2>8 DEF HandleData
      <4> QED BY <1>4, <1>5, <4>1
    <3>2. CASE UNCHANGED stream
      <4>1. n = m => EndMoves(e, n)
        BY <1>1, <2>2, <3>2, EndStill
      <4> QED BY <2>2, <2>3, <3>1, <4>1, OnlyMoves
    <3>3. CASE /\ stream[e][m].replied /\ f.flags = 1
               /\ stream' = [stream EXCEPT ![e][m] = RemoteFinished(stream[e][m])]
      <4>1. stream'[e][m].closed /\ (stream'[e][m].known => stream[e][m].known)
        <5> DEFINE s == stream[e][m]
        <5>1. RemoteFinished(s).closed = TRUE /\ RemoteFinished(s).known = (s.known /\ ~ s.finished)
          BY <2>4 DEF RemoteFinished, Streams
        <5>2. stream'[e][m] = RemoteFinished(s)
          BY <1>1, <3>3
        <5> HIDE DEF s
        <5>3. stream'[e][m].closed = TRUE /\ stream'[e][m].known = (s.known /\ ~ s.finished)
          BY <5>1, <5>2
        <5> QED BY <5>3 DEF s
      <4>2. n = m => Over(e, n)
        <5>1. n = m => FinComes(e, n)
          BY <1>2, <2>1, <2>8, <3>3 DEF FinComes, FinOf, Coming
        <5> QED BY <5>1 DEF Standing, Parted, Over
      <4>3. copier[e][m].out # "none"
        BY <3>3 DEF OrderInv, Conversation, Silent
      <4>4. n = m => EndMoves(e, n)
        BY <1>1, <2>2, <4>1, <4>2, <4>3 DEF EndMoves, OutMoves
      <4> QED BY <2>2, <2>3, <3>1, <4>4, OnlyMoves
    <3> QED BY <2>8, <3>2, <3>3 DEF HandleData
  <2> QED BY <1>8, <2>5, <2>6, <2>7, <2>8
<1>9. f.type \notin {"ping", "goaway"} => IndexOf(f.id) \in Index
  BY <1>2, OfStream
<1> QED
  BY <1>6, <1>7, <1>8, <1>9 DEF Handle, f

\* The SYN of a stream is read once.
LEMMA SynOnce ==
  ASSUME LibTyped, OrderInv, wire["agent"] # <<>>, wire' = [wire EXCEPT !["agent"] = Tail(@)],
         NEW n \in Index, SynOf(Read(Head(wire["agent"])), n)
  PROVE  ~ Unread(n)' /\ ~ InHand(n)
<1> DEFINE q == queue["agent"][Home(n)]
           w == wire["agent"]
           L == LineOf(q, w)
<1>1. /\ q \in Seq(Queued) /\ w \in Seq(Written) /\ w # <<>> /\ Line("agent", n) = L
      /\ wire'["agent"] = Tail(w)
  <2>1. Home(n) \in Worker
    BY Naming, Numbered DEF Home
  <2> QED BY <2>1, Ends DEF Line, LibTyped
<1>2. IntroFirst(L, n)
  BY <1>1 DEF OrderInv, Conversation, Kinds
<1>3. ASSUME NEW v \in Worker, NEW i \in DOMAIN queue["agent"][v], SynOf(queue["agent"][v][i].frame, n)
      PROVE  i \in DOMAIN q /\ SynOf(q[i].frame, n)
  <2>1. Of(queue["agent"][v][i].frame, n)
    BY <1>3 DEF SynOf, Of
  <2> QED BY <1>3, <2>1, Ends DEF OrderInv, Queues
<1> HIDE DEF q, w
<1>4. /\ Len(q) \in Nat /\ Len(w) \in Nat \ {0} /\ DOMAIN q = 1 .. Len(q) /\ DOMAIN L = 1 .. Len(q) + Len(w)
      /\ Head(w) = w[1] /\ DOMAIN Tail(w) = 1 .. Len(w) - 1
      /\ \A i \in 1 .. Len(w) - 1 : Tail(w)[i] = w[i + 1]
      /\ \A i \in 1 .. Len(q) : L[i] = q[i].frame
      /\ \A i \in Len(q) + 1 .. Len(q) + Len(w) : L[i] = Read(w[i - Len(q)])
  BY <1>1, Taken, LenProperties, LineType
<1>5. \A i \in 1 .. Len(w) : Len(q) + i \in DOMAIN L /\ L[Len(q) + i] = Read(w[i])
  <2> TAKE i \in 1 .. Len(w)
  <2>1. Len(q) + i \in Len(q) + 1 .. Len(q) + Len(w) /\ (Len(q) + i) - Len(q) = i /\ Len(q) + i \in DOMAIN L
    BY <1>4
  <2> QED BY <1>4, <2>1
<1> HIDE DEF L
<1>6. \A i, j \in DOMAIN L : SynOf(L[i], n) /\ SynOf(L[j], n) => i <= j
  BY <1>2 DEF IntroFirst, IntroAt, Mine, SynOf, Of
<1>7. Len(q) + 1 \in DOMAIN L /\ SynOf(L[Len(q) + 1], n)
  <2>1. 1 \in 1 .. Len(w)
    BY <1>4
  <2> QED BY <1>4, <1>5, <2>1 DEF w
<1>8. ASSUME NEW i \in DOMAIN q, SynOf(q[i].frame, n) PROVE FALSE
  <2>1. i \in DOMAIN L /\ L[i] = q[i].frame /\ i \in Nat /\ i <= Len(q)
    BY <1>4, <1>8
  <2> QED BY <1>4, <1>6, <1>7, <1>8, <2>1
<1>9. ASSUME NEW i \in DOMAIN Tail(w), SynOf(Read(Tail(w)[i]), n) PROVE FALSE
  <2>1. i \in 1 .. Len(w) - 1 /\ i + 1 \in 1 .. Len(w) /\ Tail(w)[i] = w[i + 1]
    BY <1>4
  <2>2. Len(q) + (i + 1) \in DOMAIN L /\ SynOf(L[Len(q) + (i + 1)], n)
    BY <1>5, <1>9, <2>1
  <2>3. Len(q) + (i + 1) <= Len(q) + 1
    BY <1>6, <1>7, <2>2
  <2> QED BY <1>4, <2>1, <2>3
<1>10. ~ InHand(n)
  <2>1. ~ \E v \in Worker : \E i \in DOMAIN queue["agent"][v] : SynOf(queue["agent"][v][i].frame, n)
    BY <1>3, <1>8
  <2> QED BY <2>1 DEF InHand, InQueues
<1>11. ~ Unread(n)'
  <2> SUFFICES ASSUME Unread(n)' PROVE FALSE
    OBVIOUS
  <2>1. PICK f \in OnWire("agent")' : SynOf(f, n)
    BY DEF Unread, SynOf, Id
  <2>2. PICK i \in DOMAIN Tail(w) : f = Read(Tail(w)[i])
    BY <1>1, <2>1 DEF OnWire
  <2> QED BY <1>9, <2>1, <2>2
<1> QED
  BY <1>10, <1>11

\* What Serve does with a frame.
LEMMA ServeMoves ==
  ASSUME StreamInv, OrderInv, UNCHANGED app, NEW n \in Index, Standing(n),
         NEW e \in End, ServeFrame(e)
  PROVE  Moves(n)
<1> DEFINE f == Read(Head(wire[e]))
<1>1. /\ LibTyped /\ Queues /\ conn \in [End -> Connections] /\ stream \in [End -> [Index -> Streams]]
      /\ UNCHANGED <<worker, copier>> /\ wire[e] # <<>>
      /\ wire' = [wire EXCEPT ![e] = Tail(@)] /\ Dispatched(e, f)
  BY DEF StreamInv, OrderInv, LibTyped, ServeFrame, app
<1>2. f \in Frames /\ f \in OnWire(e) /\ \A d \in End : OnWire(d)' \subseteq OnWire(d)
  BY <1>1, WireRead, ReadFrame
<1>3. Dialing(n)' <=> Dialing(n)
  BY <1>1 DEF Dialing, Handling
<1> HIDE DEF f
<1>4. ASSUME NEW w \in Worker, NEW p \in Nat, Push(e, w, f, p), ~ SynOf(f, n) PROVE Fewer(n)
  <2>1. \A d \in End : \A x \in InQueues(d)' : x \in InQueues(d) \/ (x \in OnWire(d) /\ ~ SynOf(x, n))
    BY <1>1, <1>2, <1>4, QueuePushed
  <2> QED BY <1>2, <2>1 DEF Fewer
<1>5. ASSUME UNCHANGED queue PROVE Fewer(n)
  BY <1>2, <1>5 DEF Fewer, InQueues
<1>6. /\ f.id \in Nat /\ f.id % FRAME_WORKERS \in Worker
      /\ f.type \notin {"ping", "goaway"} =>
           IndexOf(f.id) \in Index /\ Of(f, IndexOf(f.id)) /\ f.id = Id(IndexOf(f.id))
  BY <1>2, OfStream, Numbered DEF Frames, Of
<1>7. CASE f.type \in {"reply", "data", "rst"}
  <2> DEFINE p == Priority(e, IndexOf(f.id))
  <2>1. Push(e, f.id % FRAME_WORKERS, f, p) /\ UNCHANGED <<conn, stream>> /\ p \in Nat
    BY <1>1, <1>7 DEF Dispatched, Priority
  <2> HIDE DEF p
  <2>2. Fewer(n)
    BY <1>4, <1>6, <1>7, <2>1 DEF SynOf
  <2> QED BY <1>1, <1>3, <2>1, <2>2, StillMoves
<1>8. CASE f.type \in {"ping", "goaway"}
  <2> DEFINE w == conn[e].robin
  <2>1. /\ Push(e, w, f, 0) /\ conn' = [conn EXCEPT ![e].robin = (@ + 1) % FRAME_WORKERS]
        /\ UNCHANGED stream /\ w \in Worker
    BY <1>1, <1>8 DEF Dispatched, Connections
  <2>2. \A d \in End : conn'[d].serving = conn[d].serving /\ conn'[d].resets = conn[d].resets
    BY <1>1, <2>1 DEF Connections
  <2> HIDE DEF w
  <2>3. Fewer(n)
    BY <1>4, <1>8, <2>1 DEF SynOf
  <2> QED BY <1>1, <1>3, <2>1, <2>2, <2>3, StillMoves, Ends
<1>9. CASE f.type = "syn"
  <2>1. PICK m \in Index : m = IndexOf(f.id)
    BY <1>6, <1>9
  <2>2. Of(f, m) /\ SynOf(f, m) /\ f.id = Id(m) /\ (n # m => ~ SynOf(f, n) /\ Id(n) # f.id)
    BY <1>6, <1>9, <2>1, Naming DEF SynOf
  <2>3. e = "agent"
    <3>1. Carries(Line(e, m), m, "syn")
      BY <1>1, <1>2, <1>9, <2>2, ComingLine DEF Coming
    <3> QED BY <3>1, Ends DEF OrderInv, Conversation, Kinds
  <2>4. Unread(m) /\ ~ Unread(m)' /\ ~ InHand(m)
    <3>1. Unread(m)
      BY <1>2, <2>2, <2>3 DEF Unread
    <3> QED BY <1>1, <2>2, <2>3, <3>1, SynOnce DEF f
  <2>5. /\ ~ Dialing(m) /\ copier["agent"][m].out = "none" /\ ~ stream["agent"][m].closed
        /\ copier["director"][m].out \notin {"none", "syn"}
    <3>1. Carries(Line("agent", m), m, "syn")
      BY <1>1, <2>4, SynLine
    <3>2. ~ Dialing(m) /\ copier["agent"][m].out = "none"
      BY <3>1 DEF OrderInv, Conversation, Unhandled, Introduced
    <3>3. copier["director"][m].out \notin {"none", "syn"}
      BY <3>1 DEF OrderInv, Conversation, Before, Carries
    <3> QED BY <3>2, <3>3, Ends DEF OrderInv, Conversation, Silent
  <2>6. CASE Accepted(e, f)
    <3>1. /\ Push(e, f.id % FRAME_WORKERS, f, 0) /\ conn' = [conn EXCEPT ![e].received = f.id + 2]
          /\ stream' = [stream EXCEPT ![e][m] = [NoStream EXCEPT !.known = TRUE]]
      BY <2>1, <2>6 DEF Accepted
    <3>2. Only(e, m)
      BY <1>1, <3>1 DEF Only, Connections
    <3>3. stream'[e][m].known /\ ~ stream'[e][m].closed
      BY <1>1, <3>1 DEF NoStream
    <3>4. CASE n # m
      <4>1. Fewer(n)
        BY <1>4, <1>6, <2>2, <3>1, <3>4
      <4> QED BY <1>3, <3>2, <3>4, <4>1, OnlyMoves
    <3>5. CASE n = m
      <4>1. EndMoves(e, n)
        BY <1>1, <2>3, <2>4, <2>5, <3>2, <3>3, <3>5 DEF EndMoves, OutMoves, Only
      <4>2. \A d \in End : EndMoves(d, n)
        BY <4>1, <3>2, EndStill DEF Only
      <4>3. \A d \in End : \A x \in Coming(d)' : x \in Coming(d)
        BY <1>1, <1>2, <1>6, <3>1, QueuePushed DEF Coming
      <4>4. (\A d \in End : FinComes(d, n)' => FinComes(d, n)) /\ (RstComes(n)' => RstComes(n))
        BY <4>3, Ends DEF FinComes, RstComes, FinOf, RstOf, Id
      <4> QED BY <1>3, <2>3, <2>4, <3>2, <3>3, <3>5, <4>2, <4>4, Ends DEF Moves, Only
    <3> QED BY <3>4, <3>5
  <2>7. CASE UNCHANGED <<conn, queue, stream>>
    BY <1>1, <1>3, <1>5, <2>7, StillMoves
  <2>8. CASE conn' = [conn EXCEPT ![e].resets = @ \cup {f.id}] /\ UNCHANGED <<queue, stream>>
    <3>1. /\ \A d \in End : conn'[d].serving = conn[d].serving
          /\ n # m /\ Id(n) \in conn'["agent"].resets => Id(n) \in conn["agent"].resets
      BY <1>1, <2>2, <2>8, Ends DEF Connections
    <3>2. n = m => Refusal(n)'
      <4> SUFFICES ASSUME n = m PROVE Refusal(n)'
        OBVIOUS
      <4>1. ~ InHand(n)'
        BY <2>4, <2>8 DEF InHand, InQueues, SynOf, Id
      <4>2. ~ stream["agent"][n].known
        BY <2>4 DEF Standing, Entered
      <4> QED BY <1>1, <1>3, <2>4, <2>5, <2>8, <4>1, <4>2 DEF Refusal
    <3>3. \A d \in End : EndMoves(d, n)
      BY <1>1, <2>8, <3>1, EndStill
    <3> QED BY <1>3, <1>5, <2>8, <3>1, <3>2, <3>3, FewerMoves
  <2> QED BY <1>1, <1>9, <2>6, <2>7, <2>8 DEF Dispatched, Syn
<1> QED
  BY <1>2, <1>7, <1>8, <1>9 DEF Frames, Kind

-----------------------------------------------------------------------------
(* The theorems. *)

\* At the start no stream is open.
LEMMA PartInit == SInit => PartInv
<1> SUFFICES ASSUME SInit, NEW n \in Index PROVE Standing(n)
  BY DEF PartInv
<1>1. /\ \A d \in End : /\ wire[d] = <<>> /\ \A w \in Worker : queue[d][w] = <<>> /\ worker[d][w] = Idle
                        /\ conn[d] = NewConnection /\ stream[d][n] = NoStream /\ copier[d][n] = NoCopier
      /\ NewConnection.resets = {} /\ NoStream.known = FALSE /\ NoStream.closed = FALSE
      /\ NoCopier.out = "none"
  BY DEF SInit, LibInit, NewConnection, NoStream, NoCopier
<1>2. \A d \in End : Coming(d) = {}
  BY <1>1 DEF Coming, OnWire, InQueues
<1>3. ~ Unread(n) /\ ~ InHand(n) /\ ~ RstComes(n) /\ \A d \in End : ~ FinComes(d, n)
  BY <1>2, Ends DEF Unread, InHand, RstComes, FinComes, Coming
<1>4. ~ Dialing(n)
  BY <1>1, Ends DEF Dialing, Handling, Idle
<1>5. \A d \in End : conn[d].resets = {} /\ ~ stream[d][n].known /\ ~ stream[d][n].closed
                     /\ copier[d][n].out = "none"
  BY <1>1
<1> QED
  BY <1>3, <1>4, <1>5, Ends DEF Standing, Entered, Parted, Carried

\* What any step but the end of a program does to a stream.
LEMMA StepMoves ==
  ASSUME StreamInv, OrderInv, [SNext]_svars, NEW n \in Index, Standing(n)
  PROVE  Moves(n) \/ \E e \in End : Dies(e)
<1>1. CASE Lib
  <2>1. UNCHANGED app /\ \E e \in End : \/ Serve(e) \/ Resets(e) \/ Goes(e)
                                        \/ \E w \in Worker : Handle(e, w)
    BY <1>1 DEF Lib
  <2> QED BY <2>1, ServeMoves, QuietMoves, HandleMoves DEF Serve
<1>2. CASE Session
  <2>1. "agent" \in End /\ n \in Index
    BY Ends
  <2> QED BY <1>2, <2>1, ProgramMoves
<1>3. CASE \E w \in Worker, m \in Index : Handler(w, m)
  BY <1>3, HandlerMoves
<1>4. CASE \E m \in Index : Forwarded(m) \/ Forward(m)
  BY <1>4, ForwardedMoves, ForwardMoves
<1>5. CASE \E e \in End, m \in Index : Out(e, m) \/ In(e, m) \/ CopyOut(e, m) \/ Gone(e, m)
  BY <1>5, ProgramMoves, CloseOutMoves, FinishOutMoves DEF Out
<1>6. CASE Switched
  BY <1>6, QuietMoves, Ends DEF Switched
<1>7. CASE UNCHANGED svars
  <2>1. UNCHANGED <<wire, queue, worker, stream, conn, copier>>
    BY <1>7 DEF svars
  <2>2. Fewer(n) /\ (Dialing(n)' => Dialing(n))
    BY <2>1 DEF Fewer, OnWire, InQueues, Dialing, Handling
  <2> QED BY <2>1, <2>2, StillMoves
<1> QED
  BY <1>1, <1>2, <1>3, <1>4, <1>5, <1>6, <1>7 DEF SNext, Program, Environment

\* Only the end of a program loses the transport.
LEMMA LostStep ==
  ASSUME [SNext]_svars
  PROVE  lost' = lost \/ (lost' /\ \E e \in End : Dies(e))
<1>1. CASE Lib \/ Switched
  BY <1>1 DEF Lib, Switched, app
<1>2. CASE Session \/ \E w \in Worker, m \in Index : Handler(w, m)
  BY <1>2 DEF Session, Ping, Pinged, Handler
<1>3. CASE \E m \in Index : Forwarded(m) \/ Forward(m)
  BY <1>3 DEF Forwarded, Forward
<1>4. CASE \E e \in End, m \in Index : Out(e, m) \/ In(e, m) \/ CopyOut(e, m) \/ Gone(e, m)
  <2>1. PICK e \in End, m \in Index : Out(e, m) \/ In(e, m) \/ CopyOut(e, m) \/ Gone(e, m)
    BY <1>4
  <2>2. CASE Out(e, m)
    BY <2>2 DEF Out, EndOut, CloseOut, FinishOut
  <2>3. CASE In(e, m)
    BY <2>3 DEF In, ReadIn, WriteIn
  <2> QED BY <2>1, <2>2, <2>3 DEF CopyOut, Gone
<1>5. CASE \E e \in End : Dies(e)
  BY <1>5 DEF Dies
<1>6. CASE UNCHANGED svars
  BY <1>6 DEF svars
<1> QED
  BY <1>1, <1>2, <1>3, <1>4, <1>5, <1>6 DEF SNext, Program, Environment

\* Only shutdown closes the transport.
LEMMA ShutStep ==
  ASSUME LibTyped, [SNext]_svars, NEW e \in End, conn[e].shut = "waiting", conn'[e].shut = "closed"
  PROVE  Shutdown(e)
<1>1. conn \in [End -> Connections]
  BY DEF LibTyped
<1>2. CASE Lib
  <2>1. PICK d \in End : \/ Serve(d) \/ Resets(d) \/ Goes(d)
                         \/ \E w \in Worker : Handle(d, w)
    BY <1>2 DEF Lib
  <2>2. CASE Serve(d)
    <3>1. CASE ServeEnd(d)
      BY <1>1, <3>1 DEF ServeEnd, Connections
    <3>2. CASE ServeFrame(d)
      <4>1. PICK x, y, z : \/ UNCHANGED conn \/ conn' = [conn EXCEPT ![d].received = x]
                           \/ conn' = [conn EXCEPT ![d].resets = y]
                           \/ conn' = [conn EXCEPT ![d].robin = z]
        BY <3>2 DEF ServeFrame, Dispatched, Syn, Accepted
      <4> QED BY <1>1, <4>1 DEF Connections
    <3> QED BY <2>2, <3>1, <3>2 DEF Serve
  <2>3. CASE Resets(d)
    BY <1>1, <2>3 DEF Resets, SendReset, Connections
  <2>4. CASE SendGoAway(d)
    BY <1>1, <2>4 DEF SendGoAway, Connections
  <2>5. CASE Shutdown(d)
    BY <1>1, <2>5 DEF Shutdown, Connections
  <2>6. CASE \E w \in Worker : Handle(d, w)
    <3>1. \/ UNCHANGED conn \/ conn' = [conn EXCEPT ![d].pinged = TRUE]
          \/ conn' = [conn EXCEPT ![d].goneAway = TRUE, ![d].shut = "waiting"]
      BY <2>6 DEF Handle, HandlePing, HandleSyn, HandleReply, HandleReset, HandleData, HandleGoAway
    <3> QED BY <1>1, <3>1 DEF Connections
  <2> QED BY <2>1, <2>2, <2>3, <2>4, <2>5, <2>6 DEF Goes
<1>3. CASE Switched
  BY <1>1, <1>3 DEF Switched, CloseConn, Connections
<1>4. CASE Session \/ (\E w \in Worker, m \in Index : Handler(w, m)) \/ \E m \in Index : Forwarded(m)
  BY <1>4 DEF Session, Ping, Pinged, Handler, Forwarded, lib
<1>5. CASE \E m \in Index : Forward(m)
  BY <1>1, <1>5 DEF Forward, CreateStream, NextStreamId, Connections
<1>6. CASE \E d \in End, m \in Index : Out(d, m) \/ In(d, m) \/ CopyOut(d, m) \/ Gone(d, m)
  <2>1. PICK d \in End, m \in Index : Out(d, m) \/ In(d, m) \/ CopyOut(d, m) \/ Gone(d, m)
    BY <1>6
  <2>2. CASE Out(d, m)
    BY <2>2 DEF Out, EndOut, CloseOut, FinishOut, lib
  <2>3. CASE In(d, m)
    BY <2>3 DEF In, ReadIn, WriteIn, lib
  <2> QED BY <2>1, <2>2, <2>3 DEF CopyOut, Gone, lib
<1>7. CASE \E d \in End : Dies(d)
  <2>1. PICK d \in End : conn' = [conn EXCEPT ![d] = [NewConnection EXCEPT !.open = FALSE, !.serving = FALSE]]
    BY <1>7 DEF Dies
  <2>2. [NewConnection EXCEPT !.open = FALSE, !.serving = FALSE].shut = "no"
    BY DEF NewConnection
  <2> QED BY <1>1, <2>1, <2>2
<1>8. CASE UNCHANGED svars
  BY <1>8 DEF svars
<1> QED
  BY <1>2, <1>3, <1>4, <1>5, <1>6, <1>7, <1>8 DEF SNext, Program, Environment

\* The third inductive invariant: an end forgets a stream, while it serves, only when the
\* other end has closed it or has refused it.
THEOREM PartInductive == SSpec => []PartInv
<1>1. StreamInv /\ OrderInv /\ PartInv /\ [SNext]_svars => PartInv'
  <2> SUFFICES ASSUME StreamInv, OrderInv, PartInv, [SNext]_svars, ~ lost', NEW n \in Index
               PROVE  Standing(n)'
    BY DEF PartInv, Index
  <2>1. Standing(n) /\ ~ \E e \in End : Dies(e)
    BY LostStep DEF PartInv, Dies
  <2> QED BY <2>1, StepMoves, MovesKept
<1> QED
  BY <1>1, PartInit, StreamInductive, OrderInductive, PTL DEF SSpec

\* Shutdown closes the transport when no stream is left: neither end loses a stream that
\* both carry, although their tables change at different times.
THEOREM NoStreamCut == SSpec => CloseSafe
<1>1. StreamInv /\ PartInv /\ [SNext]_svars =>
        \A e \in End : (~ lost /\ conn[e].shut = "waiting" /\ conn[e].serving /\ conn'[e].shut = "closed")
                       => \A n \in Index : Carried(n) => \A o \in End : stream[o][n].closed
  <2> SUFFICES ASSUME StreamInv, PartInv, [SNext]_svars, NEW e \in End, ~ lost, conn[e].shut = "waiting",
                      conn[e].serving, conn'[e].shut = "closed", NEW n \in Index, Carried(n)
               PROVE  \A o \in End : stream[o][n].closed
    OBVIOUS
  <2>1. ~ stream[e][n].known
    BY ShutStep DEF StreamInv, Shutdown, Known
  <2>2. Standing(n)
    BY DEF PartInv
  <2>3. copier[e][n].out # "none"
    <3>1. CASE e = "agent"
      BY <2>1, <3>1 DEF Carried
    <3>2. CASE e = "director"
      BY <2>2, <3>2 DEF Standing, Entered
    <3> QED BY <3>1, <3>2, Ends
  <2>4. stream[e][n].closed /\ Over(e, n)
    BY <2>1, <2>2, <2>3 DEF Standing, Parted
  <2>5. ~ Refusal(n)
    BY DEF Refusal, Carried
  <2> QED BY <2>4, <2>5, Ends DEF Over, Ended
<1> QED
  BY <1>1, StreamInductive, PartInductive, PTL DEF SSpec, CloseSafe
=============================================================================
