------------------------------ MODULE Tunnels ------------------------------
(***************************************************************************)
(* The native engine with tunnels (-tunnels N, N > 0): Scheduler, whose    *)
(* forwarders open a stream on one of the N spdy connections a backend     *)
(* keeps to the stream server of its host, and fall back to a TCP dial.    *)
(*                                                                         *)
(* Three kinds of goroutines share the slots Backend.tunnel: the scheduler *)
(* (newTunnelChan, spdyFailChan, SpdyCheckStreamId), the forwarders        *)
(* (ForwarderNewConnection, by compare-and-swap) and the creators          *)
(* (CreateSpdySession, which hand a session over on newTunnelChan).        *)
(*                                                                         *)
(* Abstracted: the slot a forwarder tries first (count modulo N) and the   *)
(* five seconds between two checks of SpdyCheckStreamId are choices.  A    *)
(* connection breaks at any time, also when its shutdown is complete.      *)
(***************************************************************************)
EXTENDS Scheduler

CONSTANTS
  TunnelsPerBackend,  \* flag -tunnels
  MaxConn,            \* bound: spdy connections made in one behaviour
  MaxStream,          \* stream ids of one connection
  ThreshStream,       \* ThreshStreamId: a new connection is made beyond it
  ChanCap,            \* MaxBackends: capacity of newTunnelChan, spdyFailChan
  NilSession          \* may a stream server accept and then fail the ping

ASSUME TunnelsAssumption ==
  /\ TunnelsPerBackend \in Nat \ {0}
  /\ MaxConn \in Nat /\ MaxStream \in Nat /\ ThreshStream \in Nat
  /\ ChanCap \in Nat \ {0}
  /\ NilSession \in BOOLEAN

Slot == Backend \X (0 .. TunnelsPerBackend - 1)   \* a backend and its connindex
Conn == 1 .. MaxConn                              \* connections as they are made

VARIABLES
  conn,        \* tunnel[i].conn of a backend, Nil when there is none
  switching,   \* the slots whose tunnel[i].switching is set
  creators,    \* number of CreateSpdySession goroutines at work for each slot
  ready,       \* newTunnelChan: the slot and the session, Nil for a nil one
  fail,        \* spdyFailChan
  made,        \* connections made so far
  streams,     \* stream ids used on each connection
  gone,        \* connections the balancer called Close on
  broken,      \* connections whose transport is dead
  fwd,         \* locals of each forwarder in ForwarderNewConnection
  panicked     \* history: the slots whose last session was nil

tunnelVars == <<conn, switching, creators, ready, fail, made, streams,
                gone, broken, fwd, panicked>>
tvars == <<vars, tunnelVars>>

\* step: "begin" (not yet looping), "pick" (reads the next slot of todo),
\* "open" (holds connection c), "report" (must send on failChan), "dial".
Forwarder(step, todo, c) == [step |-> step, todo |-> todo, conn |-> c]
Idle == Forwarder("begin", <<>>, Nil)

TInit ==
  /\ Init
  /\ conn = [s \in Slot |-> Nil]
  /\ switching = {}
  /\ creators = [s \in Slot |-> 0]
  /\ ready = <<>>
  /\ fail = <<>>
  /\ made = 0
  /\ streams = [c \in Conn |-> 0]
  /\ gone = {}
  /\ broken = {}
  /\ fwd = [r \in Req |-> Idle]
  /\ panicked = {}

SlotsOf(b) == {s \in Slot : s[1] = b}

\* go CreateSpdySession for every slot of T.
Spawn(T) == creators' = [s \in Slot |-> IF s \in T THEN creators[s] + 1 ELSE creators[s]]

-----------------------------------------------------------------------------
(* The scheduler goroutine. *)

\* The slots of b that SpdyCheckStreamId replaces before their ids run out, when
\* the slots hold cn and those in sw are being switched.
AlmostUsedUp_NoFlag(b, cn, sw) ==
  {s \in SlotsOf(b) : cn[s] # Nil /\ streams[cn[s]] > ThreshStream}
AlmostUsedUp(b, cn, sw) ==
  {s \in SlotsOf(b) \ sw : cn[s] # Nil /\ streams[cn[s]] > ThreshStream}

\* SpdyCheckStreamId, which dispatch calls for each backend it places a request
\* on: at most one of these calls is not within five seconds of another.
CheckStreamId(cn, sw) ==
  LET placed == {r \in Req : phase[r] # "connecting" /\ phase'[r] = "connecting"}
  IN \E T \in {{}} \cup {AlmostUsedUp(backend'[r], cn, sw) : r \in placed} :
       switching' = sw \cup T /\ Spawn(T)

TJob(r) ==
  /\ Job(r)
  /\ CheckStreamId(conn, switching)
  /\ UNCHANGED <<conn, ready, fail, made, streams, gone, broken, fwd, panicked>>

TFinish ==
  /\ Finish
  /\ CheckStreamId(conn, switching)
  /\ UNCHANGED <<conn, ready, fail, made, streams, gone, broken, fwd, panicked>>

\* case backends := <-status: a new backend is not added before its first
\* session is ready.
TStatus(S) ==
  /\ allocated + Cardinality(Fresh(S)) <= MaxObjects
  /\ allocated' = allocated + Cardinality(Fresh(S))
  /\ \E f \in NewObjects(Fresh(S)) :
       LET new == {f[a] : a \in Fresh(S)} IN
       /\ address' = [b \in Backend |-> IF b \in new
                                        THEN CHOOSE a \in Fresh(S) : f[a] = b
                                        ELSE address[b]]
       /\ Spawn(UNION {SlotsOf(b) : b \in new})
  /\ backends' = [a \in Addr |-> IF a \in Known(S) THEN backends[a] ELSE Nil]
  /\ pool' = Retained(S)
  /\ UNCHANGED <<ongoing, pending, done, phase, backend, err, closed>>
  /\ UNCHANGED <<conn, switching, ready, fail, made, streams, gone, broken, fwd, panicked>>

\* case session := <-s.spdyFailChan
FailMsg_Always ==
  /\ fail # <<>>
  /\ fail' = Tail(fail)
  /\ switching' = switching \cup {Head(fail)}
  /\ Spawn({Head(fail)})
  /\ UNCHANGED <<vars, conn, ready, made, streams, gone, broken, fwd, panicked>>
FailMsg ==
  /\ fail # <<>>
  /\ fail' = Tail(fail)
  /\ LET T == {Head(fail)} \ switching
     IN switching' = switching \cup T /\ Spawn(T)
  /\ UNCHANGED <<vars, conn, ready, made, streams, gone, broken, fwd, panicked>>

\* dispatch of every request of s.pending, in order, with the heap P: placed[k]
\* is the backend that is on top for the k-th.
Load_NotCounted(placed, k, b) == ongoing[b]
Load(placed, k, b) ==
  LET n == ongoing[b] + Cardinality({j \in 1 .. k - 1 : placed[j] = b})
  IN IF n > MaxForwardersPerBackend THEN MaxForwardersPerBackend ELSE n

\* s.pending = s.pending[0:0]
Drained_Kept == pending
Drained == <<>>

Drain(P) ==
  \E placed \in [DOMAIN pending -> P] :
    LET load(k) == [b \in Backend |-> Load(placed, k, b)]
        refused == {pending[k] : k \in {j \in DOMAIN pending : Full(placed[j], load(j))}}
        at(r) == placed[CHOOSE k \in DOMAIN pending : pending[k] = r]
        waiting == {pending[k] : k \in DOMAIN pending}
    IN /\ \A k \in DOMAIN pending : placed[k] \in HeapTop(P, load(k))
       /\ phase' = [r \in Req |-> CASE r \in refused -> "refused"
                                    [] r \in waiting \ refused -> "connecting"
                                    [] OTHER -> phase[r]]
       /\ backend' = [r \in Req |-> IF r \in waiting \ refused THEN at(r)
                                                               ELSE backend[r]]
       /\ closed' = closed \cup refused
       /\ ongoing' = load(Len(pending) + 1)
       /\ pending' = Drained

\* case session := <-s.newTunnelChan, with a session: SwitchSpdyConn, and
\* AddBackend when the address has no backend.
Closed_Leak(s) == {}
Closed(s) == {conn[s]} \ {Nil}

\* The address of b is not in s.backends.
Unknown_Any(b) == TRUE
Unknown(b) == backends[address[b]] = Nil

SessionMsg ==
  /\ ready # <<>> /\ Head(ready).conn # Nil
  /\ ready' = Tail(ready)
  /\ LET s == Head(ready).slot
         b == s[1]
     IN /\ conn' = [conn EXCEPT ![s] = Head(ready).conn]
        /\ panicked' = panicked \ {s}
        /\ gone' = gone \cup Closed(s)
        /\ \/ /\ ~ Unknown(b)
              /\ UNCHANGED <<backends, pool, pending, phase, backend, ongoing, closed>>
           \/ /\ Unknown(b)
              /\ backends' = [backends EXCEPT ![address[b]] = b]
              /\ pool' = pool \cup {b}
              /\ Drain(pool')
        /\ CheckStreamId(conn', switching \ {s})
  /\ UNCHANGED <<allocated, address, done, err, fail, made, streams, broken, fwd>>

\* The same case with a nil session: SwitchSpdyConn closes the old connection
\* and panics on to.conn; Schedule recovers, and the rest of the case is lost.
NilSessionMsg ==
  /\ ready # <<>> /\ Head(ready).conn = Nil
  /\ ready' = Tail(ready)
  /\ gone' = gone \cup Closed(Head(ready).slot)
  /\ panicked' = panicked \cup {Head(ready).slot}
  /\ UNCHANGED <<vars, conn, switching, creators, fail, made, streams, broken, fwd>>

-----------------------------------------------------------------------------
(* The creator goroutines and the connections. *)

\* CreateSpdySession dials until it has a session for slot s, and sends it.
SessionUp(s) ==
  /\ creators[s] > 0 /\ Len(ready) < ChanCap /\ made < MaxConn
  /\ creators' = [creators EXCEPT ![s] = @ - 1]
  /\ made' = made + 1
  /\ ready' = Append(ready, [slot |-> s, conn |-> made'])
  /\ UNCHANGED <<vars, conn, switching, fail, streams, gone, broken, fwd, panicked>>

\* NewStreamConn returns no error and no session: NewConnTunnel could not ping.
SessionNil(s) ==
  /\ NilSession
  /\ creators[s] > 0 /\ Len(ready) < ChanCap
  /\ creators' = [creators EXCEPT ![s] = @ - 1]
  /\ ready' = Append(ready, [slot |-> s, conn |-> Nil])
  /\ UNCHANGED <<vars, conn, switching, fail, made, streams, gone, broken, fwd, panicked>>

\* NewStreamConn could not dial: the creator sleeps a second and tries again.
SessionRetry(s) == creators[s] > 0 /\ UNCHANGED tvars

\* The transport of c dies, or its shutdown after Close is complete.
Break(c) ==
  /\ c \in (1 .. made) \ broken
  /\ broken' = broken \cup {c}
  /\ UNCHANGED <<vars, conn, switching, creators, ready, fail, made, streams, gone, fwd, panicked>>

-----------------------------------------------------------------------------
(* The forwarder of request r. *)

SlotAt(r, i) == <<backend[r], i>>
Rotation(k) == [i \in 1 .. TunnelsPerBackend |-> (k + i - 1) % TunnelsPerBackend]

Move(r, f) == fwd' = [fwd EXCEPT ![r] = f]
NextSlot(r) == Forwarder("pick", Tail(fwd[r].todo), Nil)

\* The loop starts at slot count % tunnels.
Begin(r) ==
  /\ phase[r] = "connecting" /\ fwd[r].step = "begin"
  /\ \E k \in 0 .. TunnelsPerBackend - 1 : Move(r, Forwarder("pick", Rotation(k), Nil))
  /\ UNCHANGED <<vars, conn, switching, creators, ready, fail, made, streams, gone, broken, panicked>>

\* spdyconn := b.tunnel[index].conn, or the loop is over without a stream.
Pick(r) ==
  /\ fwd[r].step = "pick"
  /\ LET todo == fwd[r].todo IN
     \/ todo = <<>> /\ Move(r, Forwarder("dial", <<>>, Nil))
     \/ /\ todo # <<>>
        /\ LET c == conn[SlotAt(r, Head(todo))]
           IN Move(r, IF c = Nil THEN NextSlot(r) ELSE Forwarder("open", todo, c))
  /\ UNCHANGED <<vars, conn, switching, creators, ready, fail, made, streams, gone, broken, panicked>>

\* CreateStream has an id left and can write.
HasStream_AnyId(c) == c \notin broken
HasStream(c) == c \notin broken /\ streams[c] < MaxStream

\* CreateStream succeeds: it looks at the ids and the transport, not at whether
\* the connection was closed meanwhile.
OpenOk(r) ==
  /\ fwd[r].step = "open"
  /\ LET c == fwd[r].conn
     IN /\ HasStream(c)
        /\ streams' = [streams EXCEPT ![c] = @ + 1]
  /\ phase' = [phase EXCEPT ![r] = "copying"]
  /\ Move(r, Idle)
  /\ UNCHANGED <<allocated, address, backends, pool, ongoing, pending, done,
                 backend, err, closed>>
  /\ UNCHANGED <<conn, switching, creators, ready, fail, made, gone, broken, panicked>>

\* CreateStream fails.  The forwarder whose compare-and-swap takes the
\* connection off the slot closes it and must report it; CreateStream would
\* fail again, so its failure and the swap are one step.
OpenFail_NoReport(r) ==
  /\ fwd[r].step = "open"
  /\ LET c == fwd[r].conn
         s == SlotAt(r, Head(fwd[r].todo))
     IN /\ ~ HasStream(c)
        /\ IF conn[s] = c
           THEN conn' = [conn EXCEPT ![s] = Nil] /\ gone' = gone \cup {c}
           ELSE UNCHANGED <<conn, gone>>
        /\ Move(r, NextSlot(r))
  /\ UNCHANGED <<vars, switching, creators, ready, fail, made, streams, broken, panicked>>
OpenFail(r) ==
  /\ fwd[r].step = "open"
  /\ LET c == fwd[r].conn
         s == SlotAt(r, Head(fwd[r].todo))
     IN /\ ~ HasStream(c)
        /\ \/ /\ conn[s] = c
              /\ conn' = [conn EXCEPT ![s] = Nil]
              /\ gone' = gone \cup {c}
              /\ Move(r, [fwd[r] EXCEPT !.step = "report"])
           \/ /\ conn[s] # c
              /\ UNCHANGED <<conn, gone>>
              /\ Move(r, NextSlot(r))
  /\ UNCHANGED <<vars, switching, creators, ready, fail, made, streams, broken, panicked>>

\* b.failChan <- NewSpdySession(b, index), once there is room.
SendFail(r) ==
  /\ fwd[r].step = "report" /\ Len(fail) < ChanCap
  /\ fail' = Append(fail, SlotAt(r, Head(fwd[r].todo)))
  /\ Move(r, NextSlot(r))
  /\ UNCHANGED <<vars, conn, switching, creators, ready, made, streams, gone, broken, panicked>>

\* The fallback: net.Dial to the backend itself.
Dial(r) ==
  /\ fwd[r].step = "dial"
  /\ DialOk(r) \/ DialFail(r)
  /\ Move(r, Idle)
  /\ UNCHANGED <<conn, switching, creators, ready, fail, made, streams, gone, broken, panicked>>

Copied(r) ==
  /\ \E clean \in BOOLEAN : CopyEnd(r, clean)
  /\ UNCHANGED tunnelVars

TForward(r) ==
  Begin(r) \/ Pick(r) \/ OpenOk(r) \/ OpenFail(r) \/ SendFail(r) \/ Dial(r) \/ Copied(r)

Scheduling ==
  \/ TFinish
  \/ FailMsg
  \/ SessionMsg
  \/ NilSessionMsg

TNext ==
  \/ \E r \in Req : TJob(r) \/ TForward(r)
  \/ Scheduling
  \/ \E S \in (SUBSET Addr) \ {{}} : TStatus(S)
  \/ \E s \in Slot : SessionUp(s) \/ SessionNil(s) \/ SessionRetry(s)
  \/ \E c \in Conn : Break(c)

TSpec == TInit /\ [][TNext]_tvars

\* The scheduler never blocks; forwarders and creators are goroutines that
\* retry until the stream server of the host answers, which it does sooner or
\* later; copies end when their peers close.
TFairness ==
  /\ WF_tvars(TFinish) /\ WF_tvars(FailMsg)
  /\ WF_tvars(SessionMsg) /\ WF_tvars(NilSessionMsg)
  /\ \A r \in Req : WF_tvars(TForward(r))
  /\ \A s \in Slot : WF_tvars(SessionUp(s))

TFairSpec == TSpec /\ TFairness

-----------------------------------------------------------------------------
(* Properties. *)

TTypeOK ==
  /\ TypeOK
  /\ conn \in [Slot -> Conn \cup {Nil}]
  /\ switching \subseteq Slot
  /\ creators \in [Slot -> Nat]
  /\ ready \in Seq([slot : Slot, conn : Conn \cup {Nil}])
  /\ fail \in Seq(Slot)
  /\ made \in 0 .. MaxConn
  /\ streams \in [Conn -> 0 .. MaxStream]
  /\ gone \subseteq Conn /\ broken \subseteq Conn
  /\ \A r \in Req : fwd[r].conn \in Conn \cup {Nil}

Arriving(s) == {i \in DOMAIN ready : ready[i].slot = s}
Reported(s) ==
  \/ s \in Elements(fail)
  \/ \E r \in Req : fwd[r].step = "report" /\ SlotAt(r, Head(fwd[r].todo)) = s

\* Each slot has at most one session in the making: the two requesters of new
\* sessions, FailMsg and SpdyCheckStreamId, exclude each other by the switching
\* flag, which neither a late fail message nor the first session breaks.
OneCreator == \A s \in Slot : creators[s] + Cardinality(Arriving(s)) <= 1

\* A connection that works belongs to exactly one slot, or to the one session on
\* its way to a slot: none is forgotten open, and none serves two slots.
ConnOwned ==
  \A c \in (1 .. made) \ gone :
    Cardinality({s \in Slot : conn[s] = c})
      + Cardinality({i \in DOMAIN ready : ready[i].conn = c}) = 1

\* A slot that has no connection, or one the balancer closed, will get another:
\* a creator is at work, its session is on the way, or a report is ("loop
\* forever to recover for errors", scheduler.go:60).  Only a nil session, at
\* which SwitchSpdyConn panics with the slot half switched, ends this.
SlotTended ==
  \A s \in Slot \ panicked :
    s[1] <= allocated /\ (conn[s] = Nil \/ conn[s] \in gone)
      => creators[s] > 0 \/ Arriving(s) # {} \/ Reported(s)

\* Every slot of a backend ends up with a connection and keeps it, unless its
\* last session was nil or the bound on connections is reached.
Refilled ==
  <>[](\A s \in Slot :
         s[1] <= allocated /\ conn[s] = Nil => s \in panicked \/ made = MaxConn)
=============================================================================
