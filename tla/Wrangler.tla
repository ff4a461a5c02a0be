------------------------------ MODULE Wrangler ------------------------------
(***************************************************************************)
(* The wrangler of gbalancer and its health drivers (package wrangler):    *)
(* one goroutine runs a round of probes, compares the result with what it  *)
(* knew, and sends it to the engine on the status channel.                 *)
(*                                                                         *)
(* The tcp, http and ext drivers probe every configured server at once.    *)
(* The galera driver asks the configured directors one after the other     *)
(* until one names the members of the cluster, and probes those; such a    *)
(* probe is a conversation (Mysql).  Servers go up and down at any time,   *)
(* also within a probe, and one that is down may leave a probe without an  *)
(* answer.                                                                 *)
(*                                                                         *)
(* A second or a minute of sleep between rounds is one step of any length. *)
(***************************************************************************)
EXTENDS Integers, FiniteSets, Sequences, SequencesExt, Mysql

CONSTANTS
  Addr,         \* addresses of servers
  Settings,     \* configurations: the driver, the backends, and the -remote flag
  MaxBackends   \* capacity of the status channel

Galera == "galera"
Tcp == "tcp"
Drivers == {Galera, Tcp, "http", "ext"}

ASSUME WranglerAssumption ==
  /\ IsFiniteSet(Addr)
  /\ Settings \subseteq [service : Drivers, backend : Seq(Addr), remote : BOOLEAN]
  /\ MaxBackends \in Nat \ {0}

VARIABLES
  settings,    \* the configuration of this process
  director,    \* Director of the driver
  known,       \* Wrangler.Backends
  status,      \* the status channel
  step,        \* "sleep", "ask" (a director), "collect" (the results)
  next,        \* index of the director to ask
  probing,     \* addresses with a probe goroutine at work
  talk,        \* of each address: the conversation of the probe at work
  results,     \* the results channel
  found,       \* the backends map of the round
  alive,       \* servers that answer what they are asked now
  seen,        \* history: servers alive at some time of the round
  steady       \* history: servers alive all the time of the round

world == <<alive, seen, steady>>
round == <<step, next, probing, talk, results, found>>
wvars == <<settings, director, known, status, round, world>>

Quiet == [a \in Addr |-> Idle]

WInit ==
  /\ settings \in Settings
  /\ director = settings.backend
  /\ known = {} /\ status = <<>>
  /\ step = "sleep" /\ next = 1
  /\ probing = {} /\ results = {} /\ found = {}
  /\ talk = Quiet
  /\ alive \in SUBSET Addr
  /\ seen = {} /\ steady = {}

\* The process is over: the next one starts from the configuration.
WGone ==
  /\ director' = settings.backend
  /\ known' = {} /\ status' = <<>>
  /\ step' = "sleep" /\ next' = 1
  /\ probing' = {} /\ results' = {} /\ found' = {}
  /\ talk' = Quiet
  /\ seen' = {} /\ steady' = {}
  /\ UNCHANGED <<settings, alive>>

Configured == ToSet(director)

-----------------------------------------------------------------------------
(* A round: BuildActiveBackends of the driver. *)

\* The outcomes of a probe that is not galera's: with nil, with an error, or
\* none at all ("never"), as only the dial of tcp has a timeout.
tcpProbe(a) == IF a \in alive THEN {"nil"} ELSE {"error"}
httpProbe(a) == IF a \in alive THEN {"nil"} ELSE {"error", "never"}
extProbe(a) == IF a \in alive THEN {"nil"} ELSE {"error", "never"}
Verdicts(a) ==
  CASE settings.service = Tcp -> tcpProbe(a)
    [] settings.service = "http" -> httpProbe(a)
    [] OTHER -> extProbe(a)

\* The galera driver asks director i of the list D, if there is one.
Ask(D, i) == IF i > Len(D) THEN Quiet ELSE [Quiet EXCEPT ![D[i]] = Dial]

\* The servers are probed, or the first director is asked; without a backend in
\* the configuration BuildActiveBackends returns an error and nothing happens.
Begin ==
  /\ step = "sleep" /\ director # <<>>
  /\ \/ /\ settings.service # Galera
        /\ step' = "collect"
        /\ probing' = Configured
        /\ UNCHANGED talk
     \/ /\ settings.service = Galera
        /\ step' = "ask"
        /\ probing' = {}
        /\ talk' = Ask(director, 1)
  /\ next' = 1 /\ results' = {} /\ found' = {}
  /\ seen' = alive /\ steady' = alive
  /\ UNCHANGED <<settings, director, known, status, alive>>

\* What the conversation with a comes to next.
Turn(a) ==
  IF talk[a] \in {Idle, Stuck} THEN {} ELSE Turns(talk[a], a \in alive)

\* It goes on, perhaps to wait for ever, ...
Talk(a) ==
  /\ \E t \in Turn(a) \ {Over("done"), Over("failed")} : talk' = [talk EXCEPT ![a] = t]
  /\ UNCHANGED <<settings, director, known, status, step, next, probing, results, found, world>>

\* ... or ends with or without success.
Ends(a, up) == Over(IF up THEN "done" ELSE "failed") \in Turn(a)

\* The director that answered becomes the first one.
Promoted_Next(i) ==
  IF i = Len(director) THEN director
  ELSE [director EXCEPT ![i] = director[i + 1], ![i + 1] = director[i]]
Promoted(i) == [director EXCEPT ![1] = director[i], ![i] = director[1]]

\* galeraProbe of the next director failed.
NoAnswer ==
  /\ step = "ask" /\ next <= Len(director)
  /\ Ends(director[next], FALSE)
  /\ next' = next + 1
  /\ talk' = Ask(director, next')
  /\ UNCHANGED <<settings, director, known, status, step, probing, results, found, world>>

\* It answered with the set members of wsrep_incoming_addresses.  If that is
\* empty the next director is asked, else the other members are probed.
Answer(members) ==
  /\ step = "ask" /\ next <= Len(director)
  /\ Ends(director[next], TRUE)
  /\ found' = found \cup {director[next]}
  /\ director' = Promoted(next)
  /\ \/ /\ members = {}
        /\ next' = next + 1
        /\ talk' = Ask(director', next')
        /\ UNCHANGED <<step, probing>>
     \/ /\ members # {}
        /\ step' = "collect"
        /\ probing' = members \ {director[next]}
        /\ talk' = [a \in Addr |-> IF a \in probing' THEN Dial ELSE Idle]
        /\ UNCHANGED next
  /\ UNCHANGED <<settings, known, status, results, world>>

\* A probe goroutine ends ...
Probe(a, up) ==
  /\ a \in probing
  /\ IF settings.service = Galera THEN Ends(a, up)
     ELSE talk[a] = Idle /\ (IF up THEN "nil" ELSE "error") \in Verdicts(a)
  /\ probing' = probing \ {a}
  /\ talk' = [talk EXCEPT ![a] = Idle]
  /\ results' = results \cup {[backend |-> a, up |-> up]}
  /\ UNCHANGED <<settings, director, known, status, step, next, found, world>>

\* ... or never will.
Hang(a) ==
  /\ a \in probing /\ talk[a] = Idle
  /\ settings.service # Galera /\ "never" \in Verdicts(a)
  /\ talk' = [talk EXCEPT ![a] = Stuck]
  /\ UNCHANGED <<settings, director, known, status, step, next, probing, results, found, world>>

\* r := <-results
Answered_Any(r) == {r.backend}
Answered(r) == IF r.up THEN {r.backend} ELSE {}

Collect ==
  \E r \in results :
    /\ results' = results \ {r}
    /\ found' = found \cup Answered(r)
    /\ UNCHANGED <<settings, director, known, status, step, next, probing, talk, world>>

\* All directors were asked, or all probes have been collected.
RoundOver_Early == \/ step = "ask" /\ next >= Len(director)
                   \/ step = "collect" /\ probing = {}
RoundOver == \/ step = "ask" /\ next > Len(director)
             \/ step = "collect" /\ probing = {} /\ results = {}

\* The rest of ValidBackends, which blocks while the channel is full.
Announced_New ==
  IF found \ known = {} THEN status ELSE Append(status, found \ known)
Announced_Always == Append(status, found)
Announced == IF found = {} THEN status ELSE Append(status, found)

ValidBackends ==
  /\ RoundOver
  /\ found # {} => Len(status) < MaxBackends
  /\ known' = found
  /\ status' = Announced
  /\ step' = "sleep" /\ next' = 1
  /\ probing' = {} /\ talk' = Quiet /\ results' = {} /\ found' = {}
  /\ seen' = {} /\ steady' = {}
  /\ UNCHANGED <<settings, director, alive>>

\* A server goes up or down.
Change(a) ==
  /\ alive' = IF a \in alive THEN alive \ {a} ELSE alive \cup {a}
  /\ seen' = IF step = "sleep" THEN {} ELSE seen \cup alive'
  /\ steady' = steady \cap alive'
  /\ UNCHANGED <<settings, director, known, status, round>>

Monitor ==
  \/ Begin
  \/ NoAnswer
  \/ \E members \in SUBSET Addr : Answer(members)
  \/ Collect
  \/ ValidBackends

-----------------------------------------------------------------------------
(* Properties. *)

WTypeOK ==
  /\ settings \in Settings
  /\ director \in Seq(Addr)
  /\ known \subseteq Addr /\ found \subseteq Addr
  /\ status \in Seq((SUBSET Addr) \ {{}}) /\ Len(status) <= MaxBackends
  /\ step \in {"sleep", "ask", "collect"}
  /\ next \in 1 .. Len(director) + 1
  /\ probing \subseteq Addr /\ talk \in [Addr -> Talks]
  /\ results \subseteq [backend : Addr, up : BOOLEAN]
  /\ steady \subseteq alive /\ seen \cup steady \subseteq Addr

\* What a round may conclude, servers changing under it: those it found were
\* alive during it, and of those it had to ask, the ones that were alive all
\* through it are found.  For galera that needs each director to be asked,
\* although the list is reordered while it is walked.
Sound ==
  RoundOver =>
    /\ found \subseteq seen
    /\ settings.service # Galera => steady \cap Configured \subseteq found
    /\ settings.service = Galera /\ steady \cap Configured # {} => found # {}

\* The directors stay the configured ones, and the first one is the one that
\* answered last: "will use the first one by default" (wrangler_galera.go:35).
FirstAnswered ==
  /\ Configured = ToSet(settings.backend) /\ Len(director) = Len(settings.backend)
  /\ RoundOver /\ found # {} /\ settings.service = Galera => director[1] \in found
=============================================================================
