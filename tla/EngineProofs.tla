---------------------------- MODULE EngineProofs ----------------------------
(***************************************************************************)
(* Theorems about modules Wrangler, Mysql and Engine, for every value of   *)
(* their constants.  The inductive invariant IInv has a part for the       *)
(* rounds of the wrangler, one for the handling of a report by the ipvs    *)
(* engine, and the relation of its map to the table of the kernel.         *)
(***************************************************************************)
EXTENDS Engine, TLAPS

-----------------------------------------------------------------------------
(* The conversation of a probe. *)

\* What a call may come to, and a conversation with a fault before its end.
Outcome == {"bad", "stuck", "failed", "done"}
Unfinished == Outcome \ {"done"}

\* Calls whose outcomes are in S.
Call(S) == [{"error", "broken", "silence"} -> S] \cup [{"broken"} -> S]

\* What a read and a write of a packet may come to: only the end of the rows,
\* read after the members, makes a fault look like success.
LEMMA ReadsAndWrites ==
  /\ readPacket("failed") \in Call(Unfinished)
  /\ readPacket("stuck") \in Call(Unfinished)
  /\ writePacket \in Call(Unfinished)
  /\ rowsNext("failed") \in Call(Unfinished)
  /\ rowsNext("done") \in Call(Outcome)
<1>1. ASSUME NEW S, {"bad", "stuck"} \subseteq S, NEW error \in S
      PROVE  readPacket(error) \in [{"error", "broken", "silence"} -> S]
  BY <1>1 DEF readPacket, fill
<1>2. Unfinished = {"bad", "stuck", "failed"}
  BY DEF Outcome, Unfinished
<1>3. writePacket \in [{"broken"} -> Unfinished]
  BY <1>2 DEF writePacket
<1>4. ASSUME NEW S, {"bad", "stuck"} \subseteq S, NEW end \in S
      PROVE  rowsNext(end) \in [{"error", "broken", "silence"} -> S]
  BY <1>1, <1>4 DEF rowsNext, readRow
<1> QED
  BY <1>1, <1>2, <1>3, <1>4 DEF Call, Outcome

\* A conversation up to the query has no call that succeeds on a fault.
LEMMA Conversations ==
  /\ Greeting \in Seq(Call(Unfinished))
  /\ Login \in Seq(Call(Unfinished))
  /\ getSystemVar \in Seq(Call(Unfinished))
  /\ Query \o Rows \in Seq(Call(Outcome))
<1>1. Call(Unfinished) \subseteq Call(Outcome)
  BY DEF Call, Unfinished
<1>2. Query \in Seq(Call(Outcome)) /\ Rows \in Seq(Call(Outcome))
  BY <1>1, ReadsAndWrites DEF Query, Rows, writeCommandPacketStr,
       readResultSetHeaderPacket, readColumns, handleErrorPacket
<1>3. Query \o Rows \in Seq(Call(Outcome))
  BY <1>2
<1>4. Greeting \in Seq(Call(Unfinished)) /\ Login \in Seq(Call(Unfinished))
  BY ReadsAndWrites DEF Greeting, Login, readInitPacket, writeAuthPacket, readResultOK,
       handleErrorPacket
<1>5. getSystemVar \in Seq(Call(Unfinished))
  BY ReadsAndWrites DEF getSystemVar, writeCommandPacketStr, readResultSetHeaderPacket,
       readUntilEOF, readRow, handleErrorPacket
<1> QED
  BY <1>3, <1>4, <1>5

\* The outcomes of a call of a list of calls.
LEMMA CallsRange ==
  ASSUME NEW S, NEW s \in Seq(Call(S)), NEW call \in Range(s)
  PROVE  Range(call) \subseteq S
<1>1. call \in Call(S)
  BY DEF Range
<1> QED
  BY <1>1 DEF Call, Range

\* A fault ends with success only while the answer to the query is read: the
\* probe takes an error after the rows for their end.
LEMMA FaultsOutcome ==
  /\ DOMAIN Conversation = {"init", "auth", "limit", "query"}
  /\ \A stage \in DOMAIN Conversation : Faults[stage] \subseteq Outcome
  /\ \A stage \in DOMAIN Conversation \ {"query"} : "done" \notin Faults[stage]
<1>1. DOMAIN Conversation = {"init", "auth", "limit", "query"}
  BY DEF Conversation
<1>2. /\ Conversation["init"].io = Greeting
      /\ Conversation["auth"].io = Login
      /\ Conversation["limit"].io = getSystemVar
      /\ Conversation["query"].io = Query \o Rows
  BY DEF Conversation
<1>3. ASSUME NEW stage \in DOMAIN Conversation
      PROVE  Faults[stage] = UNION {Range(call) : call \in Range(Conversation[stage].io)}
  BY DEF Faults
<1>4. Unfinished \subseteq Outcome /\ "done" \notin Unfinished
  BY DEF Unfinished
<1>5. ASSUME NEW stage \in DOMAIN Conversation \ {"query"}
      PROVE  Faults[stage] \subseteq Unfinished
  <2>1. Conversation[stage].io \in Seq(Call(Unfinished))
    BY <1>1, <1>2, Conversations
  <2> QED BY <1>3, <2>1, CallsRange
<1>6. Faults["query"] \subseteq Outcome
  <2>1. Conversation["query"].io \in Seq(Call(Outcome))
    BY <1>2, Conversations
  <2> QED BY <1>1, <1>3, <2>1, CallsRange
<1> QED
  BY <1>1, <1>4, <1>5, <1>6

\* The stages after the greeting.
LoggedIn == {"auth", "limit", "query"}

\* A step of a conversation: it succeeds only out of the query, it fails only if
\* the server is not healthy, and it passes the greeting only if the server is
\* healthy then or was before.
LEMMA TurnsOutcome ==
  ASSUME MysqlAssumption, NEW t \in Talks \ {Idle, Stuck}, NEW healthy \in BOOLEAN,
         NEW u \in Turns(t, healthy)
  PROVE  /\ u \in Talks \cup {Over("done"), Over("failed")}
         /\ u = Over("done") => t.stage = "query"
         /\ u = Over("failed") => ~ healthy
         /\ u.stage \in LoggedIn => healthy \/ t.stage \in LoggedIn
<1>1. t \in [stage : Stages, tries : 1 .. BadConnRetries] /\ BadConnRetries \in Nat
  BY DEF Talks, MysqlAssumption
<1>2. Stages = {"dial", "init", "auth", "limit", "query"}
  BY FaultsOutcome DEF Stages
<1>3. CASE t.stage = "dial"
  BY <1>1, <1>2, <1>3 DEF Turns, Dialed, Talks, Over, LoggedIn
<1>4. ASSUME NEW outcome \in Outcome
      PROVE  /\ After(t, outcome) \in Talks \cup {Over("done"), Over("failed")}
             /\ After(t, outcome) = Over("done") => outcome = "done"
             /\ After(t, outcome).stage \notin LoggedIn
  <2>1. CASE outcome = "bad"
    BY <1>1, <1>2, <2>1 DEF After, Again, Over, Talks, LoggedIn
  <2>2. CASE outcome \in {"stuck", "failed", "done"}
    BY <2>2 DEF After, Over, Talks, Stuck, LoggedIn
  <2> QED BY <2>1, <2>2 DEF Outcome
<1>5. CASE t.stage # "dial" /\ ~ healthy
  <2>1. PICK outcome \in Faults[t.stage] : u = After(t, outcome)
    BY <1>5 DEF Turns
  <2>2. t.stage \in DOMAIN Conversation
    BY <1>1, <1>2, <1>5, FaultsOutcome
  <2> QED BY <1>4, <1>5, <2>1, <2>2, FaultsOutcome
<1>6. CASE t.stage # "dial" /\ healthy
  <2>1. u = After(t, Conversation[t.stage].then)
    BY <1>6 DEF Turns
  <2>2. Conversation[t.stage].then \in {"auth", "limit", "query", "done"}
        /\ (Conversation[t.stage].then = "done" => t.stage = "query")
    BY <1>1, <1>2, <1>6 DEF Conversation
  <2>3. CASE Conversation[t.stage].then = "done"
    BY <1>6, <2>1, <2>2, <2>3 DEF After, Over, LoggedIn
  <2>4. CASE Conversation[t.stage].then \in LoggedIn
    <3>1. u = [t EXCEPT !.stage = Conversation[t.stage].then]
      BY <2>1, <2>4 DEF After, LoggedIn
    <3> QED BY <1>1, <1>2, <1>6, <2>4, <3>1 DEF Talks, LoggedIn, Over
  <2> QED BY <2>2, <2>3, <2>4 DEF LoggedIn
<1> QED
  BY <1>3, <1>5, <1>6

-----------------------------------------------------------------------------
(* The wrangler. *)

\* The directors are the configured ones, in some order.
Listed ==
  Configured = ToSet(settings.backend) /\ Len(director) = Len(settings.backend)

\* Between rounds there is nothing of a round.
Resting == step = "sleep" => found = {} /\ results = {} /\ probing = {} /\ talk = Quiet

\* While directors are asked no other probe is at work.
Asking ==
  step = "ask" => settings.service = Galera /\ probing = {} /\ results = {}

\* Who is found, is about to be found or has passed the greeting was alive during
\* the round.
Witnessed ==
  /\ alive \subseteq Addr /\ (step # "sleep" => alive \subseteq seen)
  /\ found \subseteq seen
  /\ \A r \in results : r.up => r.backend \in seen
  /\ \A a \in Addr : talk[a].stage \in LoggedIn => a \in seen

\* Without galera: a server alive all the time is found, being probed, or its
\* result is on the channel.
Probed ==
  step = "collect" /\ settings.service # Galera =>
    \A a \in steady \cap Configured :
      a \in found \cup probing \/ [backend |-> a, up |-> TRUE] \in results

\* With galera: the directors before the next one did not answer, or the one that
\* answered last is the first of the list.  A director moved by Promoted is moved
\* to a place that was asked before.
Asked ==
  settings.service = Galera =>
    /\ step = "ask" /\ found = {} => \A i \in 1 .. next - 1 : director[i] \notin steady
    /\ step = "collect" => found # {}
    /\ found # {} => director # <<>> /\ director[1] \in found

\* The invariant of the wrangler.
Rounds == WTypeOK /\ Listed /\ Resting /\ Asking /\ Witnessed /\ Probed /\ Asked

\* It holds of a new process.
LEMMA RoundsInit == WranglerAssumption /\ WInit => Rounds
  BY DEF WInit, Rounds, WTypeOK, Listed, Resting, Asking, Witnessed, Probed, Asked,
     Configured, WranglerAssumption, Quiet, Idle, Talks, LoggedIn, Stages

\* It implies what a round may conclude.
LEMMA RoundsConclude == Rounds => Sound /\ FirstAnswered
<1> SUFFICES ASSUME Rounds PROVE Sound /\ FirstAnswered
  OBVIOUS
<1> USE DEF Rounds
<1>1. director \in Seq(Addr) /\ next \in 1 .. Len(director) + 1
  BY DEF WTypeOK
<1>2. CASE ~ RoundOver
  BY <1>2 DEF Sound, FirstAnswered, Listed
<1>3. CASE RoundOver /\ step = "ask"
  <2>1. next = Len(director) + 1 /\ settings.service = Galera
    BY <1>1, <1>3 DEF RoundOver, Asking
  <2>2. found = {} => steady \cap Configured = {}
    BY <1>1, <1>3, <2>1 DEF Asked, Configured, ToSet
  <2> QED BY <1>1, <1>3, <2>1, <2>2 DEF Sound, FirstAnswered, Listed, Witnessed, Asked
<1>4. CASE RoundOver /\ step = "collect"
  <2>1. probing = {} /\ results = {}
    BY <1>4 DEF RoundOver
  <2> QED BY <1>4, <2>1 DEF Sound, FirstAnswered, Listed, Witnessed, Probed, Asked
<1> QED
  BY <1>2, <1>3, <1>4 DEF RoundOver

\* Promoting a director permutes the list and puts it first.
LEMMA PromotedList ==
  ASSUME NEW i \in 1 .. Len(director), director \in Seq(Addr)
  PROVE  /\ Promoted(i) \in Seq(Addr)
         /\ Len(Promoted(i)) = Len(director)
         /\ ToSet(Promoted(i)) = ToSet(director)
         /\ Promoted(i)[1] = director[i]
<1>1. /\ DOMAIN Promoted(i) = 1 .. Len(director)
      /\ Promoted(i)[1] = director[i]
      /\ Promoted(i)[i] = director[1]
      /\ \A j \in 2 .. Len(director) : j # i => Promoted(i)[j] = director[j]
      /\ Promoted(i) \in Seq(Addr)
      /\ Len(Promoted(i)) = Len(director)
  BY DEF Promoted
<1>2. ToSet(Promoted(i)) \subseteq ToSet(director)
  BY <1>1 DEF ToSet
<1>3. ASSUME NEW a \in ToSet(director) PROVE a \in ToSet(Promoted(i))
  <2>1. PICK j \in 1 .. Len(director) : a = director[j]
    BY DEF ToSet
  <2>2. CASE j = 1
    BY <1>1, <2>1, <2>2 DEF ToSet
  <2>3. CASE j = i
    BY <1>1, <2>1, <2>3 DEF ToSet
  <2>4. CASE j # 1 /\ j # i
    BY <1>1, <2>1, <2>4 DEF ToSet
  <2> QED BY <2>2, <2>3, <2>4
<1> QED
  BY <1>1, <1>2, <1>3


\* To ask a director is to open one conversation, which has just begun.
LEMMA AskTalks ==
  ASSUME NEW D \in Seq(Addr), NEW i \in Nat \ {0}
  PROVE  /\ Quiet \in [Addr -> Talks]
         /\ Ask(D, i) \in [Addr -> Talks]
         /\ \A a \in Addr : Quiet[a].stage \notin LoggedIn /\ Ask(D, i)[a].stage \notin LoggedIn
<1>1. Dial \in Talks /\ Idle \in Talks
  BY MysqlAssumption DEF Talks, Dial, Idle, Stages
<1>2. i <= Len(D) => D[i] \in Addr
  OBVIOUS
<1> QED
  BY <1>1, <1>2 DEF Ask, Quiet, Dial, Idle, LoggedIn

\* Each step of the wrangler preserves the invariant: a round begins, ...
LEMMA BeginRound == ASSUME Rounds, Begin PROVE Rounds'
<1> USE DEF Rounds
<1>1. /\ step' \in {"ask", "collect"} /\ next' = 1
      /\ results' = {} /\ found' = {} /\ seen' = alive /\ steady' = alive
      /\ UNCHANGED <<settings, director, known, status, alive>>
      /\ director \in Seq(Addr) /\ director # <<>> /\ talk = Quiet
  BY DEF Begin, WTypeOK, Resting
<1>2. Configured \subseteq Addr
  BY <1>1 DEF Configured, ToSet
<1>3. talk' \in {Quiet, Ask(director, 1)} /\ probing' \in {{}, Configured}
  BY <1>1 DEF Begin
<1>4. talk' \in [Addr -> Talks] /\ \A a \in Addr : talk'[a].stage \notin LoggedIn
  BY <1>1, <1>3, AskTalks
<1>5. WTypeOK'
  BY <1>1, <1>2, <1>3, <1>4 DEF WTypeOK, Witnessed
<1>6. Listed' /\ Resting' /\ Asking' /\ Asked'
  BY <1>1 DEF Begin, Listed, Configured, Resting, Asking, Asked
<1>7. Witnessed'
  BY <1>1, <1>4 DEF Witnessed
<1>8. Probed'
  BY <1>1 DEF Begin, Probed, Configured
<1> QED
  BY <1>5, <1>6, <1>7, <1>8

\* What a step of a conversation tells of the server during this round.
LEMMA TurnsUp ==
  ASSUME Rounds, NEW a \in Addr, NEW t \in Turn(a)
  PROVE  /\ step # "sleep"
         /\ t \in Talks \cup {Over("done"), Over("failed")}
         /\ t = Over("done") => a \in seen
         /\ t = Over("failed") => a \notin steady
         /\ t.stage \in LoggedIn => a \in seen
<1> USE DEF Rounds
<1>1. /\ talk[a] \in Talks \ {Idle, Stuck}
      /\ t \in Turns(talk[a], a \in alive)
  BY DEF Turn, WTypeOK
<1>2. step # "sleep"
  BY <1>1 DEF Resting, Quiet
<1>3. /\ t \in Talks \cup {Over("done"), Over("failed")}
      /\ t = Over("done") => talk[a].stage = "query"
      /\ t = Over("failed") => a \notin alive
      /\ t.stage \in LoggedIn => a \in alive \/ talk[a].stage \in LoggedIn
  <2>1. CASE a \in alive
    <3>1. t \in Turns(talk[a], TRUE)
      BY <1>1, <2>1
    <3> QED BY <1>1, <2>1, <3>1, TurnsOutcome, MysqlAssumption
  <2>2. CASE a \notin alive
    <3>1. (a \in alive) = FALSE
      BY <2>2
    <3>2. t \in Turns(talk[a], FALSE)
      BY <1>1, <3>1
    <3> QED BY <1>1, <2>2, <3>2, TurnsOutcome, MysqlAssumption
  <2> QED BY <2>1, <2>2
<1>4. alive \subseteq seen /\ (talk[a].stage \in LoggedIn => a \in seen) /\ steady \subseteq alive
  BY <1>2 DEF Witnessed, WTypeOK
<1> QED
  BY <1>2, <1>3, <1>4 DEF LoggedIn

\* ... a conversation goes on, ...
LEMMA TalkOn ==
  ASSUME Rounds, NEW a \in Addr, Talk(a) PROVE Rounds'
<1> USE DEF Rounds
<1>1. PICK t \in Turn(a) \ {Over("done"), Over("failed")} : talk' = [talk EXCEPT ![a] = t]
  BY DEF Talk
<1>2. UNCHANGED <<settings, director, known, status, step, next, probing, results, found,
                  alive, seen, steady>>
  BY DEF Talk, world
<1>3. step # "sleep" /\ t \in Talks /\ (t.stage \in LoggedIn => a \in seen)
  BY <1>1, TurnsUp
<1>4. WTypeOK'
  BY <1>1, <1>2, <1>3 DEF WTypeOK
<1>5. Listed' /\ Resting' /\ Asking' /\ Probed' /\ Asked'
  BY <1>2, <1>3 DEF Listed, Configured, Resting, Asking, Probed, Asked
<1>6. Witnessed'
  BY <1>1, <1>2, <1>3 DEF Witnessed, WTypeOK
<1> QED
  BY <1>4, <1>5, <1>6

\* ... a director does not answer, ...
LEMMA DirectorFails == ASSUME Rounds, NoAnswer PROVE Rounds'
<1> USE DEF Rounds
<1>1. /\ step = "ask" /\ next <= Len(director) /\ next' = next + 1
      /\ talk' = Ask(director, next')
      /\ UNCHANGED <<settings, director, known, status, step, probing, results, found,
                     alive, seen, steady>>
      /\ Over("failed") \in Turn(director[next])
  BY DEF NoAnswer, Ends, world
<1>2. /\ director \in Seq(Addr) /\ next \in 1 .. Len(director) /\ director[next] \in Addr
      /\ next' \in 1 .. Len(director) + 1
  BY <1>1 DEF WTypeOK
<1>3. director[next] \notin steady
  BY <1>1, <1>2, TurnsUp
<1>4. talk' \in [Addr -> Talks] /\ \A a \in Addr : talk'[a].stage \notin LoggedIn
  BY <1>1, <1>2, AskTalks
<1>5. WTypeOK'
  BY <1>1, <1>2, <1>4 DEF WTypeOK
<1>6. Listed' /\ Resting' /\ Asking' /\ Probed'
  BY <1>1 DEF Listed, Configured, Resting, Asking, Probed
<1>7. Witnessed'
  BY <1>1, <1>4 DEF Witnessed
<1>8. Asked'
  BY <1>1, <1>2, <1>3 DEF Asked
<1> QED
  BY <1>5, <1>6, <1>7, <1>8

\* ... a director names the members, or none, ...
LEMMA DirectorAnswers ==
  ASSUME Rounds, NEW members \in SUBSET Addr, Answer(members) PROVE Rounds'
<1> USE DEF Rounds
<1>1. /\ step = "ask" /\ next <= Len(director)
      /\ found' = found \cup {director[next]} /\ director' = Promoted(next)
      /\ UNCHANGED <<settings, known, status, results, alive, seen, steady>>
      /\ Over("done") \in Turn(director[next])
  BY DEF Answer, Ends, world
<1>2. /\ director \in Seq(Addr) /\ next \in 1 .. Len(director) /\ director[next] \in Addr
      /\ settings.service = Galera /\ results = {}
  BY <1>1 DEF WTypeOK, Asking
<1>3. director[next] \in seen
  BY <1>1, <1>2, TurnsUp
<1>4. /\ director' \in Seq(Addr) /\ Len(director') = Len(director)
      /\ ToSet(director') = ToSet(director) /\ director'[1] \in found'
      /\ director' # <<>>
  BY <1>1, <1>2, PromotedList
<1>5. /\ next' \in 1 .. Len(director') + 1 /\ probing' \subseteq Addr
      /\ step' \in {"ask", "collect"} /\ (step' = "ask" => probing' = {})
      /\ talk' \in [Addr -> Talks] /\ \A a \in Addr : talk'[a].stage \notin LoggedIn
  <2>1. CASE members = {}
    <3>1. next' = next + 1 /\ talk' = Ask(director', next') /\ UNCHANGED <<step, probing>>
      BY <2>1 DEF Answer
    <3> QED BY <1>1, <1>2, <1>4, <3>1, AskTalks DEF WTypeOK, Asking
  <2>2. CASE members # {}
    <3>1. /\ step' = "collect" /\ probing' = members \ {director[next]} /\ next' = next
          /\ talk' = [a \in Addr |-> IF a \in probing' THEN Dial ELSE Idle]
      BY <2>2 DEF Answer
    <3>2. Dial \in Talks /\ Idle \in Talks
      BY MysqlAssumption DEF Talks, Dial, Idle, Stages
    <3>3. Dial.stage \notin LoggedIn /\ Idle.stage \notin LoggedIn
      BY DEF Dial, Idle, LoggedIn
    <3> QED BY <1>2, <1>4, <3>1, <3>2, <3>3
  <2> QED BY <2>1, <2>2
<1>6. WTypeOK'
  BY <1>1, <1>2, <1>4, <1>5 DEF WTypeOK
<1>7. Listed' /\ Resting' /\ Asking'
  BY <1>1, <1>2, <1>4, <1>5 DEF Listed, Configured, Resting, Asking
<1>8. Witnessed'
  BY <1>1, <1>2, <1>3, <1>5 DEF Witnessed
<1>9. Probed' /\ Asked'
  BY <1>1, <1>2, <1>4 DEF Probed, Asked
<1> QED
  BY <1>6, <1>7, <1>8, <1>9

\* ... a result is received, ...
LEMMA ResultCollected == ASSUME Rounds, Collect PROVE Rounds'
<1> USE DEF Rounds
<1>1. PICK r \in results : results' = results \ {r} /\ found' = found \cup Answered(r)
  BY DEF Collect
<1>2. UNCHANGED <<settings, director, known, status, step, next, probing, talk,
                  alive, seen, steady>>
  BY DEF Collect, world
<1>3. /\ step = "collect" /\ Answered(r) \subseteq Addr /\ Answered(r) \subseteq seen
      /\ r \in [backend : Addr, up : BOOLEAN]
  BY DEF Resting, Asking, Witnessed, WTypeOK, Answered
<1>4. WTypeOK'
  BY <1>1, <1>2, <1>3 DEF WTypeOK
<1>5. Listed' /\ Resting' /\ Asking'
  BY <1>2, <1>3 DEF Listed, Configured, Resting, Asking
<1>6. Witnessed'
  BY <1>1, <1>2, <1>3 DEF Witnessed
<1>7. Probed'
  <2>1. ASSUME NEW a \in steady \cap Configured, [backend |-> a, up |-> TRUE] = r
        PROVE  a \in found'
    <3>1. r.backend = a /\ r.up
      BY <2>1
    <3> QED BY <1>1, <3>1 DEF Answered
  <2> QED BY <1>1, <1>2, <2>1 DEF Probed, Configured
<1>8. Asked'
  BY <1>1, <1>2, <1>3 DEF Asked
<1> QED
  BY <1>4, <1>5, <1>6, <1>7, <1>8

\* ... a probe sends its result, ...
LEMMA ProbeEnded ==
  ASSUME Rounds, NEW a \in Addr, NEW up \in BOOLEAN, Probe(a, up) PROVE Rounds'
<1> USE DEF Rounds
<1>1. /\ a \in probing /\ probing' = probing \ {a} /\ talk' = [talk EXCEPT ![a] = Idle]
      /\ results' = results \cup {[backend |-> a, up |-> up]}
      /\ UNCHANGED <<settings, director, known, status, step, next, found, alive, seen, steady>>
  BY DEF Probe, world
<1>2. step = "collect" /\ alive \subseteq seen
  BY <1>1 DEF Resting, Asking, Witnessed, WTypeOK
<1>3. (up => a \in seen) /\ (a \in steady => settings.service = Galera \/ up)
  <2>1. CASE settings.service = Galera
    BY <2>1, TurnsUp DEF Probe, Ends
  <2>2. CASE settings.service # Galera
    <3>1. (IF up THEN "nil" ELSE "error") \in Verdicts(a)
      BY <2>2 DEF Probe
    <3>2. IF a \in alive THEN Verdicts(a) = {"nil"} ELSE "nil" \notin Verdicts(a)
      BY DEF Verdicts, tcpProbe, httpProbe, extProbe
    <3> QED BY <1>2, <3>1, <3>2 DEF WTypeOK
  <2> QED BY <2>1, <2>2
<1>4. Idle \in Talks /\ Idle.stage \notin LoggedIn
  BY DEF Talks, Idle, LoggedIn
<1>5. WTypeOK'
  BY <1>1, <1>4 DEF WTypeOK
<1>6. Listed' /\ Resting' /\ Asking' /\ Asked'
  BY <1>1, <1>2 DEF Listed, Configured, Resting, Asking, Asked
<1>7. Witnessed'
  BY <1>1, <1>3, <1>4 DEF Witnessed, WTypeOK
<1>8. Probed'
  BY <1>1, <1>3 DEF Probed, Configured
<1> QED
  BY <1>5, <1>6, <1>7, <1>8

\* ... a probe will never end, ...
LEMMA ProbeHangs == ASSUME Rounds, NEW a \in Addr, Hang(a) PROVE Rounds'
<1> USE DEF Rounds
<1>1. /\ a \in probing /\ talk' = [talk EXCEPT ![a] = Stuck]
      /\ UNCHANGED <<settings, director, known, status, step, next, probing, results, found,
                     alive, seen, steady>>
  BY DEF Hang, world
<1>2. step # "sleep" /\ Stuck \in Talks /\ Stuck.stage \notin LoggedIn
  BY <1>1 DEF Resting, Stuck, Talks, LoggedIn
<1>3. WTypeOK'
  BY <1>1, <1>2 DEF WTypeOK
<1>4. Listed' /\ Resting' /\ Asking' /\ Probed' /\ Asked'
  BY <1>1, <1>2 DEF Listed, Configured, Resting, Asking, Probed, Asked
<1>5. Witnessed'
  BY <1>1, <1>2 DEF Witnessed, WTypeOK
<1> QED
  BY <1>3, <1>4, <1>5

\* ... ValidBackends reports the round, ...
LEMMA RoundReported == ASSUME Rounds, ValidBackends PROVE Rounds'
<1> USE DEF Rounds
<1>1. /\ found # {} => Len(status) < MaxBackends
      /\ known' = found /\ status' = Announced /\ step' = "sleep" /\ next' = 1
      /\ probing' = {} /\ talk' = Quiet /\ results' = {} /\ found' = {}
      /\ seen' = {} /\ steady' = {}
      /\ UNCHANGED <<settings, director, alive>>
  BY DEF ValidBackends
<1>2. found \subseteq Addr /\ status \in Seq((SUBSET Addr) \ {{}}) /\ director \in Seq(Addr)
  BY DEF WTypeOK
<1>3. status' \in Seq((SUBSET Addr) \ {{}}) /\ Len(status') <= MaxBackends
  BY <1>1, <1>2, WranglerAssumption DEF Announced, WTypeOK
<1>4. talk' \in [Addr -> Talks] /\ \A a \in Addr : talk'[a].stage \notin LoggedIn
  BY <1>1, <1>2, AskTalks
<1>5. WTypeOK'
  BY <1>1, <1>2, <1>3, <1>4 DEF WTypeOK
<1>6. Listed' /\ Resting' /\ Asking' /\ Probed' /\ Asked'
  BY <1>1 DEF Listed, Configured, Resting, Asking, Probed, Asked, Quiet
<1>7. Witnessed'
  BY <1>1, <1>4 DEF Witnessed
<1> QED
  BY <1>5, <1>6, <1>7

\* ... a server goes up or down, ...
LEMMA ServerChanges == ASSUME Rounds, NEW a \in Addr, Change(a) PROVE Rounds'
<1> USE DEF Rounds
<1>1. /\ alive' \subseteq Addr /\ steady' = steady \cap alive'
      /\ seen' = IF step = "sleep" THEN {} ELSE seen \cup alive'
      /\ UNCHANGED <<settings, director, known, status, step, next, probing, talk, results, found>>
  BY DEF Change, round, Witnessed
<1>2. WTypeOK'
  BY <1>1 DEF WTypeOK
<1>3. Listed' /\ Resting' /\ Asking'
  BY <1>1 DEF Listed, Configured, Resting, Asking, Quiet
<1>4. Witnessed'
  BY <1>1 DEF Witnessed, Resting, Quiet, Idle, LoggedIn
<1>5. Probed' /\ Asked'
  BY <1>1 DEF Probed, Asked, Configured
<1> QED
  BY <1>2, <1>3, <1>4, <1>5

\* ... the process is over, ...
LEMMA ProcessGone == ASSUME Rounds, WGone PROVE Rounds'
<1> USE DEF Rounds
<1>1. settings.backend \in Seq(Addr) /\ MaxBackends \in Nat
  BY WranglerAssumption DEF WTypeOK
<1>2. /\ director' = settings.backend /\ known' = {} /\ status' = <<>>
      /\ step' = "sleep" /\ next' = 1 /\ probing' = {} /\ talk' = Quiet
      /\ results' = {} /\ found' = {} /\ seen' = {} /\ steady' = {}
      /\ UNCHANGED <<settings, alive>>
  BY DEF WGone
<1>3. talk' \in [Addr -> Talks] /\ \A a \in Addr : talk'[a].stage \notin LoggedIn
  BY <1>1, <1>2, AskTalks
<1>4. WTypeOK'
  BY <1>1, <1>2, <1>3 DEF WTypeOK
<1>5. Listed' /\ Resting' /\ Asking' /\ Probed' /\ Asked'
  BY <1>2 DEF Listed, Configured, Resting, Asking, Probed, Asked, Quiet
<1>6. Witnessed'
  BY <1>2, <1>3 DEF Witnessed
<1> QED
  BY <1>4, <1>5, <1>6

\* ... and the engine takes a report, or does something else.
LEMMA ReportTaken ==
  ASSUME Rounds, UNCHANGED wranglerOnly,
         status' = status \/ (status # <<>> /\ status' = Tail(status))
  PROVE  Rounds'
<1> USE DEF Rounds
<1>1. UNCHANGED <<settings, director, known, step, next, probing, talk, results, found,
                  alive, seen, steady>>
  BY DEF wranglerOnly, round, world
<1>2. ASSUME NEW S, NEW s \in Seq(S), s # <<>>
      PROVE  Tail(s) \in Seq(S) /\ Len(Tail(s)) <= Len(s)
  BY <1>2
<1>3. status' \in Seq((SUBSET Addr) \ {{}}) /\ Len(status') <= MaxBackends
  <2>1. CASE status' = status
    BY <2>1 DEF WTypeOK
  <2>2. CASE status # <<>> /\ status' = Tail(status)
    <3>1. status \in Seq((SUBSET Addr) \ {{}}) /\ Len(status) <= MaxBackends
      BY DEF WTypeOK
    <3>2. Tail(status) \in Seq((SUBSET Addr) \ {{}}) /\ Len(Tail(status)) <= Len(status)
      BY <1>2, <2>2, <3>1
    <3>3. Len(status) \in Nat /\ Len(Tail(status)) \in Nat
      BY <3>1, <3>2
    <3> QED BY <2>2, <3>1, <3>2, <3>3, WranglerAssumption
  <2> QED BY <2>1, <2>2
<1>4. WTypeOK'
  BY <1>1, <1>3 DEF WTypeOK
<1>5. Listed' /\ Resting' /\ Asking' /\ Witnessed' /\ Probed' /\ Asked'
  BY <1>1 DEF Listed, Configured, Resting, Asking, Witnessed, Probed, Asked, Quiet
<1> QED
  BY <1>4, <1>5

\* The ipvs engine between and within reports: what is obsolete and fresh is the
\* difference of its map and the report, and a process runs only on a service of
\* the kernel, without which there are no real servers.
Handling ==
  /\ ~ service => table = {}
  /\ pc \in {"down", "set up", "loop", "handle", "clean up"}
  /\ pc # "down" => service
  /\ pc = "down" => backends = {} /\ failed = {} /\ latest = {}
  /\ pc = "set up" => backends = {} /\ latest = {}
  /\ pc \in {"loop", "clean up"} => backends = latest
  /\ pc = "handle" => obsolete = backends \ latest /\ fresh = latest \ backends

-----------------------------------------------------------------------------
(* The engine. *)

\* The inductive invariant.
IInv == Rounds /\ Handling /\ TableTracked

\* It holds initially, ...
LEMMA EngineInit == Init => IInv
<1> SUFFICES ASSUME Init PROVE IInv
  OBVIOUS
<1>1. Rounds
  BY RoundsInit, WranglerAssumption DEF Init
<1>2. Handling
  BY DEF Init, I!IInit, Handling
<1>3. TableTracked
  BY DEF Init, I!IInit, TableTracked
<1> QED
  BY <1>1, <1>2, <1>3 DEF IInv

\* ... every step of the composition preserves the part of the wrangler, ...
LEMMA RoundsStep == ASSUME Rounds, [Next]_evars PROVE Rounds'
<1>1. CASE Start
  <2>1. UNCHANGED status
    BY <1>1 DEF Start, I!StartLocal, I!StartRemote, I!Create
  <2> QED BY <1>1, <2>1, ReportTaken DEF Start
<1>2. CASE Stop
  <2>1. UNCHANGED status
    BY <1>2 DEF Stop, I!Stop
  <2> QED BY <1>2, <2>1, ReportTaken DEF Stop
<1>3. CASE Clean \/ Crash
  BY <1>3, ProcessGone DEF Clean, Crash
<1>4. CASE Schedule
  <2>1. status' = status \/ (status # <<>> /\ status' = Tail(status))
    BY <1>4 DEF Schedule, I!Schedule, I!AppendRule, I!EventLoop, I!Take, I!RemoveBackend,
         I!AddBackend, I!Handled
  <2> QED BY <1>4, <2>1, ReportTaken DEF Schedule
<1>5. CASE Watch
  BY <1>5, BeginRound, DirectorFails, DirectorAnswers, ResultCollected, RoundReported
     DEF Watch, Monitor
<1>6. ASSUME NEW a \in Addr, ProbeGoesOn(a) \/ ProbeEnds(a) \/ Toggle(a)
      PROVE  Rounds'
  BY <1>6, TalkOn, ProbeHangs, ProbeEnded, ServerChanges DEF ProbeGoesOn, ProbeEnds, Toggle
<1>7. CASE UNCHANGED evars
  BY <1>7, ReportTaken DEF evars, wvars, wranglerOnly
<1> QED
  BY <1>1, <1>2, <1>3, <1>4, <1>5, <1>6, <1>7 DEF Next

\* ... the part of the ipvs engine, ...
LEMMA HandlingStep == ASSUME Handling, [Next]_evars PROVE Handling'
<1> USE DEF Handling
<1>1. CASE Start
  BY <1>1 DEF Start, I!StartLocal, I!StartRemote, I!Create, I!Creates
<1>2. CASE Stop
  <2>1. /\ pc = "loop" /\ pc' = "clean up"
        /\ UNCHANGED <<backends, obsolete, fresh, service, table, failed, latest>>
    BY <1>2 DEF Stop, I!Stop
  <2> QED BY <2>1
<1>3. CASE Clean
  BY <1>3 DEF Clean, I!Clean, I!Gone
<1>4. CASE Crash
  BY <1>4 DEF Crash, I!Crash, I!Gone, I!kernel
<1>5. ASSUME NEW a \in Addr, I!Schedule(a)
      PROVE  Handling'
  <2>1. ASSUME NEW ok \in BOOLEAN, I!AppendRule(ok) PROVE Handling'
    BY <2>1 DEF I!AppendRule
  <2>2. CASE I!Take
    BY <2>2 DEF I!Take, I!Absent, I!kernel
  <2>3. ASSUME NEW ok \in BOOLEAN, I!RemoveBackend(a, ok) PROVE Handling'
    BY <2>3 DEF I!RemoveBackend, I!Outcome
  <2>4. ASSUME NEW ok \in BOOLEAN, I!AddBackend(a, ok) PROVE Handling'
    BY <2>4 DEF I!AddBackend, I!Outcome
  <2>5. CASE I!Handled
    BY <2>5 DEF I!Handled, I!kernel
  <2> QED BY <1>5, <2>1, <2>2, <2>3, <2>4, <2>5 DEF I!Schedule, I!EventLoop
<1>6. CASE UNCHANGED ivars
  BY <1>6 DEF ivars
<1> QED
  BY <1>1, <1>2, <1>3, <1>4, <1>5, <1>6
     DEF Next, Schedule, Watch, ProbeGoesOn, ProbeEnds, Toggle, evars

\* ... and the relation of its map and the table of the kernel: a command that
\* fails leaves them different in its server only, and is remembered in failed.
LEMMA TrackedStep == ASSUME Handling, TableTracked, [Next]_evars PROVE TableTracked'
<1> USE DEF TableTracked
<1>1. CASE Start
  BY <1>1 DEF Handling, Start, I!StartLocal, I!StartRemote, I!Create, I!Creates
<1>2. CASE Stop
  <2>1. pc = "loop" /\ UNCHANGED <<backends, table, failed>>
    BY <1>2 DEF Stop, I!Stop
  <2> QED BY <2>1
<1>3. CASE Clean \/ Crash
  BY <1>3 DEF Clean, I!Clean, Crash, I!Crash, I!Gone
<1>4. ASSUME NEW a \in Addr, I!Schedule(a)
      PROVE  TableTracked'
  <2>1. CASE I!Take \/ I!Handled
    BY <2>1 DEF I!Take, I!Handled, I!kernel
  <2>2. ASSUME NEW ok \in BOOLEAN, I!AppendRule(ok) PROVE TableTracked'
    BY <2>2 DEF I!AppendRule
  <2>3. ASSUME NEW ok \in BOOLEAN, I!RemoveBackend(a, ok) PROVE TableTracked'
    BY <2>3 DEF I!RemoveBackend, I!Outcome
  <2>4. ASSUME NEW ok \in BOOLEAN, I!AddBackend(a, ok) PROVE TableTracked'
    BY <2>4 DEF I!AddBackend, I!Outcome
  <2> QED BY <1>4, <2>1, <2>2, <2>3, <2>4 DEF I!Schedule, I!EventLoop
<1>5. CASE UNCHANGED ivars
  BY <1>5 DEF ivars
<1> QED
  BY <1>1, <1>2, <1>3, <1>4, <1>5
     DEF Next, Schedule, Watch, ProbeGoesOn, ProbeEnds, Toggle, evars

\* IInv is an invariant of the engine with -ipvs (package engine/ipvs) and its
\* wrangler, for any servers, configurations and capacity of the status channel.
THEOREM Inductive == Spec => []IInv
<1>1. ASSUME IInv, [Next]_evars PROVE IInv'
  BY <1>1, RoundsStep, HandlingStep, TrackedStep DEF IInv
<1> QED
  BY EngineInit, <1>1, PTL DEF Spec

\* The wrangler keeps its types: no report is empty, and the status channel is
\* never over its capacity.
THEOREM ReportsTyped == Spec => []WTypeOK
<1>1. IInv => WTypeOK
  BY DEF IInv, Rounds
<1> QED
  BY Inductive, <1>1, PTL

\* A round of probes concludes what it may, for every driver and every list of
\* directors: BuildActiveBackends reorders the list it walks and passes over none.
THEOREM RoundsSound == Spec => []Sound
<1>1. IInv => Sound
  BY RoundsConclude DEF IInv
<1> QED
  BY Inductive, <1>1, PTL

\* The first director is the one that answered last.
THEOREM AnswererFirst == Spec => []FirstAnswered
<1>1. IInv => FirstAnswered
  BY RoundsConclude DEF IInv
<1> QED
  BY Inductive, <1>1, PTL

\* Between two reports IPvs.backends is the last report.
THEOREM ReportsApplied == Spec => []ReportApplied
<1>1. IInv => ReportApplied
  BY DEF IInv, Handling, ReportApplied
<1> QED
  BY Inductive, <1>1, PTL

\* The table of the kernel is the map of the engine but for servers with a failed
\* command, whatever state an earlier process left behind.
THEOREM TableFollowsMap == Spec => []TableTracked
<1>1. IInv => TableTracked
  BY DEF IInv
<1> QED
  BY Inductive, <1>1, PTL
=============================================================================
