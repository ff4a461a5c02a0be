----------------------------- MODULE EtcdProofs -----------------------------
(***************************************************************************)
(* Theorems about module EtcdClient, for every value of its constants: how *)
(* far a request gets, and that the library implements Requests.           *)
(***************************************************************************)
EXTENDS EtcdClient, TLAPS

-----------------------------------------------------------------------------
(* The inductive invariant. *)

\* trial % len(c.cluster.Machines) is an index of the list, and each one is reached.
LEMMA Modulus ==
  /\ \A k \in Nat : k % N \in Machine
  /\ \A k \in Machine : k % N = k
  /\ N % N = 0
<1>1. N \in Nat \ {0}
  BY EtcdAssumption
<1>2. \A k \in Nat : k % N \in Machine
  BY <1>1 DEF Machine
<1>3. \A k \in Machine : k % N = k
  BY <1>1 DEF Machine
<1>4. N % N = 0
  BY <1>1
<1> QED
  BY <1>2, <1>3, <1>4

\* Trials that go through the list without reaching m are no more than N.
LEMMA Walk ==
  ASSUME NEW m \in Machine, NEW t \in Nat, \A k \in 1 .. t - 1 : k % N # m
  PROVE  t <= N
<1>1. N \in Nat \ {0}
  BY EtcdAssumption
<1>2. CASE m = 0
  BY <1>1, <1>2, Modulus
<1>3. CASE m # 0
  <2>1. m \in 1 .. N - 1 /\ m % N = m
    BY <1>1, <1>3, Modulus DEF Machine
  <2>2. m \notin 1 .. t - 1
    BY <2>1
  <2> QED BY <1>1, <2>1, <2>2
<1> QED
  BY <1>2, <1>3

\* The request of c is under way.
Open(c) == call[c].end = "open"

\* A caller whose request has ended, or is sent, has one.
Busy ==
  \A c \in Caller :
    /\ ~ Open(c) => call[c].kind \in R!Request
    /\ Sent(c) => Open(c) /\ call[c].kind \in R!Request
    /\ Open(c) => call[c].trial <= 2 * N

\* The number of trials of c that are over.
Past(c) == IF Sent(c) THEN call[c].trial - 1 ELSE call[c].trial

\* The next trial, or the one under way, goes to the elected machine ...
Found(c) == Leader = elected /\ Past(c) < 2 * N

\* ... or all trials found a machine that was down, and that was one after the
\* other in the list once the first one failed.
Searching(c) ==
  Past(c) > 0 => Leader = Past(c) % N /\ \A k \in 1 .. Past(c) - 1 : k % N # elected

\* While nothing goes wrong the elected machine stays up, so that the walk through
\* the list comes upon it or upon a machine that names it before the trials are
\* used up: it takes N + 1 trials at most, and one more.
Sought(c) ==
  calm[c] =>
    /\ elected \in up
    /\ call[c].end # "unreachable"
    /\ Open(c) =>
         /\ Sent(c) => call[c].target = Leader
         /\ Past(c) \in Nat
         /\ Found(c) \/ Searching(c)

\* It holds of every caller.
Search == \A c \in Caller : Sought(c)

\* The inductive invariant.
IInv == ETypeOK /\ Busy /\ Search

\* It holds initially.
LEMMA CallerInit == Init => IInv
<1> SUFFICES ASSUME Init PROVE IInv
  OBVIOUS
<1> USE EtcdAssumption DEF Init
<1>1. ETypeOK
  BY DEF ETypeOK, Machine, Majority, First, Idle, Nowhere, R!Request
<1>2. Busy
  BY DEF Busy, Open, Sent, Idle, Nowhere
<1>3. Search
  BY DEF Search, Sought
<1> QED
  BY <1>1, <1>2, <1>3 DEF IInv

-----------------------------------------------------------------------------
(* The steps. *)

\* A caller whose call does not change does not mind what another one does, unless
\* that turns Leader away.
LEMMA Bystander ==
  ASSUME NEW d \in Caller, Sought(d), call'[d] = call[d], elected' = elected,
         elected \in up => elected \in up', calm'[d] => calm[d] /\ Leader' = Leader
  PROVE  Sought(d)'
  BY DEF Sought, Open, Sent, Past, Found, Searching

\* Each action preserves the invariant: a request begins, ...
LEMMA StartStep == ASSUME IInv, NEW c \in Caller, Start(c) PROVE IInv'
<1> USE EtcdAssumption DEF IInv
<1>1. PICK kind \in R!Request : call' = [call EXCEPT ![c] = [Idle EXCEPT !.kind = kind]]
  BY DEF Start, R!Request
<1>2. /\ calm' = [calm EXCEPT ![c] = elected \in up]
      /\ UNCHANGED <<Leader, held, key, up, elected, faults>>
  BY DEF Start, etcd
<1>3. call'[c].kind = kind /\ call'[c].trial = 0 /\ call'[c].target = Nowhere /\ call'[c].end = "open"
  BY <1>1 DEF ETypeOK, Idle
<1>4. ETypeOK'
  BY <1>1, <1>2 DEF ETypeOK, Idle
<1>5. Busy'
  BY <1>1, <1>3 DEF Busy, Open, Sent, ETypeOK
<1>6. Sought(c)'
  <2>1. ~ Sent(c)' /\ Open(c)' /\ Past(c)' = 0
    BY <1>3 DEF Sent, Open, Past
  <2>2. calm'[c] => elected' \in up'
    BY <1>2 DEF ETypeOK
  <2> QED BY <1>3, <2>1, <2>2 DEF Sought, Searching
<1>7. ASSUME NEW d \in Caller, d # c PROVE Sought(d)'
  BY <1>1, <1>2, <1>7, Bystander DEF Search, ETypeOK
<1>8. Search'
  BY <1>6, <1>7 DEF Search
<1> QED
  BY <1>4, <1>5, <1>8

\* ... returns, ...
LEMMA ReturnStep == ASSUME IInv, NEW c \in Caller, Return(c) PROVE IInv'
<1> USE EtcdAssumption DEF IInv
<1>1. /\ call' = [call EXCEPT ![c] = Idle] /\ calm' = [calm EXCEPT ![c] = FALSE]
      /\ held' \in {held, held \cup {c}}
      /\ UNCHANGED <<Leader, key, up, elected, faults>>
  BY DEF Return, etcd
<1>2. ETypeOK'
  BY <1>1 DEF ETypeOK, Idle
<1>3. Busy'
  BY <1>1 DEF Busy, Open, Sent, ETypeOK, Idle
<1>4. ASSUME NEW d \in Caller PROVE Sought(d)'
  <2>1. CASE d = c
    BY <1>1, <2>1 DEF Sought, ETypeOK
  <2>2. CASE d # c
    BY <1>1, <2>2, Bystander DEF Search, ETypeOK
  <2> QED BY <2>1, <2>2
<1> QED
  BY <1>2, <1>3, <1>4 DEF Search

\* ... or ends the process; ...
LEMMA ExitStep == ASSUME IInv, NEW c \in Caller, Exit(c) PROVE IInv'
<1> USE EtcdAssumption DEF IInv
<1>1. /\ Leader' = First /\ held' = {} /\ call' = [d \in Caller |-> Idle]
      /\ key' = [d \in Caller |-> R!Forgotten(key[d])]
      /\ calm' = [d \in Caller |-> FALSE]
      /\ UNCHANGED <<up, elected, faults>>
  BY DEF Exit
<1>2. ETypeOK'
  BY <1>1 DEF ETypeOK, Idle, First, Machine, R!Forgotten
<1>3. Busy'
  BY <1>1 DEF Busy, Open, Sent, Idle
<1>4. Search'
  BY <1>1 DEF Search, Sought
<1> QED
  BY <1>2, <1>3, <1>4

\* ... a trial begins, and not one too many while nothing goes wrong; ...
LEMMA TryStep == ASSUME IInv, NEW c \in Caller, Try(c) PROVE IInv'
<1> USE EtcdAssumption DEF IInv
<1> DEFINE trial == call[c].trial + 1
<1>1. /\ call[c].kind # "idle" /\ call[c].end = "open" /\ call[c].target = Nowhere
      /\ call' = [call EXCEPT ![c].trial = trial,
                              ![c].target = IF Exhausted(trial) THEN Nowhere ELSE Leader,
                              ![c].end = IF Exhausted(trial) THEN "unreachable" ELSE "open"]
      /\ UNCHANGED <<Leader, held, key, up, elected, calm, faults>>
  BY DEF Try, etcd
<1>2. /\ call'[c].kind = call[c].kind /\ call'[c].trial = trial
      /\ call'[c].target = IF Exhausted(trial) THEN Nowhere ELSE Leader
      /\ call'[c].end = IF Exhausted(trial) THEN "unreachable" ELSE "open"
      /\ \A d \in Caller \ {c} : call'[d] = call[d]
  BY <1>1 DEF ETypeOK
<1>3. /\ trial \in 1 .. 2 * N + 1 /\ call[c].trial \in Nat /\ Leader # Nowhere
      /\ call[c].kind \in R!Request
  BY <1>1 DEF ETypeOK, Busy, Open, Machine, Nowhere
<1>4. ETypeOK'
  BY <1>1, <1>2, <1>3 DEF ETypeOK
<1>5. Busy'
  <2>1. /\ ~ Open(c)' => call'[c].kind \in R!Request
        /\ Sent(c)' => Open(c)' /\ call'[c].kind \in R!Request
        /\ Open(c)' => call'[c].trial <= 2 * N
    BY <1>2, <1>3 DEF Open, Sent, Exhausted
  <2> QED BY <1>2, <2>1 DEF Busy, Open, Sent
<1>6. ASSUME calm[c] PROVE ~ Exhausted(trial)
  <2>1. Past(c) = call[c].trial /\ Past(c) < 2 * N
    <3>1. CASE Found(c)
      BY <1>1, <3>1 DEF Found, Past, Sent
    <3>2. CASE Searching(c)
      BY <1>1, <1>3, <3>2, Walk DEF Searching, Past, Sent, ETypeOK
    <3> QED BY <1>1, <1>6, <3>1, <3>2 DEF Search, Sought, Open
  <2> QED BY <1>3, <2>1 DEF Exhausted
<1>7. ASSUME calm[c] PROVE Past(c)' = Past(c) /\ Sent(c)' /\ Open(c)' /\ call'[c].target = Leader
  <2>1. ~ Exhausted(trial)
    BY <1>6, <1>7
  <2>2. Sent(c)' /\ Open(c)' /\ call'[c].target = Leader
    BY <1>2, <1>3, <2>1 DEF Sent, Open
  <2>3. ~ Sent(c)
    BY <1>1 DEF Sent
  <2> QED BY <1>2, <1>3, <2>2, <2>3 DEF Past
<1>8. Sought(c)'
  <2> SUFFICES ASSUME calm'[c] PROVE Sought(c)'
    BY DEF Sought
  <2>1. Past(c) \in Nat /\ elected \in up /\ (Found(c) \/ Searching(c))
    BY <1>1 DEF Search, Sought, Open
  <2> QED BY <1>1, <1>7, <2>1 DEF Sought, Open, Found, Searching
<1>9. ASSUME NEW d \in Caller, d # c PROVE Sought(d)'
  BY <1>1, <1>2, <1>9, Bystander DEF Search
<1>10. Search'
  BY <1>8, <1>9 DEF Search
<1> QED
  BY <1>4, <1>5, <1>10

\* What a trial that is no answer leaves.
LEMMA AgainStep ==
  ASSUME IInv, NEW c \in Caller, Sent(c), Again(c)
  PROVE  /\ call' \in [Caller -> [kind : {"idle"} \cup R!Request, trial : 0 .. 2 * N + 1,
                                  target : Machine \cup {Nowhere},
                                  end : {"open", "ok", "failed", "unreachable"}]]
         /\ Busy'
         /\ call'[c].end = "open" /\ call'[c].target = Nowhere
         /\ call'[c].trial = call[c].trial /\ call[c].trial \in Nat
         /\ \A d \in Caller \ {c} : call'[d] = call[d]
<1> USE DEF IInv
<1>1. call' = [call EXCEPT ![c].target = Nowhere]
  BY DEF Again
<1>2. /\ call'[c].kind = call[c].kind /\ call'[c].trial = call[c].trial
      /\ call'[c].target = Nowhere /\ call'[c].end = call[c].end
      /\ \A d \in Caller \ {c} : call'[d] = call[d]
  BY <1>1 DEF ETypeOK
<1>3. call[c].end = "open" /\ call[c].trial \in Nat /\ call[c].trial <= 2 * N
  BY DEF Busy, Open, ETypeOK
<1>4. Busy'
  <2>1. Open(c)' /\ ~ Sent(c)' /\ call'[c].trial <= 2 * N
    BY <1>2, <1>3 DEF Open, Sent
  <2> QED BY <1>2, <2>1 DEF Busy, Open, Sent
<1> QED
  BY <1>1, <1>2, <1>3, <1>4 DEF ETypeOK

\* ... the trial finds a machine that is down, which is not the elected one, ...
LEMMA UnconnectedStep == ASSUME IInv, NEW c \in Caller, Unconnected(c) PROVE IInv'
<1> USE EtcdAssumption DEF IInv
<1>1. /\ Sent(c) /\ call[c].target \notin up /\ SetLeader(c, Switched(c)) /\ Again(c)
      /\ UNCHANGED <<held, key, up, elected, faults>>
  BY DEF Unconnected, etcd
<1>2. call[c].trial \in Nat /\ Switched(c) \in Machine
  BY Modulus DEF Switched, ETypeOK
<1>3. ETypeOK'
  BY <1>1, <1>2, AgainStep DEF ETypeOK, SetLeader
<1>4. Busy'
  BY <1>1, AgainStep
<1>5. Sought(c)'
  <2> SUFFICES ASSUME calm'[c] PROVE Sought(c)'
    BY DEF Sought
  <2>1. calm[c] /\ Leader' = call[c].trial % N /\ elected' = elected /\ elected \in up'
    BY <1>1 DEF SetLeader, Switched, Search, Sought, ETypeOK
  <2>2. /\ Open(c) /\ call[c].target = Leader /\ Past(c) \in Nat /\ Leader # elected
        /\ Found(c) \/ Searching(c)
    BY <1>1, <2>1 DEF Search, Sought, Busy
  <2>3. Past(c) = call[c].trial - 1 /\ Past(c)' = call[c].trial
    BY <1>1, AgainStep DEF Past, Sent
  <2>4. Searching(c)
    BY <2>2 DEF Found
  <2>5. ASSUME NEW k \in 1 .. Past(c)' - 1 PROVE k % N # elected'
    BY <1>2, <2>1, <2>2, <2>3, <2>4, <2>5 DEF Searching
  <2>6. Searching(c)'
    BY <2>1, <2>3, <2>5 DEF Searching
  <2> QED BY <1>1, <1>2, <2>1, <2>3, <2>6, AgainStep DEF Sought, Open, Sent
<1>6. ASSUME NEW d \in Caller, d # c PROVE Sought(d)'
  <2>1. call'[d] = call[d] /\ (calm'[d] => calm[d] /\ Leader' = Leader)
    BY <1>1, <1>6, AgainStep DEF SetLeader
  <2> QED BY <1>1, <2>1, Bystander DEF Search
<1> QED
  BY <1>3, <1>4, <1>5, <1>6 DEF Search

\* ... or one that names the elected one, ...
LEMMA RedirectedStep == ASSUME IInv, NEW c \in Caller, Redirected(c) PROVE IInv'
<1> USE EtcdAssumption DEF IInv
<1>1. /\ Sent(c) /\ call[c].target \in up \ {elected} /\ SetLeader(c, elected) /\ Again(c)
      /\ UNCHANGED <<held, key, up, elected, faults>>
  BY DEF Redirected, etcd
<1>2. ETypeOK'
  BY <1>1, AgainStep DEF ETypeOK, SetLeader
<1>3. Busy'
  BY <1>1, AgainStep
<1>4. Sought(c)'
  <2> SUFFICES ASSUME calm'[c] PROVE Sought(c)'
    BY DEF Sought
  <2>1. calm[c] /\ Leader' = elected /\ elected' = elected /\ elected \in up'
    BY <1>1 DEF SetLeader, Search, Sought, ETypeOK
  <2>2. /\ Open(c) /\ call[c].target = Leader /\ Past(c) \in Nat /\ Leader # elected
        /\ Found(c) \/ Searching(c)
    BY <1>1, <2>1 DEF Search, Sought, Busy
  <2>3. Past(c) = call[c].trial - 1 /\ Past(c)' = call[c].trial /\ call[c].trial \in Nat
    BY <1>1, AgainStep DEF Past, Sent
  <2>4. Past(c) <= N
    <3>1. CASE Past(c) = 0
      BY <3>1
    <3>2. CASE Past(c) > 0
      <4>1. elected \in Machine /\ \A k \in 1 .. Past(c) - 1 : k % N # elected
        BY <2>2, <3>2 DEF Found, Searching, ETypeOK
      <4> QED BY <2>2, <4>1, Walk
    <3> QED BY <2>2, <3>1, <3>2
  <2>5. N >= 2
    BY <1>1, <2>1, <2>2 DEF ETypeOK, Machine
  <2>6. Past(c)' < 2 * N
    BY <2>2, <2>3, <2>4, <2>5
  <2> QED BY <1>1, <2>1, <2>3, <2>6, AgainStep DEF Sought, Open, Sent, Found
<1>5. ASSUME NEW d \in Caller, d # c PROVE Sought(d)'
  <2>1. call'[d] = call[d] /\ (calm'[d] => calm[d] /\ Leader' = Leader)
    BY <1>1, <1>5, AgainStep DEF SetLeader
  <2> QED BY <1>1, <2>1, Bystander DEF Search
<1> QED
  BY <1>2, <1>3, <1>4, <1>5 DEF Search

\* ... or it is answered, ...
LEMMA AnsweredStep == ASSUME IInv, NEW c \in Caller, Answered(c) PROVE IInv'
<1> USE EtcdAssumption DEF IInv
<1>1. PICK e \in {"ok", "failed"} :
        /\ Sent(c) /\ call' = [call EXCEPT ![c].target = Nowhere, ![c].end = e]
        /\ key' \in {key, [key EXCEPT ![c] = "mine"]}
        /\ UNCHANGED <<Leader, held, up, elected, calm, faults>>
  <2>1. Outcome(c) \in {"ok", "failed"}
    BY DEF Outcome
  <2>2. key' \in {key, [key EXCEPT ![c] = "mine"]}
    <3>1. [key EXCEPT ![c] = @] = key
      BY DEF ETypeOK
    <3> QED BY <3>1 DEF Answered, Write
  <2> QED BY <2>1, <2>2 DEF Answered, AtLeader, End
<1>2. /\ call'[c].kind = call[c].kind /\ call'[c].trial = call[c].trial
      /\ call'[c].target = Nowhere /\ call'[c].end = e
      /\ \A d \in Caller \ {c} : call'[d] = call[d]
  BY <1>1 DEF ETypeOK
<1>3. ETypeOK'
  <2>1. call' \in [Caller -> [kind : {"idle"} \cup R!Request, trial : 0 .. 2 * N + 1,
                             target : Machine \cup {Nowhere},
                             end : {"open", "ok", "failed", "unreachable"}]]
    <3> DEFINE over == [call[c] EXCEPT !.target = Nowhere, !.end = e]
    <3>1. over \in [kind : {"idle"} \cup R!Request, trial : 0 .. 2 * N + 1,
                   target : Machine \cup {Nowhere},
                   end : {"open", "ok", "failed", "unreachable"}]
      BY DEF ETypeOK
    <3>2. call' = [call EXCEPT ![c] = over]
      BY <1>1 DEF ETypeOK
    <3> HIDE DEF over
    <3> QED BY <3>1, <3>2 DEF ETypeOK
  <2>2. key' \in [Caller -> {"free", "mine", "lost", "other"}]
    BY <1>1 DEF ETypeOK
  <2> QED BY <1>1, <2>1, <2>2 DEF ETypeOK
<1>4. Busy'
  <2>1. call'[c].kind \in R!Request /\ ~ Sent(c)' /\ ~ Open(c)'
    BY <1>1, <1>2 DEF Busy, Sent, Open
  <2> QED BY <1>2, <2>1 DEF Busy, Open, Sent
<1>5. Sought(c)'
  BY <1>1, <1>2 DEF Search, Sought, Open
<1>6. ASSUME NEW d \in Caller, d # c PROVE Sought(d)'
  BY <1>1, <1>2, <1>6, Bystander DEF Search
<1> QED
  BY <1>3, <1>4, <1>5, <1>6 DEF Search

\* ... or its connection is lost, ...
LEMMA LostStep == ASSUME IInv, NEW c \in Caller, Lost(c) PROVE IInv'
<1> USE EtcdAssumption DEF IInv
<1>1. /\ Sent(c) /\ Again(c)
      /\ faults < MaxFaults /\ faults' = faults + 1 /\ calm' = [d \in Caller |-> FALSE]
      /\ Leader' \in {Switched(c), Leader}
      /\ UNCHANGED <<held, up, elected>>
  BY DEF Lost, Fault
<1>2. key' \in {key, [key EXCEPT ![c] = "lost"]}
  <2>1. [key EXCEPT ![c] = @] = key
    BY DEF ETypeOK
  <2> QED BY <2>1 DEF Lost, Write
<1>3. call[c].trial \in Nat /\ Switched(c) \in Machine
  BY Modulus DEF Switched, ETypeOK
<1>4. ETypeOK'
  BY <1>1, <1>2, <1>3, AgainStep DEF ETypeOK
<1>5. Busy'
  BY <1>1, AgainStep
<1>6. Search'
  BY <1>1 DEF Search, Sought
<1> QED
  BY <1>4, <1>5, <1>6

\* ... or no machine is elected; ...
LEMMA LeaderlessStep == ASSUME IInv, NEW c \in Caller, Leaderless(c) PROVE IInv'
<1> USE EtcdAssumption DEF IInv
<1>1. /\ Sent(c) /\ Again(c) /\ elected \notin up
      /\ UNCHANGED <<Leader, held, key, up, elected, calm, faults>>
  BY DEF Leaderless, etcd
<1>2. ETypeOK'
  BY <1>1, AgainStep DEF ETypeOK
<1>3. Busy'
  BY <1>1, AgainStep
<1>4. Search'
  BY <1>1 DEF Search, Sought
<1> QED
  BY <1>2, <1>3, <1>4

\* ... a machine goes down, comes up or is elected, ...
LEMMA MachineStep ==
  ASSUME IInv, NEW m \in Machine, Down(m) \/ Restart(m) \/ Elect(m) PROVE IInv'
<1> USE EtcdAssumption DEF IInv
<1>1. UNCHANGED <<Leader, call, held, key>>
  BY DEF Down, Restart, Elect, process
<1>2. ETypeOK'
  <2>1. elected' \in Machine /\ up' \subseteq Machine /\ held' = held
    BY DEF ETypeOK, Down, Restart, Elect, process
  <2>2. calm' \in [Caller -> BOOLEAN] /\ faults' \in 0 .. MaxFaults
    <3>1. CASE Down(m)
      BY <3>1 DEF ETypeOK, Down, Fault
    <3>2. CASE Restart(m) \/ Elect(m)
      BY <3>2 DEF ETypeOK, Restart, Elect
    <3> QED BY <3>1, <3>2
  <2> QED BY <1>1, <2>1, <2>2 DEF ETypeOK
<1>3. Busy'
  BY <1>1 DEF Busy, Open, Sent
<1>4. CASE Down(m)
  BY <1>2, <1>3, <1>4 DEF Down, Fault, Search, Sought
<1>5. CASE Restart(m)
  BY <1>1, <1>2, <1>3, <1>5, Bystander DEF Restart, Search
<1>6. CASE Elect(m)
  BY <1>2, <1>3, <1>6 DEF Elect, Search, Sought
<1> QED
  BY <1>4, <1>5, <1>6

\* ... and a key is changed by others.
LEMMA KeyStep == ASSUME IInv, NEW c \in Caller, KeyChange(c) PROVE IInv'
<1> USE DEF IInv
<1>1. /\ key' \in {[key EXCEPT ![c] = "free"], [key EXCEPT ![c] = "other"]}
      /\ UNCHANGED <<Leader, call, held, up, elected, calm, faults>>
  BY DEF KeyChange, process
<1>2. ETypeOK'
  BY <1>1 DEF ETypeOK
<1>3. Busy'
  BY <1>1 DEF Busy, Open, Sent
<1>4. Search'
  BY <1>1, Bystander DEF Search
<1> QED
  BY <1>2, <1>3, <1>4

\* Every step preserves it.
LEMMA Step == ASSUME IInv, [Next]_vars PROVE IInv'
<1>1. CASE UNCHANGED vars
  <2>1. UNCHANGED <<Leader, call, held, key, up, elected, calm, faults>>
    BY <1>1 DEF vars, process, etcd
  <2>2. ETypeOK' /\ Busy'
    BY <2>1 DEF IInv, ETypeOK, Busy, Open, Sent
  <2>3. Search'
    BY <2>1, Bystander DEF IInv, Search
  <2> QED BY <2>2, <2>3 DEF IInv
<1> QED
  BY <1>1, StartStep, ReturnStep, ExitStep, TryStep, UnconnectedStep, AnsweredStep, LostStep,
     RedirectedStep, LeaderlessStep, MachineStep, KeyStep DEF Next, SendRequest

-----------------------------------------------------------------------------
(* What follows. *)

\* IInv is an invariant of Client.sendRequest for any number of goroutines, machines
\* and faults.
THEOREM Inductive == Spec => []IInv
  BY CallerInit, Step, PTL DEF Spec

\* The types; the number of trials is at most 2 * N + 1.
THEOREM TypeCorrect == Spec => []ETypeOK
<1>1. IInv => ETypeOK
  BY DEF IInv
<1> QED
  BY Inductive, <1>1, PTL

\* A request is given up only if something went wrong meanwhile or another
\* goroutine turned cluster.Leader: for any number of machines, 2 * N trials are
\* enough to find the elected one (client.go of go-etcd).
THEOREM CalmReached == Spec => []Reached
<1>1. IInv => Reached
  BY DEF IInv, Search, Sought, Reached, ETypeOK
<1> QED
  BY Inductive, <1>1, PTL

-----------------------------------------------------------------------------
(* The refinement. *)

\* What Requests knows of c.
Asked(c) == IF Open(c) THEN call[c].kind ELSE call[c].end

\* A step that changes it for one caller only, ...
LEMMA AskedBecomes ==
  ASSUME NEW c \in Caller, NEW a, Asked(c)' = a, \A d \in Caller \ {c} : Asked(d)' = Asked(d)
  PROVE  R!Become(c, a)
  BY DEF R!Become, Asked, Open

\* ... and for none.
LEMMA AskedStays ==
  ASSUME \A d \in Caller : Asked(d)' = Asked(d), key' = key
  PROVE  UNCHANGED R!rvars
  BY DEF R!rvars, Asked, Open

\* Initial states are initial states of Requests.
LEMMA RequestsInit == Init => R!RInit
  BY DEF Init, R!RInit, Idle

\* A step of the library is a step of Requests or none: a trial that is granted
\* and loses its answer is Unanswered, the last trial is GiveUp, and what happens to
\* machines and connections otherwise is not seen.
LEMMA RequestsStep ==
  ASSUME IInv, [Next]_vars
  PROVE  [R!RNext]_R!rvars
<1> USE DEF IInv
<1>1. ASSUME NEW c \in Caller, Start(c) PROVE R!RNext
  <2>1. PICK kind \in R!Request : call' = [call EXCEPT ![c] = [Idle EXCEPT !.kind = kind]]
    BY <1>1 DEF Start, R!Request
  <2>2. call[c] = Idle /\ UNCHANGED key
    BY <1>1 DEF Start, etcd
  <2>3. Asked(c) = "idle" /\ Asked(c)' = kind /\ \A d \in Caller \ {c} : Asked(d)' = Asked(d)
    BY <2>1, <2>2 DEF Asked, Open, Idle, ETypeOK
  <2>4. R!Become(c, kind)
    BY <2>3, AskedBecomes
  <2>5. R!Ask(c)
    BY <2>2, <2>3, <2>4 DEF R!Ask, Asked, Open
  <2> QED BY <2>5 DEF R!RNext
<1>2. ASSUME NEW c \in Caller, Return(c) PROVE R!RNext
  <2>1. call[c].end # "open" /\ call' = [call EXCEPT ![c] = Idle] /\ UNCHANGED key
    BY <1>2 DEF Return, etcd
  <2>2. /\ Asked(c) \in {"ok", "failed", "unreachable"} /\ Asked(c)' = "idle"
        /\ \A d \in Caller \ {c} : Asked(d)' = Asked(d)
    BY <2>1 DEF Asked, Open, Idle, ETypeOK
  <2>3. R!Become(c, "idle")
    BY <2>2, AskedBecomes
  <2>4. R!Return(c)
    BY <2>1, <2>2, <2>3 DEF R!Return, Asked, Open
  <2> QED BY <2>4 DEF R!RNext
<1>3. ASSUME NEW c \in Caller, Exit(c) PROVE R!RNext
  <2>1. R!Exit
    BY <1>3 DEF Exit, R!Exit, Idle
  <2> QED BY <2>1 DEF R!RNext
<1>4. ASSUME NEW c \in Caller, Try(c) PROVE R!RNext \/ UNCHANGED R!rvars
  <2> DEFINE trial == call[c].trial + 1
  <2>1. /\ call[c].kind # "idle" /\ call[c].end = "open" /\ UNCHANGED key
        /\ call'[c].kind = call[c].kind
        /\ call'[c].end = IF Exhausted(trial) THEN "unreachable" ELSE "open"
        /\ \A d \in Caller \ {c} : call'[d] = call[d]
    BY <1>4 DEF Try, etcd, ETypeOK
  <2>2. Asked(c) \in R!Request /\ \A d \in Caller \ {c} : Asked(d)' = Asked(d)
    BY <2>1 DEF Asked, Open, ETypeOK
  <2>3. CASE Exhausted(trial)
    <3>1. R!Become(c, "unreachable")
      BY <2>1, <2>2, <2>3, AskedBecomes DEF Asked, Open
    <3>2. R!GiveUp(c)
      BY <2>1, <2>2, <3>1 DEF R!GiveUp, Asked, Open
    <3> QED BY <3>2 DEF R!RNext
  <2>4. CASE ~ Exhausted(trial)
    BY <2>1, <2>2, <2>4, AskedStays DEF Asked, Open
  <2> QED BY <2>3, <2>4
<1>5. ASSUME NEW c \in Caller, Sent(c), Again(c)
      PROVE  /\ Open(c) /\ Asked(c) = call[c].kind /\ call[c].kind \in R!Request
             /\ \A d \in Caller : Asked(d)' = Asked(d)
  <2>1. /\ call[c].end = "open" /\ call'[c].end = "open" /\ call'[c].kind = call[c].kind
        /\ \A d \in Caller \ {c} : call'[d] = call[d]
    BY <1>5 DEF Busy, Again, Open, ETypeOK
  <2> QED BY <1>5, <2>1 DEF Asked, Open, Busy
<1>6. ASSUME NEW c \in Caller, Unconnected(c) \/ Redirected(c) \/ Leaderless(c)
      PROVE  UNCHANGED R!rvars
  BY <1>5, <1>6, AskedStays DEF Unconnected, Redirected, Leaderless, etcd
<1>7. ASSUME NEW c \in Caller, Lost(c) PROVE R!RNext \/ UNCHANGED R!rvars
  <2>1. Sent(c) /\ Again(c)
    BY <1>7 DEF Lost
  <2>2. CASE UNCHANGED key
    BY <1>5, <2>1, <2>2, AskedStays
  <2>3. CASE R!Grants(call[c].kind, key[c]) /\ Write(c, "lost") /\ key' # key
    <3>1. call[c].kind # "get" /\ key' = [key EXCEPT ![c] = "lost"]
      BY <2>3 DEF Write, ETypeOK
    <3>2. UNCHANGED [d \in Caller |-> Asked(d)]
      BY <1>5, <2>1
    <3>3. R!Unanswered(c)
      BY <1>5, <2>1, <2>3, <3>1, <3>2 DEF R!Unanswered, Asked, Open
    <3> QED BY <3>3 DEF R!RNext
  <2> QED BY <1>7, <2>2, <2>3 DEF Lost
<1>8. ASSUME NEW c \in Caller, Answered(c) PROVE R!RNext
  <2>1. /\ Open(c) /\ Asked(c) = call[c].kind /\ call[c].kind \in R!Request
    BY <1>8 DEF Answered, AtLeader, Busy, Asked, Open
  <2>2. Asked(c)' = Outcome(c) /\ \A d \in Caller \ {c} : Asked(d)' = Asked(d)
    BY <1>8 DEF Answered, End, Outcome, Asked, Open, ETypeOK
  <2>3. CASE R!Grants(call[c].kind, key[c])
    <3>1. R!Become(c, "ok")
      BY <2>2, <2>3, AskedBecomes DEF Outcome
    <3>2. key' = [key EXCEPT ![c] = IF Asked(c) = "get" THEN key[c] ELSE "mine"]
      BY <1>8, <2>1, <2>3 DEF Answered, Outcome, Write
    <3>3. R!Serve(c)
      BY <2>1, <2>3, <3>1, <3>2 DEF R!Serve, Asked, Open
    <3> QED BY <3>3 DEF R!RNext
  <2>4. CASE ~ R!Grants(call[c].kind, key[c])
    <3>1. R!Become(c, "failed")
      BY <2>2, <2>4, AskedBecomes DEF Outcome
    <3>2. UNCHANGED key
      BY <1>8, <2>4 DEF Answered, Outcome
    <3>3. R!Refuse(c)
      BY <2>1, <2>4, <3>1, <3>2 DEF R!Refuse, Asked, Open
    <3> QED BY <3>3 DEF R!RNext
  <2> QED BY <2>3, <2>4
<1>9. ASSUME NEW c \in Caller, KeyChange(c) PROVE R!RNext
  <2>1. call' = call /\ UNCHANGED [d \in Caller |-> Asked(d)]
    BY <1>9 DEF KeyChange, process, Asked, Open
  <2>2. R!Expire(c) \/ R!Rival(c)
    BY <1>9, <2>1 DEF KeyChange, R!Expire, R!Rival, Asked, Open
  <2> QED BY <2>2 DEF R!RNext
<1>10. ASSUME NEW m \in Machine, Down(m) \/ Restart(m) \/ Elect(m)
       PROVE  UNCHANGED R!rvars
  <2>1. UNCHANGED <<call, key>>
    BY <1>10 DEF Down, Restart, Elect, process
  <2> QED BY <2>1, AskedStays DEF Asked, Open
<1>11. CASE UNCHANGED vars
  <2>1. UNCHANGED <<call, key>>
    BY <1>11 DEF vars, process, etcd
  <2> QED BY <2>1, AskedStays DEF Asked, Open
<1> QED
  BY <1>1, <1>2, <1>3, <1>4, <1>6, <1>7, <1>8, <1>9, <1>10, <1>11 DEF Next, SendRequest

\* The library implements Requests, against which Cluster is written: however often
\* a request is sent, its answer is that of etcd and its effect that of one request
\* whose answer may be lost.
THEOREM Refinement == Spec => ImplementsRequests
<1>1. Spec => R!RInit /\ [][R!RNext]_R!rvars
  BY Inductive, RequestsInit, RequestsStep, PTL DEF Spec
<1> QED
  BY <1>1 DEF ImplementsRequests, R!RSpec
=============================================================================
