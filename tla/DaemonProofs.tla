---------------------------- MODULE DaemonProofs ----------------------------
(***************************************************************************)
(* Theorems about modules Listeners and Daemon, for every value of their   *)
(* constants.                                                              *)
(***************************************************************************)
EXTENDS Daemon, TLAPS

-----------------------------------------------------------------------------
(* The inductive invariant. *)

\* Past WritePid: the foreground process or the monitor is at work.
Past(i) == main[i] \in {"wait", "spawn", "watch", "reap", "pause"}

\* How an instance was started decides what it does.  Only the foreground process
\* serves in the process that wrote the pid file, and only it is stopped.
Modal ==
  /\ mode \in [Inst -> {Foreground, Supervised}]
  /\ \A i \in Inst : mode[i] = Foreground =>
       /\ main[i] \notin {"spawn", "watch", "reap", "pause"}
       /\ server[i] # "none" => main[i] = "wait"
  /\ \A i \in Inst : server[i] = "stop" => mode[i] = Foreground

\* Unless two starts overlap: the file names who is past WritePid, one process at
\* most is between Stat and the end of Write, nobody is past WritePid while it
\* creates and writes the file, and the file it writes is the one of that name,
\* as only an instance past WritePid removes it.
Exclusive ==
  ~ raced =>
    /\ \A i \in Inst : Past(i) => file = i
    /\ \A i, j \in Inst : Setting(i) /\ Setting(j) => i = j
    /\ \A i, j \in Inst : main[i] \in {"create", "write"} => ~ Past(j)
    /\ \A i \in Inst : main[i] = "write" => i \in linked

\* The inductive invariant.
IInv == DTypeOK /\ Modal /\ Exclusive

\* It holds initially.
LEMMA DaemonInit == DInit => IInv
<1> SUFFICES ASSUME DInit PROVE IInv
  OBVIOUS
<1>1. DTypeOK
  BY ListenersAssumption, DaemonAssumption DEF DInit, LInit, DTypeOK
<1>2. Modal
  BY DaemonAssumption DEF DInit, LInit, Modal, Foreground, Supervised
<1>3. Exclusive
  BY DEF DInit, Exclusive, Past, Setting
<1> QED
  BY <1>1, <1>2, <1>3 DEF IInv

\* What is left of a process that is over has the declared types.
LEMMA ProcessTyped ==
  ASSUME DTypeOK, NEW i \in Inst, ProcessOver(i)
  PROVE  /\ server' = [server EXCEPT ![i] = "none"]
         /\ server' \in [Inst -> {"none", "boot", "up", "stop"}]
         /\ acceptor' \in [Inst -> [Listener -> {"none", "accept", "send", "gone"}]]
         /\ address' \in [Listener -> Inst \cup {Free, Left}]
         /\ \A k \in Listener :
              address'[k] \in Inst => acceptor'[address'[k]][k] \in {"accept", "send"}
         /\ \A k \in Listener : address'[k] = Left => k \in Unix
  BY ListenersAssumption DEF DTypeOK, ProcessOver, Freed

\* So has what a goroutine of a listener does.
LEMMA ListenerTyped ==
  ASSUME DTypeOK, NEW i \in Inst, NEW l \in Listener,
         Listen(i, l) \/ Accept(i, l) \/ Hand(i, l) \/ AcceptFails(i, l)
         \/ CloseListener(i, l)
  PROVE  /\ server' \in [Inst -> {"none", "boot", "up", "stop"}]
         /\ acceptor' \in [Inst -> [Listener -> {"none", "accept", "send", "gone"}]]
         /\ address' \in [Listener -> Inst \cup {Free, Left}]
         /\ \A k \in Listener :
              address'[k] \in Inst => acceptor'[address'[k]][k] \in {"accept", "send"}
         /\ \A k \in Listener : address'[k] = Left => k \in Unix
         /\ server' = server
<1> USE DEF DTypeOK
<1>1. CASE Listen(i, l)
  BY <1>1, ListenersAssumption DEF Listen, AtListener
<1>2. CASE Accept(i, l)
  BY <1>2 DEF Accept
<1>3. CASE Hand(i, l)
  BY <1>3 DEF Hand
<1>4. CASE AcceptFails(i, l)
  BY <1>4 DEF AcceptFails
<1>5. CASE CloseListener(i, l)
  BY <1>5, ListenersAssumption DEF CloseListener
<1> QED
  BY <1>1, <1>2, <1>3, <1>4, <1>5

\* So have the channels of signals.
LEMMA NotifyTyped ==
  ASSUME DTypeOK, NEW i \in Inst, NEW s \in {"CHLD", "TERM", "OTHER"}, Notify(i, s)
  PROVE  signalc' \in [Inst -> {NoSignal, "TERM", "CHLD", "OTHER"}] /\ dropped' \subseteq Inst
  BY DEF DTypeOK, Notify

-----------------------------------------------------------------------------
(* The steps. *)

\* A step that leaves the processes and the pid file alone.
LEMMA PidFrame ==
  ASSUME Modal, Exclusive, UNCHANGED <<mode, main, pidvars>>,
         \A j \in Inst :
           /\ server'[j] # "none" => server[j] # "none"
           /\ server'[j] = "stop" => mode[j] = Foreground
  PROVE  Modal' /\ Exclusive'
  BY DEF Modal, Exclusive, Past, Setting, pidvars

\* Each action preserves the invariant: a process starts, ...
LEMMA LaunchStep == ASSUME IInv, NEW i \in Inst, Launch(i) PROVE IInv'
<1> USE DEF IInv
<1>1. PICK ok \in BOOLEAN : Load(i, ok) /\ Goto(i, IF ok THEN "stat" ELSE "over")
  BY DEF Launch
<1>2. /\ main[i] = "new"
      /\ main' = [main EXCEPT ![i] = IF ok THEN "stat" ELSE "over"]
      /\ UNCHANGED <<server, acceptor, address, mode, signalc, doomed, file, linked, raced,
                     content, dropped>>
  BY <1>1 DEF Launch, Goto, lvars, pidvars
<1>3. misled' \subseteq Inst
  BY <1>1 DEF Load, DTypeOK
<1>4. DTypeOK'
  BY <1>2, <1>3 DEF DTypeOK
<1>5. Modal'
  BY <1>2, <1>4 DEF Modal, DTypeOK
<1>6. Exclusive'
  BY <1>2, <1>4 DEF Exclusive, Past, Setting, DTypeOK
<1> QED
  BY <1>4, <1>5, <1>6

\* ... goes through WritePid, ...
LEMMA SetUpStep == ASSUME IInv, NEW i \in Inst, SetUp(i) PROVE IInv'
<1> USE DEF IInv
<1>1. CASE Stat(i)
  <2>1. /\ main[i] = "stat"
        /\ main' = [main EXCEPT ![i] = IF file = NoFile THEN "create" ELSE "read"]
        /\ raced' = (raced \/ \E j \in Inst : Setting(j))
        /\ UNCHANGED <<server, acceptor, address, mode, signalc, doomed, file, linked,
                       content, misled, dropped>>
    BY <1>1 DEF Stat, Goto, lvars, cfgvars
  <2>2. DTypeOK'
    BY <2>1 DEF DTypeOK
  <2>3. Modal'
    BY <2>1 DEF Modal, DTypeOK
  <2>4. Exclusive'
    <3> SUFFICES ASSUME ~ raced' PROVE Exclusive'
      BY DEF Exclusive
    <3>1. ~ raced /\ \A j \in Inst : ~ Setting(j)
      BY <2>1
    <3>2. NoFile \notin Inst
      BY DaemonAssumption
    <3> QED BY <2>1, <3>1, <3>2 DEF Exclusive, Past, Setting, DTypeOK
  <2> QED BY <2>2, <2>3, <2>4
<1>2. CASE ReadPid(i)
  <2>1. /\ main[i] = "read"
        /\ main' = [main EXCEPT ![i] = IF Refused THEN "over" ELSE "create"]
        /\ UNCHANGED <<server, acceptor, address, mode, signalc, doomed, file, linked, raced,
                       content, misled, dropped>>
    BY <1>2 DEF ReadPid, Goto, lvars, pidvars, cfgvars
  <2>2. DTypeOK'
    BY <2>1 DEF DTypeOK
  <2>3. Modal'
    BY <2>1 DEF Modal, DTypeOK
  <2>4. Exclusive'
    <3>1. ASSUME ~ Refused, ~ raced PROVE \A j \in Inst : ~ Past(j)
      BY <3>1 DEF Refused, Exclusive, Past, Alive
    <3> QED BY <2>1, <3>1 DEF Exclusive, Past, Setting, DTypeOK
  <2> QED BY <2>2, <2>3, <2>4
<1>3. CASE Create(i)
  <2>1. /\ main[i] = "create" /\ main' = [main EXCEPT ![i] = "write"]
        /\ file' = Empty /\ linked' = linked \cup {i}
        /\ UNCHANGED <<server, acceptor, address, mode, signalc, doomed, raced,
                       content, misled, dropped>>
    BY <1>3 DEF Create, Goto, lvars, cfgvars
  <2>2. DTypeOK'
    BY <2>1 DEF DTypeOK
  <2>3. Modal'
    BY <2>1 DEF Modal, DTypeOK
  <2>4. Exclusive'
    BY <2>1 DEF Exclusive, Past, Setting, DTypeOK
  <2> QED BY <2>2, <2>3, <2>4
<1>4. CASE Write(i)
  <2>1. /\ main[i] = "write"
        /\ file' = (IF i \in linked THEN i ELSE file) /\ linked' = linked \ {i}
        /\ UNCHANGED <<acceptor, address, mode, signalc, doomed, raced, content, misled, dropped>>
    BY <1>4 DEF Write, cfgvars
  <2>2. \/ /\ mode[i] = Foreground /\ main' = [main EXCEPT ![i] = "wait"]
           /\ server' = [server EXCEPT ![i] = "boot"]
        \/ /\ mode[i] # Foreground /\ main' = [main EXCEPT ![i] = "spawn"]
           /\ server' = server
    BY <1>4 DEF Write, Goto
  <2>3. DTypeOK'
    BY <2>1, <2>2 DEF DTypeOK
  <2>4. Modal'
    BY <2>1, <2>2 DEF Modal, DTypeOK
  <2>5. Exclusive'
    <3>1. ASSUME ~ raced
          PROVE  i \in linked /\ \A j \in Inst : ~ Past(j) /\ (Setting(j) => j = i)
      BY <2>1, <3>1 DEF Exclusive, Setting
    <3>2. ASSUME ~ raced
          PROVE  file' = i /\ \A j \in Inst : (Past(j)' => j = i) /\ ~ Setting(j)'
      BY <2>1, <2>2, <3>1, <3>2 DEF Past, Setting, DTypeOK
    <3> QED BY <2>1, <3>2 DEF Exclusive, Setting
  <2> QED BY <2>3, <2>4, <2>5
<1> QED
  BY <1>1, <1>2, <1>3, <1>4 DEF SetUp

\* ... stops in the foreground and removes the file, ...
LEMMA StopStep == ASSUME IInv, NEW i \in Inst, WaitSignal(i) \/ Return(i) PROVE IInv'
<1> USE DEF IInv
<1>1. CASE WaitSignal(i)
  <2>1. /\ mode[i] = Foreground /\ CloseDone(i) /\ signalc' = [signalc EXCEPT ![i] = NoSignal]
        /\ UNCHANGED <<mode, main, doomed, pidvars, content, misled, dropped>>
    BY <1>1 DEF WaitSignal, cfgvars
  <2>2. DTypeOK'
    BY <2>1 DEF DTypeOK, pidvars, CloseDone
  <2> QED BY <2>1, <2>2, PidFrame DEF CloseDone, DTypeOK, Modal
<1>2. CASE Return(i)
  <2>1. /\ mode[i] = Foreground /\ Stopped(i) /\ ProcessOver(i)
        /\ main' = [main EXCEPT ![i] = "over"] /\ file' = NoFile /\ linked' = {}
        /\ UNCHANGED <<mode, signalc, doomed, raced, content, misled, dropped>>
    BY <1>2 DEF Return, Goto, cfgvars
  <2>2. Past(i)
    BY <2>1 DEF Stopped, Modal, Past
  <2>3. DTypeOK'
    BY <2>1, ProcessTyped DEF DTypeOK
  <2>4. Modal'
    BY <2>1, ProcessTyped DEF Modal, DTypeOK
  <2>5. Exclusive'
    <3>1. ASSUME ~ raced PROVE \A j \in Inst : Past(j) => j = i
      BY <2>2, <3>1 DEF Exclusive
    <3>2. ASSUME ~ raced PROVE \A j \in Inst : main[j] \notin {"create", "write"}
      BY <2>2, <3>2 DEF Exclusive
    <3> QED BY <2>1, <3>1, <3>2 DEF Exclusive, Past, Setting, DTypeOK
  <2> QED BY <2>3, <2>4, <2>5
<1> QED
  BY <1>1, <1>2

\* ... supervises a worker, ...
LEMMA SuperviseStep == ASSUME IInv, NEW i \in Inst, Supervise(i) PROVE IInv'
<1> USE DEF IInv
<1>1. PICK here \in {"spawn", "watch", "reap", "pause"},
           there \in {"spawn", "watch", "reap", "pause", "over"} :
        main[i] = here /\ main' = [main EXCEPT ![i] = there]
  BY DEF Supervise, StartWorker, Watch, Reap, Restart, Goto, DTypeOK
<1>2. UNCHANGED <<acceptor, address, mode, file, linked, raced, content, dropped>>
  BY DEF Supervise, StartWorker, Watch, Reap, Restart, lvars, pidvars, cfgvars
<1>3. /\ server' \in {server, [server EXCEPT ![i] = "boot"]}
      /\ signalc' \in {signalc, [signalc EXCEPT ![i] = NoSignal]}
      /\ doomed' \in {doomed, doomed \cup {i}} /\ misled' \in {misled, misled \cup {i}}
  BY DEF Supervise, StartWorker, Watch, Reap, Restart, lvars, cfgvars
<1>4. DTypeOK'
  BY <1>1, <1>2, <1>3 DEF DTypeOK
<1>5. Modal'
  BY <1>1, <1>2, <1>3 DEF Modal, DTypeOK
<1>6. Exclusive'
  BY <1>1, <1>2 DEF Exclusive, Past, Setting, DTypeOK
<1> QED
  BY <1>4, <1>5, <1>6

\* ... ends as the one that serves, ...
LEMMA ServerEndsStep ==
  ASSUME IInv, NEW i \in Inst, ProcessOver(i), ServerEnds(i) PROVE IInv'
<1> USE DEF IInv
<1>1. /\ doomed' = doomed \ {i} /\ misled' = misled \ {i}
      /\ UNCHANGED <<mode, file, linked, raced, content>>
      /\ main' \in {main, [main EXCEPT ![i] = "over"]}
  BY DEF ServerEnds, Goto, pidvars
<1>2. signalc' \in [Inst -> {NoSignal, "TERM", "CHLD", "OTHER"}] /\ dropped' \subseteq Inst
  BY NotifyTyped DEF ServerEnds, DTypeOK
<1>3. DTypeOK'
  BY <1>1, <1>2, ProcessTyped DEF DTypeOK
<1>4. Modal'
  BY <1>1, ProcessTyped DEF Modal, DTypeOK
<1>5. Exclusive'
  BY <1>1 DEF Exclusive, Past, Setting, DTypeOK
<1> QED
  BY <1>3, <1>4, <1>5

\* ... is killed, ...
LEMMA CrashStep == ASSUME IInv, NEW i \in Inst, Crash(i) PROVE IInv'
<1> USE DEF IInv
<1>1. CASE ProcessOver(i) /\ ServerEnds(i)
  BY <1>1, ServerEndsStep
<1>2. CASE /\ Alive(i) /\ (mode[i] = Supervised \/ server[i] = "none")
           /\ main' = [main EXCEPT ![i] = "killed"]
           /\ signalc' = [signalc EXCEPT ![i] = NoSignal]
           /\ misled' \in {misled, misled \ {i}}
           /\ UNCHANGED <<server, acceptor, address, mode, doomed, file, linked, raced,
                          content, dropped>>
  <2>1. DTypeOK'
    BY <1>2 DEF DTypeOK
  <2>2. Modal'
    BY <1>2 DEF Modal, DTypeOK, Foreground, Supervised
  <2>3. Exclusive'
    BY <1>2 DEF Exclusive, Past, Setting, DTypeOK
  <2> QED BY <2>1, <2>2, <2>3
<1> QED
  BY <1>1, <1>2 DEF Crash, Goto, lvars, pidvars

\* ... gets a signal, ...
LEMMA SignalStep ==
  ASSUME IInv, NEW i \in Inst, NEW s \in {"TERM", "OTHER"}, Signal(i, s) PROVE IInv'
<1> USE DEF IInv
<1>1. /\ Notify(i, s)
      /\ UNCHANGED <<server, acceptor, address, mode, main, doomed, pidvars, content, misled>>
  BY DEF Signal, lvars, cfgvars
<1>2. DTypeOK'
  BY <1>1, NotifyTyped DEF DTypeOK, pidvars
<1> QED
  BY <1>1, <1>2, PidFrame DEF Modal

\* ... has its configuration changed, ...
LEMMA EditStep == ASSUME IInv, NEW c \in Contents, Edit(c) PROVE IInv'
<1> USE DEF IInv
<1>1. /\ content' = c
      /\ UNCHANGED <<server, acceptor, address, mode, main, signalc, doomed, pidvars, misled,
                     dropped>>
  BY DEF Edit, lvars
<1>2. DTypeOK'
  BY <1>1 DEF DTypeOK, pidvars
<1> QED
  BY <1>1, <1>2, PidFrame DEF Modal

\* ... comes to the end of native.Serve, ...
LEMMA ServedStep == ASSUME IInv, NEW i \in Inst, Only(Served(i)) PROVE IInv'
<1> USE DEF IInv
<1>1. /\ server' = [server EXCEPT ![i] = "up"] /\ server[i] = "boot"
      /\ UNCHANGED <<acceptor, address, mode, main, signalc, doomed, pidvars, content, misled,
                     dropped>>
  BY DEF Only, Served, cfgvars
<1>2. DTypeOK'
  BY <1>1 DEF DTypeOK, pidvars
<1>3. \A j \in Inst :
        /\ server'[j] # "none" => server[j] # "none"
        /\ server'[j] = "stop" => mode[j] = Foreground
  BY <1>1 DEF DTypeOK, Modal
<1> QED
  BY <1>1, <1>2, <1>3, PidFrame

\* ... or serves a listener.
LEMMA ListenerStep ==
  ASSUME IInv, NEW i \in Inst, NEW l \in Listener,
         Only(Listen(i, l)) \/ Only(Accept(i, l)) \/ Only(Acceptor(i, l)) \/ Only(Closer(i, l))
  PROVE  IInv'
<1> USE DEF IInv
<1>1. UNCHANGED <<mode, main, signalc, doomed, pidvars, content, misled, dropped>>
  BY DEF Only, cfgvars
<1>2. Listen(i, l) \/ Accept(i, l) \/ Hand(i, l) \/ AcceptFails(i, l) \/ CloseListener(i, l)
  BY DEF Only, Acceptor, Closer
<1>3. DTypeOK'
  BY <1>1, <1>2, ListenerTyped DEF DTypeOK, pidvars
<1>4. server' = server
  BY <1>2, ListenerTyped
<1> QED
  BY <1>1, <1>3, <1>4, PidFrame DEF Modal

\* Every step preserves it.
LEMMA Step == ASSUME IInv, [DNext]_dvars PROVE IInv'
<1>1. CASE UNCHANGED dvars
  <2>1. UNCHANGED <<server, acceptor, address, mode, main, signalc, doomed, pidvars, content,
                  misled, dropped>>
    BY <1>1 DEF dvars, lvars, pidvars
  <2>2. DTypeOK'
    BY <2>1 DEF DTypeOK, IInv, pidvars
  <2> QED BY <2>1, <2>2, PidFrame DEF IInv, Modal
<1>2. ASSUME NEW i \in Inst, Launch(i) \/ Main(i) PROVE IInv'
  BY <1>2, LaunchStep, SetUpStep, StopStep, SuperviseStep DEF Main
<1>3. ASSUME NEW i \in Inst, Fails(i) PROVE IInv'
  <2>1. ProcessOver(i) /\ ServerEnds(i)
    BY <1>3 DEF Fails, Misled, Unserved, ListenFails, Terminated
  <2> QED BY <2>1, ServerEndsStep
<1>4. ASSUME NEW i \in Inst, Only(Serve(i)) PROVE IInv'
  <2>1. Only(Served(i)) \/ \E l \in Listener : Only(Listen(i, l))
    BY <1>4 DEF Only, Serve
  <2> QED BY <2>1, ServedStep, ListenerStep
<1>5. ASSUME NEW i \in Inst, NEW l \in Listener,
             Only(Accept(i, l) \/ Acceptor(i, l) \/ Closer(i, l))
      PROVE  IInv'
  <2>1. Only(Accept(i, l)) \/ Only(Acceptor(i, l)) \/ Only(Closer(i, l))
    BY <1>5 DEF Only
  <2> QED BY <2>1, ListenerStep
<1> QED
  BY <1>1, <1>2, <1>3, <1>4, <1>5, CrashStep, SignalStep, EditStep DEF DNext

-----------------------------------------------------------------------------
(* What follows. *)

\* IInv is an invariant of any number of instances, listeners, signals and crashes.
THEOREM Inductive == DSpec => []IInv
  BY DaemonInit, Step, PTL DEF DSpec

\* The types; an address in use has an acceptor, and only that of a unix listener
\* is ever left behind.
THEOREM TypeCorrect == DSpec => []DTypeOK
<1>1. IInv => DTypeOK
  BY DEF IInv
<1> QED
  BY Inductive, <1>1, PTL

\* The pid file keeps a second instance out (utils.WritePid) unless two starts
\* overlap: with any history of stops and crashes it names whoever is past it.
THEOREM GuardedByFile == DSpec => []Guarded
<1>1. IInv => Guarded
  <2> SUFFICES ASSUME IInv, ~ raced, NEW i \in Inst, Alive(i), main[i] # "stat", ~ Setting(i)
               PROVE  file = i
    BY DEF Guarded
  <2>1. Past(i)
    BY DEF IInv, DTypeOK, Alive, Setting, Past
  <2> QED BY <2>1 DEF IInv, Exclusive
<1> QED
  BY Inductive, <1>1, PTL

\* Once wgroup.Wait can return, it can until the process is over: Listen needs the
\* loop of Serve, and Accept an acceptor that has not gone.
LEMMA StoppedStays ==
  ASSUME IInv, [DNext]_dvars, NEW i \in Inst, Stopped(i)
  PROVE  Stopped(i)' \/ server'[i] = "none"
<1> USE DEF IInv
<1>1. /\ server[i] = "stop" /\ main[i] = "wait"
      /\ \A l \in Listener : acceptor[i][l] \notin {"accept", "send"}
  BY DEF Stopped, Awaited, Modal
<1>2. ASSUME server'[i] = server[i], acceptor'[i] = acceptor[i]
      PROVE  Stopped(i)'
  BY <1>1, <1>2 DEF Stopped, Awaited
<1>3. ASSUME NEW j \in Inst, Launch(j) \/ SetUp(j) \/ Supervise(j)
      PROVE  server'[i] = server[i] /\ acceptor' = acceptor
  BY <1>1, <1>3 DEF Launch, SetUp, Stat, ReadPid, Create, Write, Supervise, StartWorker, Watch,
     Reap, Restart, lvars, DTypeOK
<1>4. ASSUME NEW j \in Inst, WaitSignal(j)
      PROVE  server'[i] = server[i] /\ acceptor' = acceptor
  BY <1>1, <1>4 DEF WaitSignal, CloseDone, DTypeOK
<1>5. ASSUME NEW j \in Inst, ProcessOver(j)
      PROVE  server'[i] = "none" \/ (server'[i] = server[i] /\ acceptor'[i] = acceptor[i])
  BY <1>5 DEF ProcessOver, DTypeOK
<1>6. ASSUME NEW j \in Inst, Return(j) \/ Fails(j) \/ Crash(j)
      PROVE  ProcessOver(j) \/ UNCHANGED lvars
  BY <1>6 DEF Return, Fails, Misled, Unserved, ListenFails, Terminated, Crash
<1>7. ASSUME NEW j \in Inst, Served(j)
      PROVE  server'[i] = server[i] /\ acceptor' = acceptor
  BY <1>1, <1>7 DEF Served, DTypeOK
<1>8. ASSUME NEW j \in Inst, NEW l \in Listener,
             Listen(j, l) \/ Accept(j, l) \/ Acceptor(j, l) \/ Closer(j, l)
      PROVE  server' = server /\ acceptor'[i] = acceptor[i]
  <2>1. acceptor'[i] = acceptor[i] \/ j = i
    BY <1>8 DEF Listen, Accept, Acceptor, Hand, AcceptFails, Closer, CloseListener, DTypeOK
  <2>2. CASE j = i
    BY <1>1, <1>8, <2>2 DEF Listen, AtListener, Accept, Acceptor, Hand, AcceptFails, Closer,
       CloseListener
  <2> QED BY <1>8, <2>1, <2>2 DEF Listen, Accept, Acceptor, Hand, AcceptFails, Closer, CloseListener
<1>9. CASE UNCHANGED lvars
  BY <1>9, <1>2 DEF lvars
<1>10. ASSUME NEW j \in Inst, Main(j) \/ Launch(j)
       PROVE  Stopped(i)' \/ server'[i] = "none"
  BY <1>2, <1>3, <1>4, <1>5, <1>6, <1>9, <1>10 DEF Main
<1>11. ASSUME NEW j \in Inst, Fails(j) \/ Crash(j)
       PROVE  Stopped(i)' \/ server'[i] = "none"
  BY <1>2, <1>5, <1>6, <1>9, <1>11
<1>12. ASSUME NEW j \in Inst, Only(Serve(j))
       PROVE  Stopped(i)' \/ server'[i] = "none"
  BY <1>2, <1>7, <1>8, <1>12 DEF Only, Serve
<1>13. ASSUME NEW j \in Inst, NEW l \in Listener,
              Only(Accept(j, l) \/ Acceptor(j, l) \/ Closer(j, l))
       PROVE  Stopped(i)' \/ server'[i] = "none"
  BY <1>2, <1>8, <1>13 DEF Only
<1>14. ASSUME NEW j \in Inst, NEW c, NEW s, Edit(c) \/ Signal(j, s)
       PROVE  UNCHANGED lvars
  BY <1>14 DEF Edit, Signal
<1>15. CASE UNCHANGED dvars
  BY <1>9, <1>15 DEF dvars
<1> QED
  BY <1>9, <1>10, <1>11, <1>12, <1>13, <1>14, <1>15 DEF DNext

\* When Stop may return no acceptor holds a connection that the scheduler did not
\* get, and none will accept one before the process is over (main.Stop and
\* native.Serve).
THEOREM NothingAcceptedIsLost == DSpec => NothingLost
<1>1. ASSUME NEW i \in Inst, NEW l \in Listener, Stopped(i)
      PROVE  acceptor[i][l] # "send"
  BY <1>1 DEF Stopped, Awaited
<1>2. ASSUME IInv, [DNext]_dvars, NEW i \in Inst, Stopped(i)
      PROVE  /\ \A l \in Listener : acceptor[i][l] # "send"
             /\ Stopped(i)' \/ server'[i] = "none"
  BY <1>1, <1>2, StoppedStays
<1> DEFINE Kept ==
      \A i \in Inst : Stopped(i) =>
        /\ \A l \in Listener : acceptor[i][l] # "send"
        /\ Stopped(i)' \/ server'[i] = "none"
<1>3. IInv /\ [DNext]_dvars => [Kept]_dvars
  BY <1>2
<1> HIDE DEF Kept
<1>4. DSpec => [][Kept]_dvars
  BY Inductive, <1>3, PTL DEF DSpec
<1> QED
  BY <1>4 DEF Kept, NothingLost
=============================================================================
