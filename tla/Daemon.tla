------------------------------- MODULE Daemon -------------------------------
(***************************************************************************)
(* Instances of gbalancer as processes (daemon/daemon.go, supervisor.go    *)
(* and utils.WritePid), in the foreground or as a daemon.  A daemon is a   *)
(* monitor, which writes the pid file, and a worker that the monitor       *)
(* starts, waits for and starts again.  Instances are started together or  *)
(* after each other, with the same pid file and the same listeners.        *)
(*                                                                         *)
(* The signals a process asked for arrive on a channel of one; a signal    *)
(* that finds it full is dropped.  The worker asks for none.  Each process *)
(* loads the configuration file when it starts (main.go), and the file is  *)
(* edited meanwhile.  The launcher only starts the monitor and is part of  *)
(* that step; process ids are not used again.                              *)
(***************************************************************************)
EXTENDS Listeners, FiniteSets

CONSTANTS
  Modes,        \* how the instances may be started
  MaxSignals,   \* bound on signals sent to the instances
  MaxCrashes,   \* bound on processes killed
  NoFile, Empty, NoSignal

Foreground == "foreground"
Supervised == "daemon"

ASSUME DaemonAssumption ==
  /\ IsFiniteSet(Inst) /\ IsFiniteSet(Listener)
  /\ MaxSignals \in Nat /\ MaxCrashes \in Nat
  /\ Modes \subseteq [Inst -> {Foreground, Supervised}]
  /\ {NoFile, Empty} \cap Inst = {}

VARIABLES
  mode,      \* Daemon.Foreground
  main,      \* the foreground process or the monitor:
             \*   "new", "stat", "read", "create", "write" (WritePid), "wait" (Start),
             \*   "spawn", "watch" (startWorker), "reap", "pause" (supervise), "over", "killed"
  signalc,   \* Daemon.Signalc of that process
  doomed,    \* workers to which SIGTERM was forwarded
  file,      \* the pid file: its content, Empty or NoFile
  linked,    \* the file that a process has open is the one the name stands for
  content,   \* what is in the configuration file
  misled,    \* processes whose configuration lets them not serve
  signals, crashes,
  dropped,   \* history: instances that lost a signal
  raced      \* history: two instances were in WritePid at once

dvars == <<lvars, mode, main, signalc, doomed, file, linked,
           content, misled, signals, crashes, dropped, raced>>
pidvars == <<file, linked, raced>>
cfgvars == <<content, misled>>
bounds == <<signals, crashes>>

\* A bad file either cannot be read or decoded (LoadConfig fails), or has an
\* address to listen on without "://" (GetListenAddrs fails).
Contents == {"good", "bad"}
LoadConfig(ok) == content = "good" => ok
GetListenAddrs == content = "good"

DInit ==
  /\ LInit
  /\ mode \in Modes
  /\ main = [i \in Inst |-> "new"]
  /\ signalc = [i \in Inst |-> NoSignal]
  /\ doomed = {} /\ dropped = {}
  /\ file = NoFile /\ linked = {} /\ raced = FALSE
  /\ content \in Contents /\ misled = {}
  /\ signals = 0 /\ crashes = 0

Goto(i, where) == main' = [main EXCEPT ![i] = where]
Alive(i) == main[i] \notin {"new", "over", "killed"}

\* signal.Notify does not wait for room in the channel.
Notify(i, s) ==
  IF signalc[i] = NoSignal
  THEN signalc' = [signalc EXCEPT ![i] = s] /\ UNCHANGED dropped
  ELSE dropped' = dropped \cup {i} /\ UNCHANGED signalc

-----------------------------------------------------------------------------
(* Sink and WritePid. *)

\* main loads the configuration before Sink ...
Load(i, ok) ==
  /\ LoadConfig(ok)
  /\ misled' = IF ok /\ mode[i] = Foreground /\ ~ GetListenAddrs THEN misled \cup {i} ELSE misled

\* ... in the foreground process, or in the launcher and the monitor it starts.
Launch(i) ==
  /\ main[i] = "new"
  /\ \E ok \in BOOLEAN : Load(i, ok) /\ Goto(i, IF ok THEN "stat" ELSE "over")
  /\ UNCHANGED <<lvars, mode, signalc, doomed, pidvars, content, bounds, dropped>>

Setting(i) == main[i] \in {"read", "create", "write"}

Stat(i) ==
  /\ main[i] = "stat"
  /\ Goto(i, IF file = NoFile THEN "create" ELSE "read")
  /\ raced' = (raced \/ \E j \in Inst : Setting(j))
  /\ UNCHANGED <<lvars, mode, signalc, doomed, file, linked, cfgvars, bounds, dropped>>

\* The file is gone, or empty (Read returns EOF), or names a live process.
Refused_Unchecked == file \in {NoFile, Empty}
Refused == file \in {NoFile, Empty} \/ \E j \in Inst : file = j /\ Alive(j)

ReadPid(i) ==
  /\ main[i] = "read"
  /\ Goto(i, IF Refused THEN "over" ELSE "create")
  /\ UNCHANGED <<lvars, mode, signalc, doomed, pidvars, cfgvars, bounds, dropped>>

\* os.Create truncates the file if there is one.
Create(i) ==
  /\ main[i] = "create" /\ Goto(i, "write")
  /\ file' = Empty
  /\ linked' = linked \cup {i}
  /\ UNCHANGED <<lvars, mode, signalc, doomed, raced, cfgvars, bounds, dropped>>

\* Then the foreground process serves; the monitor starts a worker.
Write(i) ==
  /\ main[i] = "write"
  /\ file' = IF i \in linked THEN i ELSE file
  /\ linked' = linked \ {i}
  /\ IF mode[i] = Foreground
     THEN Goto(i, "wait") /\ server' = [server EXCEPT ![i] = "boot"]
     ELSE Goto(i, "spawn") /\ UNCHANGED server
  /\ UNCHANGED <<acceptor, address, mode, signalc, doomed, raced, cfgvars, bounds, dropped>>

-----------------------------------------------------------------------------
(* The foreground process. *)

\* WaitSignal: any signal makes it call Stop, the first half of which this is.
WaitSignal(i) ==
  /\ mode[i] = Foreground /\ main[i] = "wait" /\ signalc[i] # NoSignal
  /\ CloseDone(i)
  /\ signalc' = [signalc EXCEPT ![i] = NoSignal]
  /\ UNCHANGED <<mode, main, doomed, pidvars, cfgvars, bounds, dropped>>

\* Stop returns; cleanPidfile, and main returns.
Return(i) ==
  /\ mode[i] = Foreground /\ Stopped(i)
  /\ ProcessOver(i) /\ Goto(i, "over")
  /\ file' = NoFile /\ linked' = {}
  /\ UNCHANGED <<mode, signalc, doomed, raced, cfgvars, bounds, dropped>>

-----------------------------------------------------------------------------
(* The monitor. *)

\* The worker runs main again, and so loads the configuration again; whether
\* that fails or Serve does makes no difference to the others.
StartWorker(i) ==
  /\ main[i] = "spawn" /\ Goto(i, "watch")
  /\ server' = [server EXCEPT ![i] = "boot"]
  /\ misled' = IF GetListenAddrs THEN misled ELSE misled \cup {i}
  /\ UNCHANGED <<acceptor, address, mode, signalc, doomed, pidvars, content, bounds, dropped>>

\* The loop of startWorker: a child ended, or SIGTERM is forwarded and the
\* monitor exits, or another signal is ignored.
Watch(i) ==
  /\ main[i] = "watch" /\ signalc[i] # NoSignal
  /\ signalc' = [signalc EXCEPT ![i] = NoSignal]
  /\ CASE signalc[i] = "CHLD" -> Goto(i, "reap") /\ UNCHANGED doomed
       [] signalc[i] = "TERM" ->
            /\ Goto(i, "over")
            /\ doomed' = IF server[i] = "none" THEN doomed ELSE doomed \cup {i}
       [] OTHER -> UNCHANGED <<main, doomed>>
  /\ UNCHANGED <<lvars, mode, pidvars, cfgvars, bounds, dropped>>

\* cmd.Wait()
Reap(i) ==
  /\ main[i] = "reap" /\ server[i] = "none" /\ Goto(i, "pause")
  /\ UNCHANGED <<lvars, mode, signalc, doomed, pidvars, cfgvars, bounds, dropped>>

\* Some seconds later the worker is started again.
Restart_Once(i) ==
  /\ main[i] = "pause" /\ Goto(i, "watch")
  /\ UNCHANGED <<lvars, mode, signalc, doomed, pidvars, cfgvars, bounds, dropped>>
Restart(i) ==
  /\ main[i] = "pause" /\ Goto(i, "spawn")
  /\ UNCHANGED <<lvars, mode, signalc, doomed, pidvars, cfgvars, bounds, dropped>>

-----------------------------------------------------------------------------
(* Processes that end. *)

\* The serving process of i ends: the foreground process, or a worker whose
\* monitor, if it is alive, gets SIGCHLD.
ServerEnds(i) ==
  /\ doomed' = doomed \ {i} /\ misled' = misled \ {i}
  /\ IF mode[i] = Foreground
     THEN Goto(i, "over") /\ UNCHANGED <<signalc, dropped>>
     ELSE /\ UNCHANGED main
          /\ IF Alive(i) THEN Notify(i, "CHLD") ELSE UNCHANGED <<signalc, dropped>>
  /\ UNCHANGED <<mode, pidvars, content>>

\* log.Fatal for the configuration, or because an address is in use.
Misled(i) ==
  /\ server[i] = "boot" /\ i \in misled
  /\ ProcessOver(i) /\ ServerEnds(i) /\ UNCHANGED bounds

Unserved(i) ==
  \E l \in Listener :
    i \notin misled /\ ListenFails(i, l) /\ ServerEnds(i) /\ UNCHANGED bounds

\* SIGTERM kills a worker, which did not ask for it.
Terminated(i) ==
  /\ i \in doomed
  /\ ProcessOver(i) /\ ServerEnds(i) /\ UNCHANGED bounds

\* A process is killed: the one that serves, the monitor, or one in Sink.
Crash(i) ==
  /\ crashes < MaxCrashes /\ crashes' = crashes + 1 /\ UNCHANGED signals
  /\ \/ server[i] # "none" /\ ProcessOver(i) /\ ServerEnds(i)
     \/ /\ Alive(i) /\ (mode[i] = Supervised \/ server[i] = "none")
        /\ Goto(i, "killed")
        /\ signalc' = [signalc EXCEPT ![i] = NoSignal]
        /\ misled' = IF server[i] = "none" THEN misled \ {i} ELSE misled
        /\ UNCHANGED <<lvars, mode, doomed, pidvars, content, dropped>>

\* Somebody sends a signal to the foreground process or the monitor.
Signal(i, s) ==
  /\ signals < MaxSignals /\ signals' = signals + 1
  /\ Alive(i)
  /\ Notify(i, s)
  /\ UNCHANGED <<lvars, mode, main, doomed, pidvars, cfgvars, crashes>>

\* Somebody edits the configuration file.
Edit(c) ==
  /\ c # content /\ content' = c
  /\ UNCHANGED <<lvars, mode, main, signalc, doomed, pidvars, misled, bounds, dropped>>

SetUp(i) == Stat(i) \/ ReadPid(i) \/ Create(i) \/ Write(i)
Supervise(i) == StartWorker(i) \/ Watch(i) \/ Reap(i) \/ Restart(i)
Fails(i) == Misled(i) \/ Unserved(i) \/ Terminated(i)

\* What Listeners does leaves the rest alone.
Only(step) == step /\ UNCHANGED <<mode, main, signalc, doomed, pidvars, cfgvars, bounds, dropped>>

\* The code of the foreground process or the monitor, of which one step at most
\* can be taken at a time.
Main(i) == SetUp(i) \/ WaitSignal(i) \/ Return(i) \/ Supervise(i)

DNext ==
  \E i \in Inst :
    \/ Launch(i) \/ Main(i)
    \/ i \notin misled /\ Only(Serve(i))
    \/ Fails(i) \/ Crash(i)
    \/ \E c \in Contents : Edit(c)
    \/ \E s \in {"TERM", "OTHER"} : Signal(i, s)
    \/ \E l \in Listener : Only(Accept(i, l) \/ Acceptor(i, l) \/ Closer(i, l))

DSpec == DInit /\ [][DNext]_dvars

\* Every process and goroutine goes on; users and clients owe nothing.  The
\* closers have one step each, so that one of them cannot hold up another.
DFairness ==
  \A i \in Inst :
    /\ WF_dvars(Main(i))
    /\ WF_dvars((i \notin misled /\ Only(Serve(i))) \/ Fails(i))
    /\ WF_dvars(\E l \in Listener : Only(Closer(i, l)))
    /\ \A l \in Listener : WF_dvars(Only(Acceptor(i, l)))

DFairSpec == DSpec /\ DFairness

-----------------------------------------------------------------------------
(* Properties. *)

DTypeOK ==
  /\ server \in [Inst -> {"none", "boot", "up", "stop"}]
  /\ acceptor \in [Inst -> [Listener -> {"none", "accept", "send", "gone"}]]
  /\ address \in [Listener -> Inst \cup {Free, Left}]
  /\ \A l \in Listener : address[l] \in Inst => acceptor[address[l]][l] \in {"accept", "send"}
  /\ \A l \in Listener : address[l] = Left => l \in Unix
  /\ main \in [Inst -> {"new", "stat", "read", "create", "write", "wait",
                        "spawn", "watch", "reap", "pause", "over", "killed"}]
  /\ signalc \in [Inst -> {NoSignal, "TERM", "CHLD", "OTHER"}]
  /\ file \in Inst \cup {NoFile, Empty}
  /\ content \in Contents /\ misled \subseteq Inst
  /\ linked \subseteq Inst /\ doomed \subseteq Inst /\ dropped \subseteq Inst

\* The pid file keeps a second instance out: unless two starts overlap, it names
\* each instance that is past WritePid, so there is at most one, whatever was
\* left by those that crashed or stopped before.
Guarded ==
  ~ raced => \A i \in Inst : Alive(i) /\ main[i] # "stat" /\ ~ Setting(i) => file = i

\* Stop loses no connection: when wgroup.Wait lets it return every accepted one has
\* been handed to the scheduler, and none is accepted until the process is over.
NothingLost ==
  [][\A i \in Inst : Stopped(i) =>
       /\ \A l \in Listener : acceptor[i][l] # "send"
       /\ Stopped(i)' \/ server'[i] = "none"]_dvars

\* A worker that ended is started again while its monitor runs and has lost no
\* signal on the channel of one.
Restarted ==
  \A i \in Inst :
    (main[i] \in {"spawn", "watch", "reap", "pause"} /\ server[i] = "none")
      ~> (server[i] # "none" \/ ~ Alive(i) \/ i \in dropped)

\* A SIGTERM that found room in the channel ends the instance, all of it, in
\* whatever state the monitor, the worker or the acceptors were; only a monitor
\* that is killed leaves its worker.
Ends ==
  \A i \in Inst :
    signalc[i] = "TERM" ~> (~ Alive(i) /\ (server[i] = "none" \/ main[i] = "killed"))

\* "close the listener makes the unix socket file got removed" (native.go:39):
\* no socket file is left when nothing crashed and every instance is over.
SocketRemoved ==
  crashes = 0 /\ (\A i \in Inst : main[i] = "over" /\ server[i] = "none")
    => \A l \in Listener : address[l] # Left
=============================================================================
