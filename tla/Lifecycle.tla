----------------------------- MODULE Lifecycle -----------------------------
(***************************************************************************)
(* How a server on the multi-threaded engine starts, is waited for and     *)
(* stops (mdk NetServer, NetEngine, EpollFrame, EpollMonitor, Thread).     *)
(*                                                                         *)
(* One thread starts and stops the server, another waits for its end, a    *)
(* third may ask for ports at any time.  The engine has a main thread, a   *)
(* thread for connections it opens and threads that wait in epoll; the     *)
(* server has a thread for its own Main.  The threads of the workers are   *)
(* those of module TaskPool and not repeated here.                         *)
(*                                                                         *)
(* Nothing wakes a thread that waits in epoll when the engine stops: the   *)
(* socket that is to do it was never given to epoll.  Stop waits three     *)
(* seconds for it and sends SIGHUP, which ends the process.  Nor does any  *)
(* thing tell a WaitStop of a thread that ended before it began to wait.   *)
(***************************************************************************)
EXTENDS Integers, Sequences, SequencesExt, FiniteSets

CONSTANTS
  Ports,     \* ports the server listens to
  Taken,     \* those another process has
  Pollers,   \* threads of m_ioThreads
  MaxStarts  \* bound of the model: starts of the monitor

LifeThreads == {"main", "connect", "own"} \union Pollers

ASSUME LifeAssumption ==
  /\ Taken \subseteq Ports /\ MaxStarts \in Nat /\ IsFiniteSet(Pollers)
  /\ Pollers \intersect {"main", "connect", "own"} = {}

VARIABLES
  m_stop,     \* m_stop of the engine
  monitor,    \* EpollMonitor: m_bStop, and which epoll it made last; 0 is none
  m_serverPorts, \* of each port: was it asked for, which epoll watches its socket
  thread,     \* each Thread: m_bRun, m_bStop, and where it is
  m_sigStop,
  bStop,      \* m_bStop of the server
  caller,     \* who starts and stops: where it is, threads it has still to stop
  waiter,     \* who calls WaitStop
  result,     \* what the last call of Start or Stop came to
  alive       \* the process has not been ended by SIGHUP

lifeVars == <<m_stop, monitor, m_serverPorts, thread, m_sigStop, bStop, caller,
              waiter, result, alive>>

LifeInit ==
  /\ m_stop = TRUE
  /\ monitor = [stop |-> TRUE, epoll |-> 0]
  /\ m_serverPorts = [p \in Ports |-> [asked |-> FALSE, in |-> 0]]
  /\ thread = [t \in LifeThreads |-> [run |-> FALSE, stop |-> TRUE, at |-> "none"]]
  /\ m_sigStop = FALSE /\ bStop = TRUE
  /\ caller = [pc |-> "idle", todo |-> <<>>]
  /\ waiter = "free" /\ result = "none" /\ alive = TRUE

InCall(pc) == alive /\ caller.pc = pc
Continue(pc) == caller' = [caller EXCEPT !.pc = pc]
IsAt(t, pc) == alive /\ thread[t].at = pc
Moves(t, pc) == thread' = [thread EXCEPT ![t].at = pc]
Created(th) == [th EXCEPT !.stop = FALSE, !.at = "loop"]

-----------------------------------------------------------------------------
(* Listening.                                                              *)
ListenPort(p) == IF p \in Taken THEN 0 ELSE monitor.epoll

\* By any thread; before the start it only notes the port.
Listen(p) ==
  /\ alive /\ ~m_serverPorts[p].asked
  /\ m_serverPorts' = [m_serverPorts EXCEPT ![p].asked = TRUE,
                                            ![p].in = IF m_stop THEN 0 ELSE ListenPort(p)]
  /\ UNCHANGED <<m_stop, monitor, thread, m_sigStop, bStop, caller, waiter, result, alive>>

ListenAll ==
  /\ InCall("listen")
  /\ m_serverPorts' = [p \in Ports |->
       IF m_serverPorts[p].asked /\ m_serverPorts[p].in = 0
       THEN [m_serverPorts[p] EXCEPT !.in = ListenPort(p)] ELSE m_serverPorts[p]]
  /\ IF \E p \in Ports : m_serverPorts'[p].asked /\ m_serverPorts'[p].in = 0
     THEN Continue("stopEngine") /\ result' = "failed"
     ELSE Continue("links") /\ UNCHANGED result
  /\ UNCHANGED <<m_stop, monitor, thread, m_sigStop, bStop, waiter, alive>>

-----------------------------------------------------------------------------
(* Start.                                                                  *)
\* Mutant of Start: the flag is cleared when all has been started.
StartLate ==
  /\ InCall("idle") /\ result \in {"none", "failed", "stopped"} /\ monitor.epoll < MaxStarts
  /\ result' = "starting"
  /\ Continue(IF m_stop THEN "monitor" ELSE "server")
  /\ UNCHANGED <<m_stop, monitor, m_serverPorts, thread, m_sigStop, bStop, waiter, alive>>

Start ==
  /\ InCall("idle") /\ result \in {"none", "failed", "stopped"} /\ monitor.epoll < MaxStarts
  /\ result' = "starting"
  /\ m_stop' = FALSE
  /\ Continue(IF m_stop THEN "monitor" ELSE "server")
  /\ UNCHANGED <<monitor, m_serverPorts, thread, m_sigStop, bStop, waiter, alive>>

StartMonitor ==
  /\ InCall("monitor")
  /\ \/ /\ monitor' = [stop |-> FALSE, epoll |-> monitor.epoll + 1]
        /\ Continue("threads") /\ UNCHANGED result
     \/ /\ monitor' = [monitor EXCEPT !.epoll = @ + 1]
        /\ Continue("stopEngine") /\ result' = "failed"
  /\ UNCHANGED <<m_stop, m_serverPorts, thread, m_sigStop, bStop, waiter, alive>>

StartThreads ==
  /\ InCall("threads")
  /\ \A t \in Pollers : thread[t].at \in {"none", "over"}
  /\ thread' = [t \in LifeThreads |-> IF t \in Pollers THEN [Created(thread[t]) EXCEPT !.run = TRUE]
                                      ELSE thread[t]]
  /\ Continue("listen")
  /\ UNCHANGED <<m_stop, monitor, m_serverPorts, m_sigStop, bStop, waiter, result, alive>>

ConnectAll(pc, next) ==
  /\ InCall(pc)
  /\ Continue(next)
  /\ UNCHANGED <<m_stop, monitor, m_serverPorts, thread, m_sigStop, bStop, waiter, result, alive>>

\* Thread::Run does nothing if the flag says that the thread runs.  A thread is
\* not run again before it has left Thread::Main.
After(t) == CASE t = "connect" -> "main" [] t = "main" -> "server" [] t = "own" -> "idle"

RunThread(t) ==
  /\ InCall(t)
  /\ IF thread[t].run THEN Continue(After(t)) /\ UNCHANGED thread
     ELSE /\ thread[t].at \in {"none", "over"}
          /\ thread' = [thread EXCEPT ![t] = Created(@)]
          /\ caller' = [pc |-> "ran", todo |-> <<t>>]
  /\ result' = IF caller'.pc = "idle" THEN "started" ELSE result
  /\ UNCHANGED <<m_stop, monitor, m_serverPorts, m_sigStop, bStop, waiter, alive>>

Ran ==
  LET t == Head(caller.todo)
  IN /\ InCall("ran")
     /\ thread' = [thread EXCEPT ![t].run = TRUE]
     /\ caller' = [pc |-> After(t), todo |-> <<>>]
     /\ result' = IF t = "own" THEN "started" ELSE result
     /\ UNCHANGED <<m_stop, monitor, m_serverPorts, m_sigStop, bStop, waiter, alive>>

StartServer ==
  /\ InCall("server")
  /\ bStop' = FALSE
  /\ Continue("own")
  /\ UNCHANGED <<m_stop, monitor, m_serverPorts, thread, m_sigStop, waiter, result, alive>>

-----------------------------------------------------------------------------
(* Stop of the server and of the engine, and Thread::Stop.                 *)
Stop ==
  /\ InCall("idle") /\ result = "started"
  /\ result' = "stopping"
  /\ bStop' = TRUE
  /\ caller' = [pc |-> "stopThread", todo |-> <<"own">>]
  /\ UNCHANGED <<m_stop, monitor, m_serverPorts, thread, m_sigStop, waiter, alive>>

StopEngine ==
  /\ InCall("stopEngine")
  /\ m_stop' = TRUE
  /\ Continue("stopMonitor")
  /\ UNCHANGED <<monitor, m_serverPorts, thread, m_sigStop, bStop, waiter, result, alive>>

\* epoll does not know m_epollExit, so that it reports nothing.
StopMonitor ==
  /\ InCall("stopMonitor")
  /\ monitor' = [monitor EXCEPT !.stop = TRUE]
  /\ m_sigStop' = TRUE
  /\ caller' = [pc |-> "stopThread", todo |-> <<"main">> \o SetToSeq(Pollers)]
  /\ UNCHANGED <<m_stop, m_serverPorts, thread, bStop, waiter, result, alive>>

IsStopped(t) ==
  /\ caller' = [pc |-> IF Len(caller.todo) > 1 THEN "stopThread"
                       ELSE IF t = "own" THEN "stopEngine" ELSE "idle",
                todo |-> Tail(caller.todo)]
  /\ result' = IF caller'.pc = "idle" /\ result = "stopping" THEN "stopped" ELSE result

StopThread ==
  LET t == Head(caller.todo)
  IN /\ InCall("stopThread")
     /\ IF thread[t].stop THEN IsStopped(t) /\ thread' = [thread EXCEPT ![t].run = FALSE]
        ELSE Continue("toWait") /\ UNCHANGED <<thread, result>>
     /\ UNCHANGED <<m_stop, monitor, m_serverPorts, m_sigStop, bStop, waiter, alive>>

TimedWait ==
  /\ InCall("toWait")
  /\ Continue("timedWait")
  /\ UNCHANGED <<m_stop, monitor, m_serverPorts, thread, m_sigStop, bStop, waiter, result, alive>>

\* A signal to a thread that is over may end the process too, or do nothing.
TimeOut ==
  LET t == Head(caller.todo)
  IN /\ InCall("timedWait")
     /\ alive' \in IF thread[t].at = "over" THEN BOOLEAN ELSE {FALSE}
     /\ IsStopped(t) /\ thread' = [thread EXCEPT ![t].run = FALSE]
     /\ UNCHANGED <<m_stop, monitor, m_serverPorts, m_sigStop, bStop, waiter>>

-----------------------------------------------------------------------------
(* The threads.                                                            *)
Ended(t) ==
  /\ IsAt(t, "end")
  /\ thread' = [thread EXCEPT ![t].stop = TRUE, ![t].at = "broadcast"]
  /\ UNCHANGED <<m_stop, monitor, m_serverPorts, m_sigStop, bStop, caller, waiter, result, alive>>

\* Only who waits already hears of it.
Broadcast(t) ==
  LET heard == caller.pc = "timedWait" /\ Head(caller.todo) = t
  IN /\ IsAt(t, "broadcast")
     /\ IF heard THEN IsStopped(t) ELSE UNCHANGED <<caller, result>>
     /\ thread' = [thread EXCEPT ![t].at = "leave", ![t].run = IF heard THEN FALSE ELSE @]
     /\ waiter' = CASE waiter = "waitMain" /\ t = "main" -> "toOwn"
                    [] waiter = "waitOwn" /\ t = "own" -> "returned"
                    [] OTHER -> waiter
     /\ UNCHANGED <<m_stop, monitor, m_serverPorts, m_sigStop, bStop, alive>>

Left(t) ==
  /\ IsAt(t, "leave")
  /\ thread' = [thread EXCEPT ![t].run = FALSE, ![t].at = "over"]
  /\ UNCHANGED <<m_stop, monitor, m_serverPorts, m_sigStop, bStop, caller, waiter, result, alive>>

Loop(t) ==
  /\ t # "own" /\ IsAt(t, "loop")
  /\ Moves(t, IF m_stop THEN "end" ELSE "wait")
  /\ UNCHANGED <<m_stop, monitor, m_serverPorts, m_sigStop, bStop, caller, waiter, result, alive>>

\* Of the main thread: it breaks at the signal, or checks hearts and links.
Main ==
  /\ IsAt("main", "wait")
  /\ \/ m_sigStop /\ Moves("main", "end") /\ m_sigStop' = FALSE
     \/ Moves("main", "loop") /\ UNCHANGED m_sigStop
  /\ UNCHANGED <<m_stop, monitor, m_serverPorts, bStop, caller, waiter, result, alive>>

\* What it waits for and does with the links is in ServerLinks.
ConnectThread ==
  /\ IsAt("connect", "wait")
  /\ Moves("connect", "loop")
  /\ UNCHANGED <<m_stop, monitor, m_serverPorts, m_sigStop, bStop, caller, waiter, result, alive>>

\* A monitor that has stopped is not waited in.
WaitEvent(p) ==
  /\ p \in Pollers /\ IsAt(p, "wait")
  /\ Moves(p, IF monitor.stop THEN "loop" ELSE "asleep")
  /\ UNCHANGED <<m_stop, monitor, m_serverPorts, m_sigStop, bStop, caller, waiter, result, alive>>

\* A client connects, sends or reads.
Event(p) ==
  /\ p \in Pollers /\ IsAt(p, "asleep")
  /\ Moves(p, "loop")
  /\ UNCHANGED <<m_stop, monitor, m_serverPorts, m_sigStop, bStop, caller, waiter, result, alive>>

\* Main of the server may return at any time, and does when IsOk is false.
OwnMain ==
  /\ IsAt("own", "loop")
  /\ Moves("own", "end")
  /\ UNCHANGED <<m_stop, monitor, m_serverPorts, m_sigStop, bStop, caller, waiter, result, alive>>

-----------------------------------------------------------------------------
\* Without a look at whether the thread has ended already.
WaitStop ==
  /\ alive
  /\ \/ waiter = "free" /\ result = "started" /\ waiter' = "waitMain"
     \/ waiter = "toOwn" /\ waiter' = "waitOwn"
  /\ UNCHANGED <<m_stop, monitor, m_serverPorts, thread, m_sigStop, bStop, caller, result, alive>>

CallerStep ==
  \/ ListenAll \/ StartMonitor \/ StartThreads \/ ConnectAll("links", "connect")
  \/ (\E t \in {"connect", "main", "own"} : RunThread(t)) \/ Ran \/ StartServer
  \/ StopEngine \/ StopMonitor \/ StopThread \/ TimedWait \/ TimeOut

ThreadStep(t) == Ended(t) \/ Broadcast(t) \/ Left(t) \/ Loop(t) \/ WaitEvent(t)

LifeNext ==
  \/ Start \/ Stop \/ WaitStop \/ CallerStep
  \/ \E p \in Ports : Listen(p)
  \/ \E t \in LifeThreads : ThreadStep(t) \/ Event(t)
  \/ Main \/ ConnectThread \/ OwnMain

LifeSpec == LifeInit /\ [][LifeNext]_lifeVars

-----------------------------------------------------------------------------
LifeTypeOK ==
  /\ {m_stop, m_sigStop, bStop, alive, monitor.stop} \subseteq BOOLEAN
  /\ monitor.epoll \in 0 .. MaxStarts
  /\ m_serverPorts \in [Ports -> [asked : BOOLEAN, in : 0 .. MaxStarts]]
  /\ thread \in [LifeThreads -> [run : BOOLEAN, stop : BOOLEAN,
       at : {"none", "loop", "wait", "asleep", "end", "broadcast", "leave", "over"}]]
  /\ waiter \in {"free", "waitMain", "toOwn", "waitOwn", "returned"}
  /\ result \in {"none", "starting", "started", "failed", "stopping", "stopped"}

Runs(t) == thread[t].at \in {"loop", "wait", "asleep"}

(* From the end of its first Start until Stop is called, the server        *)
(* listens to every port it was asked for that is free, whenever it was    *)
(* asked, and the threads of the engine run (NetEngine::Start, Listen).    *)
Serves ==
  alive /\ result = "started" /\ monitor.epoll = 1 /\ caller.pc = "idle" =>
    /\ \A p \in Ports \ Taken : m_serverPorts[p].asked => m_serverPorts[p].in = monitor.epoll
    /\ \A t \in LifeThreads \ {"own"} : Runs(t)

(* When Stop has returned, the main thread and the threads that wait in    *)
(* epoll do not run any more, nor does a Start that has failed leave them  *)
(* running (NetEngine::Stop).                                              *)
StoppedIsStill ==
  alive /\ caller.pc = "idle" /\ result \in {"stopped", "failed"} =>
    \A t \in {"main", "own"} \union Pollers : ~Runs(t)

(* Who waits for the end of the server is not told before its own thread   *)
(* and the main thread of the engine have ended (NetServer::WaitStop).     *)
WaitedForEnd ==
  alive /\ monitor.epoll = 1 =>
    /\ waiter \in {"toOwn", "waitOwn", "returned"} => ~Runs("main")
    /\ waiter = "returned" => ~Runs("own")

(* What holds of the life of a server at every moment.                     *)
LifeInv == LifeTypeOK /\ Serves /\ StoppedIsStill /\ WaitedForEnd
=============================================================================
