------------------------------ MODULE TaskPool ------------------------------
(***************************************************************************)
(* The thread pool of mdk (ThreadPool.cpp) with the signal its threads     *)
(* wait for (Signal.cpp) and the way a thread is stopped (Thread.cpp).     *)
(*                                                                         *)
(* A worker runs tasks until there is none and waits for the signal.  The  *)
(* last thread that stops waiting throws away the signals that are left,   *)
(* by initialising the semaphore again: a thread that has begun to wait    *)
(* meanwhile is asleep on a semaphore that does not count it.  Stop keeps  *)
(* the locks of the threads and of the tasks while it waits, up to three   *)
(* seconds each, for threads that may need them; a thread that is late is  *)
(* sent SIGHUP, which ends the process.                                    *)
(***************************************************************************)
EXTENDS Integers, Sequences, FiniteSets

CONSTANTS
  Workers, \* threads of the pool
  Pushers, \* threads that call Accept
  Stopper, \* the thread that starts the pool and may stop it
  Tasks,   \* tasks the pushers give to the pool
  Nested,  \* a task that gives another one to the pool
  Inner,   \* the task it gives
  Nobody

Procs    == Workers \union Pushers \union {Stopper}
AllTasks == Tasks \union {Inner}

ASSUME TaskAssumption ==
  /\ IsFiniteSet(Workers)
  /\ Inner \notin Tasks
  /\ Workers \intersect Pushers = {} /\ Stopper \notin Workers \union Pushers
  /\ Nobody \notin Procs \union AllTasks

VARIABLES
  at,        \* what each thread does next
  queue,     \* m_tasks
  bRun,      \* bRun of the context of each worker
  ended,     \* m_bStop of the thread of each worker
  holder,    \* who holds m_threadsMutex and m_tasksMutex
  posts,     \* value of the semaphore of m_sigNewTask
  counted,   \* threads the semaphore counts as asleep
  waitCount, \* m_waitCount of m_sigNewTask
  task,      \* the task of each worker, pusher: running, to be given
  left,      \* workers Stop has not waited for yet
  executed,  \* tasks that have been run to their end (history)
  alive      \* the process has not been ended by SIGHUP

semaphore == <<posts, counted>>
signal    == <<posts, counted, waitCount>>
taskVars  == <<at, queue, bRun, ended, holder, signal, task, left, executed, alive>>

TaskInit ==
  /\ at = [p \in Procs |-> IF p = Stopper THEN "start" ELSE IF p \in Workers THEN "unborn" ELSE "free"]
  /\ queue = <<>>
  /\ bRun  = [w \in Workers |-> FALSE]
  /\ ended = [w \in Workers |-> TRUE]
  /\ holder = [threads |-> Nobody, tasks |-> Nobody]
  /\ posts = 0 /\ counted = 0 /\ waitCount = 0
  /\ task = [p \in Procs |-> Nobody]
  /\ left = {}
  /\ executed = {}
  /\ alive = TRUE

Then(p, pc) == at' = [at EXCEPT ![p] = pc]

At(p, pc) == alive /\ at[p] = pc

----------------------------------------------------------------------------
(* The signal.  Notify wakes one of the sleepers if the semaphore counts   *)
(* any, not necessarily one that it counts.                                *)
Asleep == {w \in Workers : at[w] = "asleep"}

Notify(p, pc) ==
  /\ posts' = posts + 1
  /\ IF counted = 0 \/ Asleep = {} THEN Then(p, pc)
     ELSE \E w \in Asleep : at' = [at EXCEPT ![p] = pc, ![w] = "awake"]
  /\ UNCHANGED <<counted, waitCount>>

BeginWait(w) ==
  /\ waitCount' = waitCount + 1
  /\ Then(w, "wait")
  /\ UNCHANGED semaphore

SemWait(w) ==
  /\ At(w, "wait")
  /\ IF posts > 0 THEN posts' = posts - 1 /\ Then(w, "endWait") /\ UNCHANGED counted
     ELSE counted' = counted + 1 /\ Then(w, "asleep") /\ UNCHANGED posts
  /\ UNCHANGED <<queue, bRun, ended, holder, waitCount, task, left, executed, alive>>

Awake(w) ==
  /\ At(w, "awake")
  /\ IF posts > 0 THEN posts' = posts - 1 /\ counted' = counted - 1 /\ Then(w, "endWait")
     ELSE Then(w, "asleep") /\ UNCHANGED semaphore
  /\ UNCHANGED <<queue, bRun, ended, holder, waitCount, task, left, executed, alive>>

EndWait(w) ==
  /\ At(w, "endWait")
  /\ waitCount' = waitCount - 1
  /\ Then(w, IF waitCount = 1 THEN "reset" ELSE "check")
  /\ UNCHANGED <<queue, bRun, ended, holder, semaphore, task, left, executed, alive>>

Reset(w) ==
  /\ At(w, "reset")
  /\ posts' = 0 /\ counted' = 0
  /\ Then(w, "check")
  /\ UNCHANGED <<queue, bRun, ended, holder, waitCount, task, left, executed, alive>>

----------------------------------------------------------------------------
(* ThreadFunc, and the end of Thread::Main.                                *)
Check(w) ==
  /\ At(w, "check")
  /\ Then(w, IF bRun[w] THEN "pull" ELSE "leave")
  /\ UNCHANGED <<queue, bRun, ended, holder, signal, task, left, executed, alive>>

PullTask(w) ==
  /\ At(w, "pull")
  /\ holder.tasks = Nobody
  /\ IF queue = <<>> THEN Then(w, "idle") /\ UNCHANGED <<queue, task>>
     ELSE /\ queue' = Tail(queue)
          /\ task' = [task EXCEPT ![w] = Head(queue)]
          /\ Then(w, "run")
  /\ UNCHANGED <<bRun, ended, holder, signal, left, executed, alive>>

\* Mutant of Execute: a worker waits for the signal after each task.
ExecuteOne(w) ==
  /\ At(w, "run")
  /\ executed' = executed \union {task[w]}
  /\ task' = [task EXCEPT ![w] = Nobody]
  /\ Then(w, "idle")
  /\ UNCHANGED <<queue, bRun, ended, holder, signal, left, alive>>

Execute(w) ==
  /\ At(w, "run")
  /\ IF task[w] = Nested
       THEN task' = [task EXCEPT ![w] = Inner] /\ Then(w, "lock") /\ UNCHANGED executed
       ELSE /\ task' = [task EXCEPT ![w] = Nobody]
            /\ executed' = executed \union {task[w]}
            /\ Then(w, "check")
  /\ UNCHANGED <<queue, bRun, ended, holder, signal, left, alive>>

WaitOrLeave(w) ==
  /\ At(w, "idle")
  /\ IF bRun[w] THEN BeginWait(w) ELSE Then(w, "leave") /\ UNCHANGED signal
  /\ UNCHANGED <<queue, bRun, ended, holder, task, left, executed, alive>>

Leave(w) ==
  /\ At(w, "leave")
  /\ Notify(w, "end")
  /\ UNCHANGED <<queue, bRun, ended, holder, task, left, executed, alive>>

End(w) ==
  /\ At(w, "end")
  /\ ended' = [ended EXCEPT ![w] = TRUE]
  /\ Then(w, "broadcast")
  /\ UNCHANGED <<queue, bRun, holder, signal, task, left, executed, alive>>

\* Only a thread that waits already hears of it.
Broadcast(w) ==
  /\ At(w, "broadcast")
  /\ IF at[Stopper] = "timedWait" /\ task[Stopper] = w
       THEN at' = [at EXCEPT ![w] = "over", ![Stopper] = "next"] /\ left' = left \ {w}
       ELSE Then(w, "over") /\ UNCHANGED left
  /\ UNCHANGED <<queue, bRun, ended, holder, signal, task, executed, alive>>

----------------------------------------------------------------------------
(* Accept, by a thread outside the pool or by a task, and PushTask.        *)
Accept(p, k) ==
  /\ At(p, "free")
  /\ k \in Tasks /\ k \notin executed
  /\ \A i \in DOMAIN queue : queue[i] # k
  /\ \A q \in Procs : task[q] # k
  /\ task' = [task EXCEPT ![p] = k]
  /\ Then(p, "lock")
  /\ UNCHANGED <<queue, bRun, ended, holder, signal, left, executed, alive>>

\* The locks are taken in this order by all, and PullTask keeps the second for
\* one step only: who has the first gets the second at once.
Lock(p) ==
  /\ At(p, "lock")
  /\ holder = [threads |-> Nobody, tasks |-> Nobody]
  /\ holder' = [threads |-> p, tasks |-> p]
  /\ Then(p, IF p = Stopper THEN "clear" ELSE "push")
  /\ UNCHANGED <<queue, bRun, ended, signal, task, left, executed, alive>>

PushTask(p) ==
  /\ At(p, "push")
  /\ queue' = Append(queue, task[p])
  /\ Notify(p, "unlock")
  /\ UNCHANGED <<bRun, ended, holder, task, left, executed, alive>>

Unlock(p) ==
  /\ At(p, "unlock")
  /\ holder' = [threads |-> Nobody, tasks |-> Nobody]
  /\ task' = [task EXCEPT ![p] = Nobody]
  /\ executed' = IF p \in Workers THEN executed \union {Nested} ELSE executed
  /\ Then(p, CASE p \in Workers -> "check" [] p \in Pushers -> "free" [] OTHER -> "stopped")
  /\ UNCHANGED <<queue, bRun, ended, signal, left, alive>>

----------------------------------------------------------------------------
(* Start and Stop of the pool, and Thread::Stop.                           *)
Start ==
  /\ At(Stopper, "start")
  /\ holder.threads = Nobody
  /\ holder' = [holder EXCEPT !.threads = Stopper]
  /\ Then(Stopper, "create")
  /\ UNCHANGED <<queue, bRun, ended, signal, task, left, executed, alive>>

Run(w) == ended' = [ended EXCEPT ![w] = FALSE] /\ Then(w, "check")

CreateThread(w) ==
  /\ At(Stopper, "create") /\ at[w] = "unborn"
  /\ bRun' = [bRun EXCEPT ![w] = TRUE]
  /\ Run(w)
  /\ UNCHANGED <<queue, holder, signal, task, left, executed, alive>>

Started ==
  /\ At(Stopper, "create") /\ \A w \in Workers : at[w] # "unborn"
  /\ holder' = [holder EXCEPT !.threads = Nobody]
  /\ Then(Stopper, "started")
  /\ UNCHANGED <<queue, bRun, ended, signal, task, left, executed, alive>>

Stop ==
  /\ At(Stopper, "started")
  /\ Then(Stopper, "lock")
  /\ UNCHANGED <<queue, bRun, ended, holder, signal, task, left, executed, alive>>

\* The flags are set one by one; no thread reads another's.
ClearTasks ==
  /\ At(Stopper, "clear")
  /\ queue' = <<>>
  /\ bRun' = [w \in Workers |-> FALSE]
  /\ left' = Workers
  /\ Notify(Stopper, "next")
  /\ UNCHANGED <<ended, holder, task, executed, alive>>

StopThread(w) ==
  /\ At(Stopper, "next") /\ w \in left
  /\ IF ended[w] THEN left' = left \ {w} /\ UNCHANGED <<at, task>>
     ELSE Then(Stopper, "toWait") /\ task' = [task EXCEPT ![Stopper] = w] /\ UNCHANGED left
  /\ UNCHANGED <<queue, bRun, ended, holder, signal, executed, alive>>

TimedWait ==
  /\ At(Stopper, "toWait")
  /\ Then(Stopper, "timedWait")
  /\ UNCHANGED <<queue, bRun, ended, holder, signal, task, left, executed, alive>>

\* To signal a thread that is over may end the process too, or do nothing.
\* Mutant of TimeOut: Stop waits without a limit, as WaitStop does.
TimeOutNever == FALSE /\ UNCHANGED taskVars

TimeOut ==
  /\ At(Stopper, "timedWait")
  /\ alive' \in IF at[task[Stopper]] = "over" THEN BOOLEAN ELSE {FALSE}
  /\ left' = left \ {task[Stopper]}
  /\ Then(Stopper, "next")
  /\ UNCHANGED <<queue, bRun, ended, holder, signal, task, executed>>

Stopped ==
  /\ At(Stopper, "next") /\ left = {}
  /\ Then(Stopper, "unlock")
  /\ UNCHANGED <<queue, bRun, ended, holder, signal, task, left, executed, alive>>

----------------------------------------------------------------------------
PushStep(p) == Lock(p) \/ PushTask(p) \/ Unlock(p)

WorkerStep(w) ==
  \/ SemWait(w) \/ Awake(w) \/ EndWait(w) \/ Reset(w) \/ Check(w) \/ PullTask(w) \/ Execute(w)
  \/ WaitOrLeave(w) \/ Leave(w) \/ End(w) \/ Broadcast(w) \/ PushStep(w)

StopperStep ==
  \/ Start \/ (\E w \in Workers : CreateThread(w)) \/ Started
  \/ Lock(Stopper) \/ ClearTasks
  \/ (\E w \in Workers : StopThread(w)) \/ TimedWait \/ TimeOut \/ Stopped \/ Unlock(Stopper)

TaskNext ==
  \/ \E w \in Workers : WorkerStep(w)
  \/ \E p \in Pushers : PushStep(p) \/ \E k \in Tasks : Accept(p, k)
  \/ StopperStep
  \/ Stop

\* Threads run; whether a task is given or the pool stopped is up to the server.
TaskFairness ==
  /\ \A w \in Workers : WF_taskVars(WorkerStep(w))
  /\ \A p \in Pushers : WF_taskVars(PushStep(p))
  /\ WF_taskVars(StopperStep)

TaskSpec == TaskInit /\ [][TaskNext]_taskVars /\ TaskFairness

----------------------------------------------------------------------------
Stopping == at[Stopper] \notin {"start", "create", "started"}

Queued(k) == \E i \in DOMAIN queue : queue[i] = k

(* Every variable holds values of its kind; each lock is held by the       *)
(* thread that is between taking and giving it back (ThreadPool.h).        *)
TaskTypeOK ==
  /\ at \in [Procs -> {"unborn", "check", "pull", "run", "idle", "wait", "asleep", "awake",
       "endWait", "reset", "leave", "end", "broadcast", "over", "free", "lock",
       "push", "unlock", "start", "create", "started", "clear", "next", "toWait", "timedWait", "stopped"}]
  /\ \A i \in DOMAIN queue : queue[i] \in AllTasks
  /\ bRun \in [Workers -> BOOLEAN] /\ ended \in [Workers -> BOOLEAN] /\ alive \in BOOLEAN
  /\ posts \in Nat /\ counted \in Int /\ waitCount \in 0..Cardinality(Workers)
  /\ left \subseteq Workers /\ executed \subseteq AllTasks
  /\ \A p \in Procs :
       /\ at[p] \in {"push", "unlock", "clear", "next", "toWait", "timedWait"} <=> holder.tasks = p
       /\ holder.threads = p <=> holder.tasks = p \/ at[p] = "create"

(* A task that is in the queue is run, unless the pool is stopped: that a  *)
(* thread is asleep although there is work, because its signal was thrown  *)
(* away or the semaphore does not count it, delays a task and loses none.  *)
AllRun == \A k \in AllTasks : Queued(k) ~> (k \in executed \/ Stopping \/ ~alive)

(* When Stop has returned, no thread of the pool runs a task or touches    *)
(* the queue or the signal any more, so that the pool may be deleted       *)
(* (ThreadPool::~ThreadPool).                                              *)
EndedWhenStopped ==
  alive /\ at[Stopper] \in {"unlock", "stopped"} => \A w \in Workers : at[w] \in {"broadcast", "over"}

(* Stop comes to an end, although it holds the locks that a worker that    *)
(* pulls a task, or a task that calls Accept, waits for: at worst the      *)
(* process is ended after the three seconds.                               *)
StopEnds == Stopping ~> (at[Stopper] = "stopped" \/ ~alive)

(* The tasks and the threads of the pool at every moment.                  *)
TaskInv == TaskTypeOK /\ EndedWhenStopped
=============================================================================
