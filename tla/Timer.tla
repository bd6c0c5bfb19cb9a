------------------------------- MODULE Timer -------------------------------
(***************************************************************************)
(* The timers of mdk_ex (Timer.cpp): a table of tasks by event id, one     *)
(* thread that runs those whose time has come, and threads that set and    *)
(* kill timers.  The thread takes what is due out of the table under its   *)
(* lock and runs it afterwards, with the lock of the task in hand, so that *)
(* a task can be killed between the two.  Each task counts who uses it,    *)
(* and keeps the object it calls (ShareObject.cpp) alive.                  *)
(*                                                                         *)
(* The time of a task is not modelled: lastTime is in seconds when it is   *)
(* set and in milliseconds when it has been run, so that a new timer may   *)
(* come due at any time, also at once (Timer.cpp:40, 174).  Timers are of  *)
(* one second at least: one of none would be taken again in the same pass  *)
(* (Timer.cpp:189).  KillAllTimer is KillTimer for one id after the other; *)
(* of the two SetTimer it is the one with an object.                       *)
(***************************************************************************)
EXTENDS Integers, FiniteSets

CONSTANTS
  Owners,   \* threads that set and kill timers
  TimerIds, \* event ids
  MaxTasks, \* bound of the model: timers set
  NoTask

ASSUME TimerAssumption ==
  IsFiniteSet(Owners) /\ IsFiniteSet(TimerIds) /\ NoTask = 0 /\ MaxTasks \in Nat

TimerTasks == 1 .. MaxTasks
TheTimer == "timer"
TimerThreads == Owners \union {TheTimer}
NoCall == [id |-> NoTask, task |-> NoTask, set |-> FALSE, repeat |-> 0]

VARIABLES
  waitTasks, \* m_waitTasks: the task of each event id
  ref,       \* ref of each task
  state,     \* tasks whose state is 2: killed
  repeat,    \* repeat of each task; 0 if it repeats without end
  made,      \* tasks made so far
  deleted,   \* tasks deleted
  objRef,    \* m_refCount of the object the tasks call
  held,      \* the server has not released that object yet
  now,       \* what each thread does next
  mine,      \* the task a thread is killing or making
  todo,      \* waitTasks of Work: taken, not run yet
  executing, \* the task whose callback runs
  silent,    \* tasks for which KillTimer has returned (history)
  orphans    \* tasks that found their event id taken (history)

timerVars == <<waitTasks, ref, state, repeat, made, deleted, objRef, held, now, mine,
               todo, executing, silent, orphans>>

TimerInit ==
  /\ waitTasks = [i \in TimerIds |-> NoTask]
  /\ ref = [k \in TimerTasks |-> 0] /\ repeat = [k \in TimerTasks |-> 0]
  /\ state = {} /\ made = 0 /\ deleted = {}
  /\ objRef = 1 /\ held = TRUE
  /\ now = [t \in TimerThreads |-> "free"]
  /\ mine = [t \in TimerThreads |-> NoCall]
  /\ todo = {} /\ executing = NoTask
  /\ silent = {} /\ orphans = {}

Goes(t, s) == now' = [now EXCEPT ![t] = s]

\* A callback acts for the timer's thread.
MayCall(t) == now[t] = (IF t = TheTimer THEN "callback" ELSE "free")
Returns(t) ==
  /\ Goes(t, IF t = TheTimer THEN "callback" ELSE "free")
  /\ mine' = [mine EXCEPT ![t] = NoCall]

\* TASK::Release, by n users at once.
Released(k, n) ==
  /\ ref' = [ref EXCEPT ![k] = @ - n]
  /\ IF ref[k] = n THEN deleted' = deleted \union {k} /\ objRef' = objRef - 1
     ELSE UNCHANGED <<deleted, objRef>>

-----------------------------------------------------------------------------
(* SetTimer begins with KillTimer.                                         *)
KillTimer(t, i) ==
  /\ MayCall(t)
  /\ mine' = [mine EXCEPT ![t] = [id |-> i, task |-> NoTask, set |-> FALSE, repeat |-> 0]]
  /\ Goes(t, "find")
  /\ UNCHANGED <<waitTasks, ref, state, repeat, made, deleted, objRef, held, todo, executing, silent, orphans>>

SetTimer(t, i, times) ==
  /\ MayCall(t) /\ held
  /\ mine' = [mine EXCEPT ![t] = [id |-> i, task |-> NoTask, set |-> TRUE, repeat |-> times]]
  /\ Goes(t, "find")
  /\ UNCHANGED <<waitTasks, ref, state, repeat, made, deleted, objRef, held, todo, executing, silent, orphans>>

\* The table is searched and changed under its lock.
FindTask(t) ==
  LET i == mine[t].id
      k == waitTasks[i]
  IN /\ now[t] = "find"
     /\ waitTasks' = [waitTasks EXCEPT ![i] = NoTask]
     /\ \/ /\ k # NoTask
           /\ Goes(t, IF t = TheTimer THEN "killed" ELSE "mark")
           /\ mine' = [mine EXCEPT ![t].task = k]
        \/ k = NoTask /\ mine[t].set /\ Goes(t, "make") /\ UNCHANGED mine
        \/ k = NoTask /\ ~mine[t].set /\ Returns(t)
     /\ UNCHANGED <<ref, state, repeat, made, deleted, objRef, held, todo, executing, silent, orphans>>

\* Mutant of Mark: the state is set without the lock of the task.
MarkAnyTime(t) ==
  /\ now[t] = "mark"
  /\ state' = state \union {mine[t].task}
  /\ Goes(t, "killed")
  /\ UNCHANGED <<waitTasks, ref, repeat, made, deleted, objRef, held, mine, todo, executing, silent, orphans>>

\* Another thread waits until the callback of the task has returned.
Mark(t) ==
  /\ now[t] = "mark"
  /\ mine[t].task # executing
  /\ state' = state \union {mine[t].task}
  /\ Goes(t, "killed")
  /\ UNCHANGED <<waitTasks, ref, repeat, made, deleted, objRef, held, mine, todo, executing, silent, orphans>>

Killed(t) ==
  /\ now[t] = "killed"
  /\ Released(mine[t].task, 1)
  /\ silent' = IF t = TheTimer THEN silent ELSE silent \union {mine[t].task}
  /\ IF mine[t].set THEN Goes(t, "make") /\ UNCHANGED mine ELSE Returns(t)
  /\ UNCHANGED <<waitTasks, state, repeat, made, held, todo, executing, orphans>>

Make(t) ==
  /\ now[t] = "make" /\ made < MaxTasks
  /\ made' = made + 1
  /\ ref' = [ref EXCEPT ![made + 1] = 1]
  /\ repeat' = [repeat EXCEPT ![made + 1] = mine[t].repeat]
  /\ objRef' = objRef + 1
  /\ mine' = [mine EXCEPT ![t].task = made + 1]
  /\ Goes(t, "insert")
  /\ UNCHANGED <<waitTasks, state, deleted, held, todo, executing, silent, orphans>>

\* insert does nothing if another thread has set a timer of this id meanwhile.
InsertTask(t) ==
  LET i == mine[t].id
  IN /\ now[t] = "insert"
     /\ IF waitTasks[i] = NoTask
        THEN waitTasks' = [waitTasks EXCEPT ![i] = mine[t].task] /\ UNCHANGED orphans
        ELSE orphans' = orphans \union {mine[t].task} /\ UNCHANGED waitTasks
     /\ Returns(t)
     /\ UNCHANGED <<ref, state, repeat, made, deleted, objRef, held, todo, executing, silent>>

\* The server releases the object while no SetTimer is under way.
ReleaseObject ==
  /\ held /\ \A t \in TimerThreads : now[t] \in {"free", "callback"}
  /\ held' = FALSE /\ objRef' = objRef - 1
  /\ UNCHANGED <<waitTasks, ref, state, repeat, made, deleted, now, mine, todo, executing, silent, orphans>>

-----------------------------------------------------------------------------
(* Work.  What is due leaves the table when it repeats for the last time:  *)
(* the reference of the table becomes that of the list.                    *)
Collect(due) ==
  LET last == {i \in due : repeat[waitTasks[i]] = 1}
      taken == {waitTasks[i] : i \in due}
      kept == {waitTasks[i] : i \in due \ last}
  IN /\ now[TheTimer] = "free"
     /\ due # {} /\ \A i \in due : waitTasks[i] # NoTask
     /\ todo' = taken
     /\ ref' = [k \in TimerTasks |-> IF k \in kept THEN ref[k] + 1 ELSE ref[k]]
     /\ repeat' = [k \in TimerTasks |-> IF k \in kept /\ repeat[k] > 1 THEN repeat[k] - 1 ELSE repeat[k]]
     /\ waitTasks' = [i \in TimerIds |-> IF i \in last THEN NoTask ELSE waitTasks[i]]
     /\ Goes(TheTimer, "next")
     /\ UNCHANGED <<state, made, deleted, objRef, held, mine, executing, silent, orphans>>

\* In the order of the event ids; it does not matter which ids are less.
TakeLock(k) ==
  /\ now[TheTimer] = "next" /\ k \in todo
  /\ executing' = k
  /\ Goes(TheTimer, IF k \in state THEN "unlock" ELSE "callback")
  /\ UNCHANGED <<waitTasks, ref, state, repeat, made, deleted, objRef, held, mine, todo, silent, orphans>>

CallbackReturns ==
  /\ now[TheTimer] = "callback"
  /\ Goes(TheTimer, "unlock")
  /\ UNCHANGED <<waitTasks, ref, state, repeat, made, deleted, objRef, held, mine, todo, executing, silent, orphans>>

Unlocked ==
  /\ now[TheTimer] = "unlock"
  /\ Released(executing, 1)
  /\ executing' = NoTask
  /\ todo' = todo \ {executing}
  /\ Goes(TheTimer, IF todo = {executing} THEN "free" ELSE "next")
  /\ UNCHANGED <<waitTasks, state, repeat, made, held, mine, silent, orphans>>

-----------------------------------------------------------------------------
TimerNext ==
  \/ \E t \in TimerThreads :
       \/ \E i \in TimerIds : KillTimer(t, i) \/ \E times \in 0 .. 2 : SetTimer(t, i, times)
       \/ FindTask(t) \/ Mark(t) \/ Killed(t) \/ Make(t) \/ InsertTask(t)
  \/ ReleaseObject
  \/ \E due \in SUBSET TimerIds : Collect(due)
  \/ \E k \in TimerTasks : TakeLock(k)
  \/ CallbackReturns \/ Unlocked

TimerSpec == TimerInit /\ [][TimerNext]_timerVars

-----------------------------------------------------------------------------
TimerTypeOK ==
  /\ waitTasks \in [TimerIds -> TimerTasks \union {NoTask}]
  /\ ref \in [TimerTasks -> Nat] /\ repeat \in [TimerTasks -> 0 .. 2]
  /\ objRef \in Nat /\ made \in 0 .. MaxTasks /\ held \in BOOLEAN
  /\ state \union deleted \union todo \union silent \union orphans \subseteq TimerTasks
  /\ executing \in TimerTasks \union {NoTask}
  /\ now \in [TimerThreads -> {"free", "callback", "find", "mark", "killed", "make", "insert", "next", "unlock"}]

\* Who may use a task: the table, the timer's list, who kills or makes it.
UsersOf(k) ==
  Cardinality({i \in TimerIds : waitTasks[i] = k}) + (IF k \in todo THEN 1 ELSE 0)
    + Cardinality({t \in TimerThreads : now[t] \in {"mark", "killed", "insert"} /\ mine[t].task = k})

(* Every task has as many references as users, so that it is deleted when  *)
(* the last lets it go and not before, and the object it calls lives as    *)
(* long; a task whose event id was taken in between is never deleted.      *)
TasksCounted ==
  /\ \A k \in TimerTasks : ref[k] = UsersOf(k) + (IF k \in orphans THEN 1 ELSE 0)
  /\ deleted = {k \in 1 .. made : ref[k] = 0}
  /\ objRef = (IF held THEN 1 ELSE 0) + made - Cardinality(deleted)

(* When KillTimer of another thread has returned, having found the timer,  *)
(* its callback does not run and will not start (Timer::KillTimer, Work).  *)
KilledIsSilent == now[TheTimer] = "callback" => executing \notin silent

TimerInv == TimerTypeOK /\ TasksCounted
=============================================================================
