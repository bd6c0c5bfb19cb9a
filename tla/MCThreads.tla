----------------------------- MODULE MCThreads -----------------------------
(* What threads share: the building blocks of mdk, each by itself, and the *)
(* file of client ids of gsrc.  Which one is exercised is chosen at the    *)
(* start; the others stay as they are.                                     *)
EXTENDS MemoryPool, Queue, TaskPool, ClientId

VARIABLE what

OneSide == CHOOSE f \in [Users -> Sides] : \E t \in Users : \A u \in Users : f[u] = "push" <=> u = t

MCInit ==
  /\ PoolInit /\ QueueInit /\ TaskInit /\ Init
  /\ what \in {"pool", "queue", "tasks", "ids"}
  /\ what # "queue" => side = OneSide

MCNext ==
  /\ UNCHANGED what
  /\ \/ what = "pool"  /\ PoolNext  /\ UNCHANGED <<queueVars, taskVars, vars>>
     \/ what = "queue" /\ QueueNext /\ UNCHANGED <<poolVars, taskVars, vars>>
     \/ what = "tasks" /\ TaskNext  /\ UNCHANGED <<poolVars, queueVars, vars>>
     \/ what = "ids"   /\ Next      /\ UNCHANGED <<poolVars, queueVars, taskVars>>

MCSpec == MCInit /\ [][MCNext]_<<what, poolVars, queueVars, taskVars, vars>> /\ TaskFairness

(* What the parts share is in order at every moment.                       *)
ThreadsInv == PoolInv /\ QueueInv /\ TaskInv
=============================================================================
