---------------------------- MODULE MemoryPool ----------------------------
(***************************************************************************)
(* The memory pool of mdk (MemoryPool.cpp, atom.cpp), from which threads   *)
(* take blocks, and to which they give them back, without a lock.  The     *)
(* blocks of the I/O buffers, the connections and the tasks come from it.  *)
(*                                                                         *)
(* A pool has Count blocks and a count of the free ones, and is the head   *)
(* of a list of pools that grows when all of them are taken.  A thread     *)
(* counts itself in before it looks for a block, and searches the blocks   *)
(* from the first to the last once.                                        *)
(***************************************************************************)
EXTENDS Integers, FiniteSets

CONSTANTS
  Callers,  \* threads that allocate and free
  Count,    \* m_uMemoryCount
  MaxPools  \* bound of the model: pools in the list

MaxShort == 65535  \* m_uMemoryCount is an unsigned short

ASSUME PoolAssumption ==
  /\ IsFiniteSet(Callers)
  /\ Count \in 1..MaxShort
  /\ MaxPools \in Nat \ {0}

VARIABLES
  pools,     \* length of the list of pools
  marker,    \* the first word of each block: 0 when it is free
  freeCount, \* m_uFreeCount of each pool
  users,     \* how many callers have each block (history)
  doing      \* what each thread does next, in which pool, at which block

poolVars == <<pools, marker, freeCount, users, doing>>

Pools  == 1..MaxPools
Blocks == 0..Count-1

Idle == [op |-> "none", pool |-> 1, block |-> 0]

Doing(op, p, b) == [op |-> op, pool |-> p, block |-> b]

Turn(t, op, p, b) == doing' = [doing EXCEPT ![t] = Doing(op, p, b)]

\* atom.cpp: one indivisible step each; the caller compares the old value.
AtomAdd(counts, p, n) == [counts EXCEPT ![p] = @ + n]
AtomDec(counts, p, n) == AtomAdd(counts, p, -n)

PoolInit ==
  /\ pools = 1
  /\ marker = [p \in Pools |-> [b \in Blocks |-> 0]]
  /\ freeCount = [p \in Pools |-> Count]
  /\ users = [p \in Pools |-> [b \in Blocks |-> 0]]
  /\ doing = [t \in Callers |-> Idle]

(***************************************************************************)
(* Alloc.  A thread takes one from the count of a pool; when there was     *)
(* none it gives the one back and goes on to the next pool, which it adds  *)
(* when there is none yet.                                                 *)
(***************************************************************************)
Alloc(t) ==
  /\ doing[t].op = "none"
  /\ Turn(t, "reserve", 1, 0)
  /\ UNCHANGED <<pools, marker, freeCount, users>>

Reserve(t) == LET p == doing[t].pool IN
  /\ doing[t].op = "reserve"
  /\ freeCount' = AtomDec(freeCount, p, 1)
  /\ Turn(t, IF freeCount[p] > 0 THEN "look" ELSE "giveBack", p, 0)
  /\ UNCHANGED <<pools, marker, users>>

GiveBack(t) == LET p == doing[t].pool IN
  /\ doing[t].op = "giveBack"
  /\ freeCount' = AtomAdd(freeCount, p, 1)
  /\ Turn(t, "next", p, 0)
  /\ UNCHANGED <<pools, marker, users>>

NextPool(t) == LET p == doing[t].pool IN
  /\ doing[t].op = "next"
  /\ IF p < pools THEN Turn(t, "reserve", p + 1, 0) ELSE Turn(t, "resize", p, 0)
  /\ UNCHANGED <<pools, marker, freeCount, users>>

\* Under m_resizeCtrl the thread looks again whether there is a next pool.
Resize(t) == LET p == doing[t].pool IN
  /\ doing[t].op = "resize"
  /\ p < MaxPools
  /\ pools' = IF p = pools THEN p + 1 ELSE pools
  /\ Turn(t, "reserve", p + 1, 0)
  /\ UNCHANGED <<marker, freeCount, users>>

(***************************************************************************)
(* AllocMethod.  The thread reads the marker of each block in turn, adds   *)
(* one to the first that is 0, and has the block when it was still 0 then. *)
(* At the end of the blocks Alloc returns NULL.                            *)
(***************************************************************************)
Look(t) == LET p == doing[t].pool  b == doing[t].block IN
  /\ doing[t].op = "look"
  /\ \/ b \notin Blocks /\ Turn(t, "null", p, b)
     \/ b \in Blocks /\ marker[p][b] = 0 /\ Turn(t, "take", p, b)
     \/ b \in Blocks /\ marker[p][b] # 0 /\ Turn(t, "look", p, b + 1)
  /\ UNCHANGED <<pools, marker, freeCount, users>>

\* Mutant of Take: the thread trusts what it read before.
TakeUnchecked(t) == LET p == doing[t].pool  b == doing[t].block IN
  /\ doing[t].op = "take"
  /\ marker' = [marker EXCEPT ![p][b] = @ + 1]
  /\ users' = [users EXCEPT ![p][b] = @ + 1]
  /\ Turn(t, "none", 1, 0)
  /\ UNCHANGED <<pools, freeCount>>

Take(t) == LET p == doing[t].pool  b == doing[t].block IN
  /\ doing[t].op = "take"
  /\ marker' = [marker EXCEPT ![p][b] = @ + 1]
  /\ IF marker[p][b] = 0
       THEN users' = [users EXCEPT ![p][b] = @ + 1] /\ Turn(t, "none", 1, 0)
       ELSE Turn(t, "look", p, b + 1) /\ UNCHANGED users
  /\ UNCHANGED <<pools, freeCount>>

(***************************************************************************)
(* Free of a block that some caller has, by any thread.  FreeMethod clears *)
(* the marker and then adds one to the count.                              *)
(***************************************************************************)
Free(t, p, b) ==
  /\ doing[t].op = "none"
  /\ users[p][b] > 0
  /\ users' = [users EXCEPT ![p][b] = @ - 1]
  /\ Turn(t, "clear", p, b)
  /\ UNCHANGED <<pools, marker, freeCount>>

Clear(t) == LET p == doing[t].pool  b == doing[t].block IN
  /\ doing[t].op = "clear"
  /\ marker' = [marker EXCEPT ![p][b] = 0]
  /\ Turn(t, "count", p, b)
  /\ UNCHANGED <<pools, freeCount, users>>

CountFree(t) == LET p == doing[t].pool IN
  /\ doing[t].op = "count"
  /\ freeCount' = AtomAdd(freeCount, p, 1)
  /\ Turn(t, "none", 1, 0)
  /\ UNCHANGED <<pools, marker, users>>

\* Mutant of FreeMethod: the count first.
FreeCountFirst(t) == LET p == doing[t].pool  b == doing[t].block IN
  \/ /\ doing[t].op = "clear"
     /\ freeCount' = AtomAdd(freeCount, p, 1)
     /\ Turn(t, "count", p, b)
     /\ UNCHANGED <<pools, marker, users>>
  \/ /\ doing[t].op = "count"
     /\ marker' = [marker EXCEPT ![p][b] = 0]
     /\ Turn(t, "none", 1, 0)
     /\ UNCHANGED <<pools, freeCount, users>>

FreeMethod(t) == Clear(t) \/ CountFree(t)

PoolStep(t) ==
  \/ Alloc(t) \/ Reserve(t) \/ GiveBack(t) \/ NextPool(t) \/ Resize(t) \/ Look(t) \/ Take(t)
  \/ (\E p \in Pools, b \in Blocks : Free(t, p, b)) \/ FreeMethod(t)

PoolNext == \E t \in Callers : PoolStep(t)

PoolSpec == PoolInit /\ [][PoolNext]_poolVars

----------------------------------------------------------------------------
PoolOps ==
  {"none", "reserve", "giveBack", "next", "resize", "look", "take", "null", "clear", "count"}

PoolTask == [op : PoolOps, pool : Pools, block : 0..Count]

(* Every variable holds values of its kind, and a thread works in a pool   *)
(* that is in the list (MemoryPool.h).                                     *)
PoolTypeOK ==
  /\ pools \in Pools
  /\ marker \in [Pools -> [Blocks -> Nat]]
  /\ freeCount \in [Pools -> Int]
  /\ users \in [Pools -> [Blocks -> Nat]]
  /\ doing \in [Callers -> PoolTask]
  /\ \A t \in Callers : doing[t].pool <= pools

(* A block that Alloc has returned is not returned again before it is      *)
(* freed, whichever threads look for a block at the same time              *)
(* (AllocMethod reads the marker and then adds to it).                     *)
OneUser == \A p \in Pools, b \in Blocks : users[p][b] <= 1

(* A thread that was counted in finds a block in the one pass it makes     *)
(* over them, although others take and free blocks before and behind it:   *)
(* Alloc never returns NULL, which none of its callers expects             *)
(* (IOBufferBlock::operator new, placement new in CreateTask).             *)
AllocSucceeds == \A t \in Callers : doing[t].op # "null"

(* When no thread is in Alloc or Free, the count of every pool is the      *)
(* number of its free blocks: none is lost and none counted twice, by      *)
(* whatever detours threads got there.                                     *)
CountsAgree ==
  (\A t \in Callers : doing[t].op = "none") =>
    \A p \in Pools : freeCount[p] = Cardinality({b \in Blocks : marker[p][b] = 0 /\ users[p][b] = 0})

(* The structure of the pools at every moment.                             *)
PoolInv == PoolTypeOK /\ OneUser /\ CountsAgree
=============================================================================
