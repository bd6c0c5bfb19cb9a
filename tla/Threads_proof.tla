---------------------------- MODULE Threads_proof ----------------------------
(***************************************************************************)
(* What threads share: a block of the memory pool has one user, a thread   *)
(* that was counted in finds a block in one pass, the file of client ids   *)
(* of gsrc skips no id, and Stop of the thread pool leaves no worker at    *)
(* work, all for any number of threads, of blocks, of pools and of ids;    *)
(* and the ring loses and repeats nothing, of any size, for three threads, *)
(* one of them alone at its side.                                          *)
(***************************************************************************)
EXTENDS MCThreads, SequenceLemmas

--------------------------------------------------
(* The inductive invariant.                                                *)
Searches(job, p, b)   == job.op \in {"look", "take"} /\ job.pool = p /\ job.block >= b
Undoes(job, op, p)    == job.op = op /\ job.pool = p

\* Threads that look for a block of p from b on; free blocks from there on.
Searchers(p, b)  == {t \in Callers : Searches(doing[t], p, b)}
FreeBlocks(p, b) == {i \in Blocks : i >= b /\ marker[p][i] = 0}
Undoing(op, p)   == {t \in Callers : Undoes(doing[t], op, p)}

(* A block is marked as long as somebody has it, and until the one who     *)
(* frees it clears the mark.                                               *)
UserInv ==
  \A p \in Pools, b \in Blocks :
    users[p][b] <= 1 /\ (users[p][b] = 1 => marker[p][b] # 0 /\ p <= pools)

ClearInv ==
  /\ \A t \in Callers : doing[t].op \in {"take", "clear"} => doing[t].block \in Blocks
  /\ \A t \in Callers : doing[t].op = "clear" =>
       users[doing[t].pool][doing[t].block] = 0 /\ marker[doing[t].pool][doing[t].block] # 0
  /\ \A t, u \in Callers :
       doing[t].op = "clear" /\ doing[u].op = "clear" /\ doing[t].pool = doing[u].pool
         /\ doing[t].block = doing[u].block => t = u

(* The count of a pool is that of its free blocks, less what threads that  *)
(* search were promised, what others have taken from it in vain and have   *)
(* to give back, and what was cleared and is not counted yet.              *)
CountInv ==
  \A p \in Pools : freeCount[p] =
    Cardinality(FreeBlocks(p, 0)) - Cardinality(Searchers(p, 0))
      - Cardinality(Undoing("giveBack", p)) - Cardinality(Undoing("count", p))

(* From each block on there are at least as many free blocks as threads    *)
(* that are still looking there.                                           *)
PassInv ==
  \A p \in Pools, b \in 0 .. Count : Cardinality(Searchers(p, b)) <= Cardinality(FreeBlocks(p, b))

PoolIInv == PoolTypeOK /\ AllocSucceeds /\ UserInv /\ ClearInv /\ CountInv /\ PassInv

-----------------------------------------------------------------------------
(* Lemmas.                                                                 *)

One(x) == IF x THEN 1 ELSE 0

LEMMA CountChanges ==
  ASSUME NEW S, NEW T, NEW t, IsFiniteSet(S), S \ {t} = T \ {t}
  PROVE  /\ IsFiniteSet(T) /\ Cardinality(S) \in Nat /\ Cardinality(T) \in Nat
         /\ Cardinality(T) = Cardinality(S) + One(t \in T) - One(t \in S)
  <1>1. Cardinality(S) \in Nat
    BY FS_CardinalityType
  <1>2. CASE t \in S <=> t \in T
    <2>1. S = T
      BY <1>2
    <2> QED
      BY <1>1, <2>1 DEF One
  <1>3. CASE t \in T /\ t \notin S
    <2>1. T = S \union {t}
      BY <1>3
    <2>2. IsFiniteSet(T) /\ Cardinality(T) = Cardinality(S) + 1
      BY <1>3, <2>1, FS_AddElement
    <2> QED
      BY <1>1, <1>3, <2>2 DEF One
  <1>4. CASE t \in S /\ t \notin T
    <2>1. T = S \ {t}
      BY <1>4
    <2>2. IsFiniteSet(T) /\ Cardinality(T) = Cardinality(S) - 1
      BY <1>4, <2>1, FS_RemoveElement
    <2>3. Cardinality(T) \in Nat
      BY <2>2, FS_CardinalityType
    <2> QED
      BY <1>1, <1>4, <2>2, <2>3 DEF One
  <1> QED
    BY <1>2, <1>3, <1>4

LEMMA AllFinite ==
  /\ \A p, b : IsFiniteSet(Searchers(p, b)) /\ Cardinality(Searchers(p, b)) \in Nat
  /\ \A p, b : IsFiniteSet(FreeBlocks(p, b)) /\ Cardinality(FreeBlocks(p, b)) \in Nat
  /\ \A op, p : IsFiniteSet(Undoing(op, p)) /\ Cardinality(Undoing(op, p)) \in Nat
  <1>1. IsFiniteSet(Callers)
    BY PoolAssumption
  <1>2. IsFiniteSet(Blocks)
    BY PoolAssumption, FS_Interval DEF Blocks
  <1>3. \A p, b : Searchers(p, b) \subseteq Callers /\ FreeBlocks(p, b) \subseteq Blocks
    BY DEF Searchers, FreeBlocks
  <1>4. \A op, p : Undoing(op, p) \subseteq Callers
    BY DEF Undoing
  <1> QED
    BY <1>1, <1>2, <1>3, <1>4, FS_Subset, FS_CardinalityType

(* What becomes of the counts when a thread goes on to another task.       *)
TurnsCounted(t, job) ==
  /\ \A p, b : Cardinality(Searchers(p, b))' =
       Cardinality(Searchers(p, b)) + One(Searches(job, p, b)) - One(Searches(doing[t], p, b))
  /\ \A op, p : Cardinality(Undoing(op, p))' =
       Cardinality(Undoing(op, p)) + One(Undoes(job, op, p)) - One(Undoes(doing[t], op, p))

LEMMA TurnCounts ==
  ASSUME PoolTypeOK, NEW t \in Callers, NEW job, doing' = [doing EXCEPT ![t] = job]
  PROVE  TurnsCounted(t, job)
  <1>1. \A u \in Callers : doing'[u] = IF u = t THEN job ELSE doing[u]
    BY DEF PoolTypeOK
  <1>2. ASSUME NEW p, NEW b
        PROVE  Cardinality(Searchers(p, b))' =
                 Cardinality(Searchers(p, b)) + One(Searches(job, p, b)) - One(Searches(doing[t], p, b))
    <2> DEFINE S == Searchers(p, b)
               T == {u \in Callers : Searches(doing'[u], p, b)}
    <2>1. S \ {t} = T \ {t} /\ (t \in T <=> Searches(job, p, b)) /\ (t \in S <=> Searches(doing[t], p, b))
      BY <1>1 DEF Searchers
    <2>2. Cardinality(T) = Cardinality(S) + One(t \in T) - One(t \in S)
      <3>1. IsFiniteSet(S) /\ S \ {t} = T \ {t}
        BY <2>1, AllFinite
      <3> HIDE DEF S, T
      <3> QED
        BY <3>1, CountChanges
    <2>3. Searchers(p, b)' = T
      BY DEF Searchers, Searches
    <2> QED
      BY <2>1, <2>2, <2>3 DEF One
  <1>3. ASSUME NEW op, NEW p
        PROVE  Cardinality(Undoing(op, p))' =
                 Cardinality(Undoing(op, p)) + One(Undoes(job, op, p)) - One(Undoes(doing[t], op, p))
    <2> DEFINE S == Undoing(op, p)
               T == {u \in Callers : Undoes(doing'[u], op, p)}
    <2>1. S \ {t} = T \ {t} /\ (t \in T <=> Undoes(job, op, p)) /\ (t \in S <=> Undoes(doing[t], op, p))
      BY <1>1 DEF Undoing
    <2>2. Cardinality(T) = Cardinality(S) + One(t \in T) - One(t \in S)
      <3>1. IsFiniteSet(S) /\ S \ {t} = T \ {t}
        BY <2>1, AllFinite
      <3> HIDE DEF S, T
      <3> QED
        BY <3>1, CountChanges
    <2>3. Undoing(op, p)' = T
      BY DEF Undoing, Undoes
    <2> QED
      BY <2>1, <2>2, <2>3 DEF One
  <1> QED
    BY <1>2, <1>3 DEF TurnsCounted

(* ... and when the marker of a block changes.                             *)
MarkersCounted(p, b, n) ==
  \A q \in Pools : \A c : Cardinality(FreeBlocks(q, c))' =
    Cardinality(FreeBlocks(q, c)) + One(q = p /\ b >= c /\ n = 0)
      - One(q = p /\ b >= c /\ marker[p][b] = 0)

LEMMA MarkerCounts ==
  ASSUME PoolTypeOK, NEW p \in Pools, NEW b \in Blocks, NEW n, marker' = [marker EXCEPT ![p][b] = n]
  PROVE  MarkersCounted(p, b, n)
  <1> SUFFICES ASSUME NEW q \in Pools, NEW c
               PROVE  Cardinality(FreeBlocks(q, c))' =
                        Cardinality(FreeBlocks(q, c)) + One(q = p /\ b >= c /\ n = 0)
                          - One(q = p /\ b >= c /\ marker[p][b] = 0)
    BY DEF MarkersCounted
  <1>1. \A i \in Blocks : marker'[q][i] = IF q = p /\ i = b THEN n ELSE marker[q][i]
    BY DEF PoolTypeOK
  <1> DEFINE S == FreeBlocks(q, c)
             T == {i \in Blocks : i >= c /\ marker'[q][i] = 0}
  <1>2. FreeBlocks(q, c)' = T
    BY DEF FreeBlocks
  <1>3. CASE q = p
    <2>1. S \ {b} = T \ {b} /\ (b \in T <=> b >= c /\ n = 0) /\ (b \in S <=> b >= c /\ marker[p][b] = 0)
      BY <1>1, <1>3 DEF FreeBlocks
    <2>2. Cardinality(T) = Cardinality(S) + One(b \in T) - One(b \in S)
      <3>1. IsFiniteSet(S) /\ S \ {b} = T \ {b}
        BY <2>1, AllFinite
      <3> HIDE DEF S, T
      <3> QED
        BY <3>1, CountChanges
    <2> QED
      BY <1>2, <1>3, <2>1, <2>2 DEF One
  <1>4. CASE q # p
    <2>1. S = T
      BY <1>1, <1>4 DEF FreeBlocks
    <2> QED
      BY <1>2, <1>4, <2>1, AllFinite DEF One
  <1> QED
    BY <1>3, <1>4

LEMMA PoolInitKeeps == PoolInit => PoolIInv
  <1> SUFFICES ASSUME PoolInit PROVE PoolIInv
    OBVIOUS
  <1>1. Count \in Nat \ {0} /\ 1 \in Pools /\ 0 \in 0 .. Count
    BY PoolAssumption DEF Pools
  <1>2. PoolTypeOK
    <2>1. Idle \in PoolTask /\ Idle.pool = 1
      BY <1>1 DEF Idle, PoolTask, PoolOps
    <2> QED
      BY <1>1, <2>1, PoolAssumption DEF PoolInit, PoolTypeOK
  <1>3. AllocSucceeds /\ UserInv /\ ClearInv
    BY <1>1 DEF PoolInit, Idle, AllocSucceeds, UserInv, ClearInv
  <1>4. \A p, b : Searchers(p, b) = {}
    BY DEF PoolInit, Idle, Searchers, Searches
  <1>5. \A p : Undoing("giveBack", p) = {} /\ Undoing("count", p) = {}
    BY DEF PoolInit, Idle, Undoing, Undoes
  <1>6. \A p \in Pools : FreeBlocks(p, 0) = 0 .. Count - 1
    BY DEF PoolInit, FreeBlocks, Blocks
  <1>7. Cardinality(0 .. Count - 1) = Count /\ Cardinality({}) = 0
    BY <1>1, FS_Interval, FS_EmptySet
  <1>8. CountInv
    <2> SUFFICES ASSUME NEW p \in Pools
                 PROVE  freeCount[p] = Cardinality(FreeBlocks(p, 0)) - Cardinality(Searchers(p, 0))
                          - Cardinality(Undoing("giveBack", p)) - Cardinality(Undoing("count", p))
      BY DEF CountInv
    <2>1. freeCount[p] = Count
      BY DEF PoolInit
    <2>2. Cardinality(FreeBlocks(p, 0)) = Count
      BY <1>6, <1>7
    <2>3. Cardinality(Searchers(p, 0)) = 0 /\ Cardinality(Undoing("giveBack", p)) = 0 /\ Cardinality(Undoing("count", p)) = 0
      BY <1>4, <1>5, <1>7
    <2> QED
      BY <1>1, <2>1, <2>2, <2>3
  <1>9. PassInv
    <2> SUFFICES ASSUME NEW p \in Pools, NEW b \in 0 .. Count
                 PROVE  Cardinality(Searchers(p, b)) <= Cardinality(FreeBlocks(p, b))
      BY DEF PassInv
    <2>1. Cardinality(Searchers(p, b)) = 0
      BY <1>4, <1>7
    <2>2. Cardinality(FreeBlocks(p, b)) \in Nat
      BY AllFinite
    <2> QED
      BY <2>1, <2>2
  <1> QED
    BY <1>2, <1>3, <1>8, <1>9 DEF PoolIInv

LEMMA DoingTyped ==
  ASSUME PoolIInv, NEW t \in Callers
  PROVE  /\ doing[t] \in PoolTask /\ doing[t].pool \in Pools /\ doing[t].block \in 0 .. Count
         /\ doing[t].pool <= pools /\ doing[t].pool \in Nat
  <1>1. doing[t] \in PoolTask /\ doing[t].pool <= pools
    BY DEF PoolIInv, PoolTypeOK
  <1>2. doing[t].pool \in Pools /\ doing[t].block \in 0 .. Count
    BY <1>1 DEF PoolTask
  <1> QED
    BY <1>1, <1>2, PoolAssumption DEF Pools

LEMMA DoingIsTask ==
  ASSUME NEW op \in PoolOps, NEW p \in Pools, NEW b \in 0 .. Count
  PROVE  Doing(op, p, b) \in PoolTask
  BY DEF Doing, PoolTask

LEMMA DoingIs ==
  ASSUME NEW op, NEW p, NEW b
  PROVE  Doing(op, p, b).op = op /\ Doing(op, p, b).pool = p /\ Doing(op, p, b).block = b
  BY DEF Doing

(* A thread goes on and leaves the blocks as they are.                     *)
LEMMA BlocksStay ==
  ASSUME PoolIInv, NEW t \in Callers, NEW job \in PoolTask, doing' = [doing EXCEPT ![t] = job],
         pools' \in Pools, pools' >= pools, job.pool <= pools', job.op \notin {"null", "clear"},
         job.op = "take" => job.block \in Blocks,
         freeCount' \in [Pools -> Int], UNCHANGED <<marker, users>>
  PROVE  PoolTypeOK' /\ AllocSucceeds' /\ UserInv' /\ ClearInv'
  <1>1. \A u \in Callers : doing'[u] = IF u = t THEN job ELSE doing[u]
    BY DEF PoolIInv, PoolTypeOK
  <1>2. pools \in Nat /\ pools' \in Nat
    BY PoolAssumption DEF PoolIInv, PoolTypeOK, Pools
  <1>3. \A u \in Callers : doing[u].pool \in Nat /\ doing[u].pool <= pools
    BY DoingTyped
  <1>4. doing' \in [Callers -> PoolTask]
    BY DEF PoolIInv, PoolTypeOK
  <1>5. \A u \in Callers : doing'[u].pool <= pools'
    BY <1>1, <1>2, <1>3
  <1>6. PoolTypeOK'
    BY <1>4, <1>5 DEF PoolIInv, PoolTypeOK
  <1>7. AllocSucceeds'
    BY <1>1 DEF PoolIInv, AllocSucceeds
  <1>8. UserInv'
    BY <1>2, PoolAssumption DEF PoolIInv, UserInv, Pools
  <1>9. ClearInv'
    BY <1>1 DEF PoolIInv, ClearInv
  <1> QED
    BY <1>6, <1>7, <1>8, <1>9

(* A thread that neither searches nor undoes, before and after.            *)
LEMMA CountsStay ==
  ASSUME PoolIInv, NEW t \in Callers, NEW job, doing' = [doing EXCEPT ![t] = job],
         {job.op, doing[t].op} \intersect {"look", "take", "giveBack", "count"} = {},
         UNCHANGED <<marker, freeCount>>
  PROVE  CountInv' /\ PassInv'
  <1>1. /\ \A p, b : Cardinality(Searchers(p, b))' = Cardinality(Searchers(p, b))
        /\ \A op \in {"giveBack", "count"} : \A p : Cardinality(Undoing(op, p))' = Cardinality(Undoing(op, p))
    <2>1. \A p, b : ~Searches(job, p, b) /\ ~Searches(doing[t], p, b)
      BY DEF Searches
    <2>2. \A op \in {"giveBack", "count"} : \A p : ~Undoes(job, op, p) /\ ~Undoes(doing[t], op, p)
      BY DEF Undoes
    <2>3. PoolTypeOK
      BY DEF PoolIInv
    <2>4. TurnsCounted(t, job)
      BY <2>3, TurnCounts
    <2> QED
      BY <2>1, <2>2, <2>4, AllFinite DEF TurnsCounted, One
  <1>2. \A p, b : FreeBlocks(p, b)' = FreeBlocks(p, b)
    BY DEF FreeBlocks
  <1> QED
    BY <1>1, <1>2 DEF PoolIInv, CountInv, PassInv

(* A thread goes on to ask, or to make, a pool.                            *)
LEMMA AsksKeeps ==
  ASSUME PoolIInv, NEW t \in Callers, NEW op \in {"reserve", "resize"}, NEW q \in Pools,
         doing' = [doing EXCEPT ![t] = Doing(op, q, 0)], doing[t].op \in {"none", "next", "resize"},
         pools' \in Pools, pools' >= pools, q <= pools', UNCHANGED <<marker, freeCount, users>>
  PROVE  PoolIInv'
  <1>1. Doing(op, q, 0) \in PoolTask
    BY PoolAssumption, DoingIsTask DEF PoolOps
  <1>2. freeCount' \in [Pools -> Int]
    BY DEF PoolIInv, PoolTypeOK
  <1>3. Doing(op, q, 0).op = op /\ Doing(op, q, 0).pool = q
    BY DoingIs
  <1>4. PoolTypeOK' /\ AllocSucceeds' /\ UserInv' /\ ClearInv'
    BY <1>1, <1>2, <1>3, BlocksStay
  <1>5. CountInv' /\ PassInv'
    BY <1>3, CountsStay
  <1> QED
    BY <1>4, <1>5 DEF PoolIInv

LEMMA AllocKeeps == ASSUME PoolIInv, NEW t \in Callers, Alloc(t) PROVE PoolIInv'
  <1>1. 1 \in Pools /\ 1 <= pools /\ pools \in Pools /\ pools >= pools
    BY PoolAssumption DEF Pools, PoolIInv, PoolTypeOK
  <1>2. doing' = [doing EXCEPT ![t] = Doing("reserve", 1, 0)] /\ doing[t].op = "none"
        /\ UNCHANGED <<pools, marker, freeCount, users>>
    BY DEF Alloc, Turn
  <1> QED
    BY <1>1, <1>2, AsksKeeps

LEMMA NextPoolKeeps == ASSUME PoolIInv, NEW t \in Callers, NextPool(t) \/ Resize(t) PROVE PoolIInv'
  <1>1. PICK p \in Pools : p = doing[t].pool /\ p <= pools
    BY DoingTyped
  <1>2. pools \in Pools /\ pools >= pools /\ p \in Nat /\ pools \in Nat
    BY <1>1, PoolAssumption DEF PoolIInv, PoolTypeOK, Pools
  <1>3. CASE NextPool(t) /\ p < pools
    <2>1. p + 1 \in Pools /\ p + 1 <= pools
      BY <1>1, <1>2, <1>3, PoolAssumption DEF Pools
    <2>2. doing' = [doing EXCEPT ![t] = Doing("reserve", p + 1, 0)] /\ doing[t].op = "next"
          /\ UNCHANGED <<pools, marker, freeCount, users>>
      BY <1>1, <1>3 DEF NextPool, Turn
    <2> QED
      BY <1>2, <2>1, <2>2, AsksKeeps
  <1>4. CASE NextPool(t) /\ ~(p < pools)
    <2>1. doing' = [doing EXCEPT ![t] = Doing("resize", p, 0)] /\ doing[t].op = "next"
          /\ UNCHANGED <<pools, marker, freeCount, users>>
      BY <1>1, <1>4 DEF NextPool, Turn
    <2> QED
      BY <1>1, <1>2, <2>1, AsksKeeps
  <1>5. CASE Resize(t)
    <2>1. p + 1 \in Pools
      BY <1>1, <1>2, <1>5, PoolAssumption DEF Resize, Pools
    <2>2. pools' \in Pools /\ pools' >= pools /\ p + 1 <= pools'
      BY <1>1, <1>2, <1>5, <2>1, PoolAssumption DEF Resize, Pools
    <2>3. doing' = [doing EXCEPT ![t] = Doing("reserve", p + 1, 0)] /\ doing[t].op = "resize"
          /\ UNCHANGED <<marker, freeCount, users>>
      BY <1>1, <1>5 DEF Resize, Turn
    <2> QED
      BY <2>1, <2>2, <2>3, AsksKeeps
  <1> QED
    BY <1>3, <1>4, <1>5

(* A thread takes one from the count, gives it back, or counts a block it  *)
(* has freed.                                                              *)
LEMMA ReserveKeeps == ASSUME PoolIInv, NEW t \in Callers, Reserve(t) PROVE PoolIInv'
  <1>1. PICK p \in Pools : p = doing[t].pool /\ p <= pools /\ 0 \in 0 .. Count
    BY DoingTyped, PoolAssumption
  <1>2. PICK op \in {"look", "giveBack"} : op = IF freeCount[p] > 0 THEN "look" ELSE "giveBack"
    OBVIOUS
  <1>3. doing' = [doing EXCEPT ![t] = Doing(op, p, 0)] /\ doing[t].op = "reserve"
        /\ UNCHANGED <<pools, marker, users>>
    BY <1>1, <1>2 DEF Reserve, Turn
  <1>4. freeCount' = [freeCount EXCEPT ![p] = @ + (-1)] /\ freeCount[p] \in Int
    BY <1>1 DEF Reserve, AtomDec, AtomAdd, PoolIInv, PoolTypeOK
  <1>5. freeCount' \in [Pools -> Int] /\ \A q \in Pools : freeCount'[q] = freeCount[q] - One(q = p)
    BY <1>4 DEF PoolIInv, PoolTypeOK, One
  <1>6. Doing(op, p, 0) \in PoolTask
    BY <1>1, DoingIsTask DEF PoolOps
  <1>7. PoolTypeOK' /\ AllocSucceeds' /\ UserInv' /\ ClearInv'
    <2>1. Doing(op, p, 0).op = op /\ Doing(op, p, 0).pool = p
      BY DoingIs
    <2>2. pools' \in Pools /\ pools' >= pools /\ p <= pools'
      BY <1>1, <1>3, PoolAssumption DEF PoolIInv, PoolTypeOK, Pools
    <2> QED
      BY <1>3, <1>5, <1>6, <2>1, <2>2, BlocksStay
  <1>8. \A q, b : FreeBlocks(q, b)' = FreeBlocks(q, b)
    BY <1>3 DEF FreeBlocks
  <1>9. /\ \A q, b : Cardinality(Searchers(q, b))' = Cardinality(Searchers(q, b)) + One(op = "look" /\ q = p /\ 0 >= b)
        /\ \A q : Cardinality(Undoing("giveBack", q))' = Cardinality(Undoing("giveBack", q)) + One(op = "giveBack" /\ q = p)
        /\ \A q : Cardinality(Undoing("count", q))' = Cardinality(Undoing("count", q))
    <2> DEFINE job == Doing(op, p, 0)
    <2>1. \A q, b : Searches(job, q, b) <=> op = "look" /\ q = p /\ 0 >= b
      BY <1>2, DoingIs DEF Searches
    <2>2. \A u, q : Undoes(job, u, q) <=> u = op /\ q = p
      BY DoingIs DEF Undoes
    <2>3. /\ \A q, b : ~Searches(doing[t], q, b)
          /\ \A u \in {"giveBack", "count"} : \A q : ~Undoes(doing[t], u, q)
      BY <1>3 DEF Searches, Undoes
    <2>4. PoolTypeOK /\ doing' = [doing EXCEPT ![t] = job]
      BY <1>3 DEF PoolIInv
    <2>5. TurnsCounted(t, job)
      BY <2>4, TurnCounts
    <2> HIDE DEF job
    <2>6. ASSUME NEW q, NEW b
          PROVE  Cardinality(Searchers(q, b))' = Cardinality(Searchers(q, b)) + One(op = "look" /\ q = p /\ 0 >= b)
      BY <2>1, <2>3, <2>5, AllFinite DEF TurnsCounted, One
    <2>7. ASSUME NEW q
          PROVE  /\ Cardinality(Undoing("giveBack", q))' = Cardinality(Undoing("giveBack", q)) + One(op = "giveBack" /\ q = p)
                 /\ Cardinality(Undoing("count", q))' = Cardinality(Undoing("count", q))
      BY <1>2, <2>2, <2>3, <2>5, AllFinite DEF TurnsCounted, One
    <2> QED
      BY <2>6, <2>7
  <1>10. CountInv'
    BY <1>5, <1>8, <1>9, AllFinite DEF PoolIInv, CountInv, One
  <1>11. op = "look" => Cardinality(Searchers(p, 0)) + 1 <= Cardinality(FreeBlocks(p, 0))
    BY <1>2, AllFinite DEF PoolIInv, CountInv
  <1>12. ASSUME NEW q \in Pools, NEW b \in 0 .. Count
         PROVE  Cardinality(Searchers(q, b))' <= Cardinality(FreeBlocks(q, b))'
    <2>1. Cardinality(Searchers(q, b)) <= Cardinality(FreeBlocks(q, b))
      BY DEF PoolIInv, PassInv
    <2>2. CASE op = "look" /\ q = p /\ b = 0
      BY <1>8, <1>9, <1>11, <2>2, AllFinite DEF One
    <2>3. CASE ~(op = "look" /\ q = p /\ b = 0)
      <3>1. ~(op = "look" /\ q = p /\ 0 >= b)
        BY <2>3, PoolAssumption
      <3> QED
        BY <1>8, <1>9, <2>1, <3>1, AllFinite DEF One
    <2> QED
      BY <2>2, <2>3
  <1> QED
    BY <1>7, <1>10, <1>12 DEF PoolIInv, PassInv

LEMMA UndoKeeps ==
  ASSUME PoolIInv, NEW t \in Callers, NEW undo \in {"giveBack", "count"}, NEW job \in PoolTask,
         doing[t].op = undo, doing' = [doing EXCEPT ![t] = job], job.op \in {"next", "none"},
         job.pool <= pools, freeCount' = AtomAdd(freeCount, doing[t].pool, 1),
         UNCHANGED <<pools, marker, users>>
  PROVE  PoolIInv'
  <1>1. PICK p \in Pools : p = doing[t].pool
    BY DoingTyped
  <1>2. freeCount' \in [Pools -> Int] /\ \A q \in Pools : freeCount'[q] = freeCount[q] + One(q = p)
    BY <1>1 DEF PoolIInv, PoolTypeOK, AtomAdd, One
  <1>3. PoolTypeOK' /\ AllocSucceeds' /\ UserInv' /\ ClearInv'
    <2>1. pools' \in Pools /\ pools' >= pools
      BY PoolAssumption DEF PoolIInv, PoolTypeOK, Pools
    <2> QED
      BY <1>2, <2>1, BlocksStay
  <1>4. \A q, b : FreeBlocks(q, b)' = FreeBlocks(q, b)
    BY DEF FreeBlocks
  <1>5. /\ \A q, b : Cardinality(Searchers(q, b))' = Cardinality(Searchers(q, b))
        /\ \A op \in {"giveBack", "count"} : \A q :
             Cardinality(Undoing(op, q))' = Cardinality(Undoing(op, q)) - One(op = undo /\ q = p)
    <2>1. PoolTypeOK /\ doing' = [doing EXCEPT ![t] = job]
      BY DEF PoolIInv
    <2>2. TurnsCounted(t, job)
      BY <2>1, TurnCounts
    <2>3. \A q, b : ~Searches(job, q, b) /\ ~Searches(doing[t], q, b)
      BY DEF Searches
    <2>4. \A op \in {"giveBack", "count"} : \A q : ~Undoes(job, op, q) /\ (Undoes(doing[t], op, q) <=> op = undo /\ q = p)
      BY <1>1 DEF Undoes
    <2> QED
      BY <2>2, <2>3, <2>4, AllFinite DEF TurnsCounted, One
  <1>6. CountInv'
    <2> SUFFICES ASSUME NEW q \in Pools
                 PROVE  freeCount'[q] = Cardinality(FreeBlocks(q, 0)) - Cardinality(Searchers(q, 0))
                          - Cardinality(Undoing("giveBack", q))' - Cardinality(Undoing("count", q))'
      BY <1>4, <1>5 DEF CountInv
    <2>1. freeCount[q] = Cardinality(FreeBlocks(q, 0)) - Cardinality(Searchers(q, 0))
                           - Cardinality(Undoing("giveBack", q)) - Cardinality(Undoing("count", q))
      BY DEF PoolIInv, CountInv
    <2>2. /\ Cardinality(Undoing("giveBack", q))' = Cardinality(Undoing("giveBack", q)) - One("giveBack" = undo /\ q = p)
          /\ Cardinality(Undoing("count", q))' = Cardinality(Undoing("count", q)) - One("count" = undo /\ q = p)
      BY <1>5
    <2> QED
      BY <1>2, <2>1, <2>2, AllFinite DEF One
  <1>7. PassInv'
    BY <1>4, <1>5 DEF PoolIInv, PassInv
  <1> QED
    BY <1>3, <1>6, <1>7 DEF PoolIInv

LEMMA GiveBackKeeps == ASSUME PoolIInv, NEW t \in Callers, GiveBack(t) PROVE PoolIInv'
  <1>1. Doing("next", doing[t].pool, 0) \in PoolTask
    BY DoingTyped, DoingIsTask, PoolAssumption DEF PoolOps
  <1> QED
    <2>1. /\ doing[t].op = "giveBack" /\ doing' = [doing EXCEPT ![t] = Doing("next", doing[t].pool, 0)]
          /\ freeCount' = AtomAdd(freeCount, doing[t].pool, 1) /\ UNCHANGED <<pools, marker, users>>
      BY DEF GiveBack, Turn
    <2>2. Doing("next", doing[t].pool, 0).op = "next" /\ Doing("next", doing[t].pool, 0).pool <= pools
      BY DoingIs, DoingTyped
    <2> QED
      BY <1>1, <2>1, <2>2, UndoKeeps

LEMMA CountFreeKeeps == ASSUME PoolIInv, NEW t \in Callers, CountFree(t) PROVE PoolIInv'
  <1>1. Doing("none", 1, 0) \in PoolTask /\ 1 <= pools
    BY PoolAssumption, DoingIsTask DEF PoolOps, Pools, PoolIInv, PoolTypeOK
  <1> QED
    <2>1. /\ doing[t].op = "count" /\ doing' = [doing EXCEPT ![t] = Doing("none", 1, 0)]
          /\ freeCount' = AtomAdd(freeCount, doing[t].pool, 1) /\ UNCHANGED <<pools, marker, users>>
      BY DEF CountFree, Turn
    <2>2. Doing("none", 1, 0).op = "none" /\ Doing("none", 1, 0).pool = 1
      BY DoingIs
    <2> QED
      BY <1>1, <2>1, <2>2, UndoKeeps

-----------------------------------------------------------------------------
(* A searcher that passes a block which is not free goes on to one that is *)
(* promised to it.                                                         *)
LEMMA PassedBlock ==
  ASSUME PoolIInv, NEW t \in Callers, NEW p \in Pools, NEW b \in Blocks,
         doing[t].op \in {"look", "take"}, doing[t].pool = p, doing[t].block = b, marker[p][b] # 0
  PROVE  Cardinality(Searchers(p, b + 1)) + 1 <= Cardinality(FreeBlocks(p, b + 1))
  <1> DEFINE S == Searchers(p, b + 1)
  <1>1. b \in Nat /\ b \in 0 .. Count /\ b + 1 \in 0 .. Count
    BY PoolAssumption DEF Blocks
  <1>2. t \notin S /\ t \in Searchers(p, b)
    BY <1>1 DEF Searchers, Searches
  <1>3. S \union {t} \subseteq Searchers(p, b)
    BY <1>1, <1>2, DoingTyped DEF Searchers, Searches
  <1>4. Cardinality(S \union {t}) = Cardinality(S) + 1
    BY <1>2, AllFinite, FS_AddElement
  <1>5. Cardinality(S \union {t}) <= Cardinality(Searchers(p, b))
    BY <1>3, AllFinite, FS_Subset
  <1>6. FreeBlocks(p, b) = FreeBlocks(p, b + 1)
    BY <1>1 DEF FreeBlocks, Blocks
  <1>7. Cardinality(Searchers(p, b)) <= Cardinality(FreeBlocks(p, b))
    BY <1>1 DEF PoolIInv, PassInv
  <1> QED
    BY <1>4, <1>5, <1>6, <1>7, AllFinite

(* ... and so it does, when nothing else changes.                          *)
LEMMA PassKeeps ==
  ASSUME PoolIInv, NEW t \in Callers, NEW p \in Pools, NEW b \in Blocks,
         doing[t].op \in {"look", "take"}, doing[t].pool = p, doing[t].block = b, marker[p][b] # 0,
         doing' = [doing EXCEPT ![t] = Doing("look", p, b + 1)], UNCHANGED freeCount,
         \A q \in Pools : \A c : Cardinality(FreeBlocks(q, c))' = Cardinality(FreeBlocks(q, c))
  PROVE  CountInv' /\ PassInv'
  <1> DEFINE job == Doing("look", p, b + 1)
  <1>1. b \in Nat /\ b + 1 \in 0 .. Count /\ Count \in Nat
    BY PoolAssumption DEF Blocks
  <1>2. TurnsCounted(t, job)
    BY TurnCounts DEF PoolIInv
  <1>3. \A q, c : /\ Searches(job, q, c) <=> q = p /\ b + 1 >= c
                  /\ Searches(doing[t], q, c) <=> q = p /\ b >= c
    BY DoingIs DEF Searches
  <1>4. \A op \in {"giveBack", "count"} : \A q : ~Undoes(job, op, q) /\ ~Undoes(doing[t], op, q)
    BY DoingIs DEF Undoes
  <1> HIDE DEF job
  <1>5. \A q, c : Cardinality(Searchers(q, c))' =
                    Cardinality(Searchers(q, c)) + One(q = p /\ b + 1 >= c) - One(q = p /\ b >= c)
    BY <1>2, <1>3 DEF TurnsCounted, One
  <1>6. \A op \in {"giveBack", "count"} : \A q : Cardinality(Undoing(op, q))' = Cardinality(Undoing(op, q))
    BY <1>2, <1>4, AllFinite DEF TurnsCounted, One
  <1>7. CountInv'
    <2> SUFFICES ASSUME NEW q \in Pools
                 PROVE  (freeCount[q] = Cardinality(FreeBlocks(q, 0)) - Cardinality(Searchers(q, 0))
                          - Cardinality(Undoing("giveBack", q)) - Cardinality(Undoing("count", q)))'
      BY DEF CountInv
    <2>1. Cardinality(Searchers(q, 0))' = Cardinality(Searchers(q, 0))
      BY <1>1, <1>5, AllFinite DEF One
    <2> QED
      BY <2>1, <1>6 DEF PoolIInv, CountInv
  <1>8. PassInv'
    <2> SUFFICES ASSUME NEW q \in Pools, NEW c \in 0 .. Count
                 PROVE  Cardinality(Searchers(q, c))' <= Cardinality(FreeBlocks(q, c))'
      BY DEF PassInv
    <2>1. Cardinality(Searchers(q, c)) <= Cardinality(FreeBlocks(q, c))
      BY DEF PoolIInv, PassInv
    <2>2. CASE q = p /\ c = b + 1
      <3>1. Cardinality(Searchers(p, b + 1))' = Cardinality(Searchers(p, b + 1)) + 1
        BY <1>1, <1>5, AllFinite DEF One
      <3> QED
        BY <2>2, <3>1, PassedBlock
    <2>3. CASE ~(q = p /\ c = b + 1)
      <3>1. (q = p /\ b + 1 >= c) <=> (q = p /\ b >= c)
        BY <1>1, <2>3
      <3>2. Cardinality(Searchers(q, c))' = Cardinality(Searchers(q, c))
        BY <1>5, <3>1, AllFinite DEF One
      <3> QED
        BY <2>1, <3>2
    <2> QED
      BY <2>2, <2>3
  <1> QED
    BY <1>7, <1>8

(* AllocMethod.                                                            *)
LEMMA LookKeeps == ASSUME PoolIInv, NEW t \in Callers, Look(t) PROVE PoolIInv'
  <1>1. PICK p \in Pools, b \in 0 .. Count : p = doing[t].pool /\ b = doing[t].block
    BY DoingTyped
  <1>2. doing[t].op = "look" /\ p <= pools /\ Count \in Nat /\ UNCHANGED <<pools, marker, freeCount, users>>
    BY <1>1, DoingTyped, PoolAssumption DEF Look
  <1>3. pools' \in Pools /\ pools' >= pools /\ p <= pools' /\ freeCount' \in [Pools -> Int]
    BY <1>2, PoolAssumption DEF PoolIInv, PoolTypeOK, Pools
  <1>4. b \in Blocks
    <2> SUFFICES ASSUME b \notin Blocks PROVE FALSE
      OBVIOUS
    <2>1. b = Count
      BY <1>2 DEF Blocks
    <2>2. t \in Searchers(p, Count)
      <3>1. doing[t].block >= Count
        BY <1>1, <1>2, <2>1
      <3> QED
        BY <1>1, <1>2, <3>1 DEF Searchers, Searches
    <2>3. FreeBlocks(p, Count) = {}
      BY <1>2 DEF FreeBlocks, Blocks
    <2>4. Cardinality(Searchers(p, Count)) <= 0
      BY <1>1, <2>1, <2>3, FS_EmptySet DEF PoolIInv, PassInv
    <2>5. Searchers(p, Count) = {}
      BY <2>4, AllFinite, FS_EmptySet
    <2> QED
      BY <2>2, <2>5
  <1>5. CASE marker[p][b] = 0
    <2>1. doing' = [doing EXCEPT ![t] = Doing("take", p, b)]
      BY <1>1, <1>4, <1>5 DEF Look, Turn
    <2>2. Doing("take", p, b) \in PoolTask
      BY DoingIsTask DEF PoolOps
    <2>3. Doing("take", p, b).op = "take" /\ Doing("take", p, b).pool = p /\ Doing("take", p, b).block = b
      BY DoingIs
    <2>4. PoolTypeOK' /\ AllocSucceeds' /\ UserInv' /\ ClearInv'
      BY <1>2, <1>3, <1>4, <2>1, <2>2, <2>3, BlocksStay
    <2>5. \A u \in Callers : doing'[u] = IF u = t THEN Doing("take", p, b) ELSE doing[u]
      BY <2>1 DEF PoolIInv, PoolTypeOK
    <2>6. \A q, c : Searchers(q, c)' = Searchers(q, c)
      BY <1>1, <1>2, <2>3, <2>5 DEF Searchers, Searches
    <2>7. \A op \in {"giveBack", "count"} : \A q : Undoing(op, q)' = Undoing(op, q)
      BY <1>1, <1>2, <2>3, <2>5 DEF Undoing, Undoes
    <2>8. \A q, c : FreeBlocks(q, c)' = FreeBlocks(q, c)
      BY <1>2 DEF FreeBlocks
    <2>9. CountInv' /\ PassInv'
      BY <1>2, <2>6, <2>7, <2>8 DEF PoolIInv, CountInv, PassInv
    <2> QED
      BY <2>4, <2>9 DEF PoolIInv
  <1>6. CASE marker[p][b] # 0
    <2>1. doing' = [doing EXCEPT ![t] = Doing("look", p, b + 1)]
      BY <1>1, <1>4, <1>6 DEF Look, Turn
    <2>2. b + 1 \in 0 .. Count
      BY <1>2, <1>4 DEF Blocks
    <2>3. Doing("look", p, b + 1) \in PoolTask
      BY <2>2, DoingIsTask DEF PoolOps
    <2>4. Doing("look", p, b + 1).op = "look" /\ Doing("look", p, b + 1).pool = p
      BY DoingIs
    <2>5. PoolTypeOK' /\ AllocSucceeds' /\ UserInv' /\ ClearInv'
      BY <1>2, <1>3, <2>1, <2>3, <2>4, BlocksStay
    <2>6. \A q, c : FreeBlocks(q, c)' = FreeBlocks(q, c)
      BY <1>2 DEF FreeBlocks
    <2>7. CountInv' /\ PassInv'
      BY <1>1, <1>2, <1>4, <1>6, <2>1, <2>6, PassKeeps
    <2> QED
      BY <2>5, <2>7 DEF PoolIInv
  <1> QED
    BY <1>5, <1>6

LEMMA TakeKeeps == ASSUME PoolIInv, NEW t \in Callers, Take(t) PROVE PoolIInv'
  <1>1. PICK p \in Pools, b \in Blocks : p = doing[t].pool /\ b = doing[t].block
    BY DoingTyped DEF Take, PoolIInv, ClearInv
  <1>2. /\ doing[t].op = "take" /\ p <= pools /\ Count \in Nat /\ UNCHANGED <<pools, freeCount>>
        /\ marker' = [marker EXCEPT ![p][b] = marker[p][b] + 1] /\ marker[p][b] \in Nat
    BY <1>1, DoingTyped, PoolAssumption DEF Take, PoolIInv, PoolTypeOK
  <1>3. b \in 0 .. Count /\ b + 1 \in 0 .. Count /\ b \in Nat /\ 1 \in Pools /\ 1 <= pools /\ 0 \in 0 .. Count
    BY <1>2, PoolAssumption DEF Blocks, Pools, PoolIInv, PoolTypeOK
  <1>4. \A q \in Pools, i \in Blocks :
          marker'[q][i] = IF q = p /\ i = b THEN marker[p][b] + 1 ELSE marker[q][i]
    BY <1>2 DEF PoolIInv, PoolTypeOK
  <1>5. marker' \in [Pools -> [Blocks -> Nat]]
    BY <1>2 DEF PoolIInv, PoolTypeOK
  <1>6. \A q \in Pools : \A c : Cardinality(FreeBlocks(q, c))' =
          Cardinality(FreeBlocks(q, c)) - One(q = p /\ b >= c /\ marker[p][b] = 0)
    <2>1. PoolTypeOK
      BY DEF PoolIInv
    <2>2. MarkersCounted(p, b, marker[p][b] + 1)
      BY <1>2, <2>1, MarkerCounts
    <2> QED
      BY <1>2, <2>2, AllFinite DEF MarkersCounted, One
  <1>7. CASE marker[p][b] = 0
    <2> DEFINE job == Doing("none", 1, 0)
    <2>1. doing' = [doing EXCEPT ![t] = job] /\ users' = [users EXCEPT ![p][b] = users[p][b] + 1]
      BY <1>1, <1>7 DEF Take, Turn
    <2>2. job \in PoolTask /\ job.op = "none" /\ job.pool = 1
      BY <1>3, DoingIsTask, DoingIs DEF PoolOps
    <2> HIDE DEF job
    <2>3. users[p][b] = 0
      <3>1. users[p][b] \in Nat
        BY <1>1 DEF PoolIInv, PoolTypeOK
      <3>2. users[p][b] <= 1 /\ users[p][b] # 1
        BY <1>1, <1>7 DEF PoolIInv, UserInv
      <3> QED
        BY <3>1, <3>2
    <2>4. \A q \in Pools, i \in Blocks : users'[q][i] = IF q = p /\ i = b THEN 1 ELSE users[q][i]
      BY <2>1, <2>3 DEF PoolIInv, PoolTypeOK
    <2>5. \A u \in Callers : doing'[u] = IF u = t THEN job ELSE doing[u]
      BY <2>1 DEF PoolIInv, PoolTypeOK
    <2>6. PoolTypeOK'
      <3>1. users' \in [Pools -> [Blocks -> Nat]] /\ doing' \in [Callers -> PoolTask]
        BY <2>1, <2>2, <2>3 DEF PoolIInv, PoolTypeOK
      <3>2. \A u \in Callers : doing'[u].pool <= pools
        BY <1>3, <2>2, <2>5, DoingTyped
      <3> QED
        BY <1>2, <1>5, <3>1, <3>2 DEF PoolIInv, PoolTypeOK
    <2>7. AllocSucceeds' /\ UserInv'
      <3>1. AllocSucceeds'
        BY <2>2, <2>5 DEF PoolIInv, AllocSucceeds
      <3>2. UserInv'
        BY <1>2, <1>4, <2>4 DEF PoolIInv, UserInv
      <3> QED
        BY <3>1, <3>2
    <2>8. ClearInv'
      <3>1. \A u \in Callers : doing[u].op = "clear" => ~(doing[u].pool = p /\ doing[u].block = b)
        BY <1>7 DEF PoolIInv, ClearInv
      <3>2. \A u \in Callers : doing'[u].op = "clear" => doing'[u] = doing[u]
        BY <2>2, <2>5
      <3>3. \A u \in Callers : doing[u].op = "clear" =>
              /\ doing[u].pool \in Pools /\ doing[u].block \in Blocks
              /\ users'[doing[u].pool][doing[u].block] = users[doing[u].pool][doing[u].block]
              /\ marker'[doing[u].pool][doing[u].block] = marker[doing[u].pool][doing[u].block]
        BY <1>4, <2>4, <3>1, DoingTyped DEF PoolIInv, ClearInv
      <3> QED
        BY <2>2, <2>5, <3>2, <3>3 DEF PoolIInv, ClearInv
    <2>9. TurnsCounted(t, job)
      BY <2>1, TurnCounts DEF PoolIInv
    <2>10. \A q, c : Cardinality(Searchers(q, c))' = Cardinality(Searchers(q, c)) - One(q = p /\ b >= c)
      <3>1. \A q, c : ~Searches(job, q, c) /\ (Searches(doing[t], q, c) <=> q = p /\ b >= c)
        BY <1>1, <1>2, <2>2 DEF Searches
      <3> QED
        BY <2>9, <3>1, AllFinite DEF TurnsCounted, One
    <2>11. \A op \in {"giveBack", "count"} : \A q : Cardinality(Undoing(op, q))' = Cardinality(Undoing(op, q))
      <3>1. \A op \in {"giveBack", "count"} : \A q : ~Undoes(job, op, q) /\ ~Undoes(doing[t], op, q)
        BY <1>2, <2>2 DEF Undoes
      <3> QED
        BY <2>9, <3>1, AllFinite DEF TurnsCounted, One
    <2>12. CountInv'
      <3> SUFFICES ASSUME NEW q \in Pools
                   PROVE  (freeCount[q] = Cardinality(FreeBlocks(q, 0)) - Cardinality(Searchers(q, 0))
                            - Cardinality(Undoing("giveBack", q)) - Cardinality(Undoing("count", q)))'
        BY DEF CountInv
      <3>1. One(q = p /\ b >= 0 /\ marker[p][b] = 0) = One(q = p /\ b >= 0) /\ One(q = p /\ b >= 0) \in Nat
        BY <1>7 DEF One
      <3> QED
        BY <1>2, <1>6, <2>10, <2>11, <3>1, AllFinite DEF PoolIInv, CountInv
    <2>13. PassInv'
      <3> SUFFICES ASSUME NEW q \in Pools, NEW c \in 0 .. Count
                   PROVE  Cardinality(Searchers(q, c))' <= Cardinality(FreeBlocks(q, c))'
        BY DEF PassInv
      <3>1. One(q = p /\ b >= c /\ marker[p][b] = 0) = One(q = p /\ b >= c) /\ One(q = p /\ b >= c) \in Nat
        BY <1>7 DEF One
      <3> QED
        BY <1>6, <2>10, <3>1, AllFinite DEF PoolIInv, PassInv
    <2> QED
      BY <2>6, <2>7, <2>8, <2>12, <2>13 DEF PoolIInv
  <1>8. CASE marker[p][b] # 0
    <2> DEFINE job == Doing("look", p, b + 1)
    <2>1. doing' = [doing EXCEPT ![t] = job] /\ UNCHANGED users
      BY <1>1, <1>8 DEF Take, Turn
    <2>2. job \in PoolTask /\ job.op = "look" /\ job.pool = p
      BY <1>3, DoingIsTask, DoingIs DEF PoolOps
    <2>3. CountInv' /\ PassInv'
      <3>1. \A q \in Pools : \A c : Cardinality(FreeBlocks(q, c))' = Cardinality(FreeBlocks(q, c))
        BY <1>6, <1>8, AllFinite DEF One
      <3> QED
        BY <1>1, <1>2, <1>8, <2>1, <3>1, PassKeeps
    <2> HIDE DEF job
    <2>4. \A u \in Callers : doing'[u] = IF u = t THEN job ELSE doing[u]
      BY <2>1 DEF PoolIInv, PoolTypeOK
    <2>5. PoolTypeOK'
      <3>1. doing' \in [Callers -> PoolTask]
        BY <2>1, <2>2 DEF PoolIInv, PoolTypeOK
      <3>2. \A u \in Callers : doing'[u].pool <= pools
        BY <1>2, <2>2, <2>4, DoingTyped
      <3> QED
        BY <1>2, <1>5, <2>1, <3>1, <3>2 DEF PoolIInv, PoolTypeOK
    <2>6. \A q \in Pools, i \in Blocks : marker[q][i] # 0 => marker'[q][i] # 0
      BY <1>2, <1>4
    <2>7. AllocSucceeds' /\ UserInv'
      BY <1>2, <2>1, <2>2, <2>4, <2>6 DEF PoolIInv, AllocSucceeds, UserInv
    <2>8. ClearInv'
      <3>1. \A u \in Callers : doing'[u].op \in {"take", "clear"} => doing'[u] = doing[u]
        BY <2>2, <2>4
      <3>2. \A u \in Callers : doing[u].op = "clear" => doing[u].pool \in Pools /\ doing[u].block \in Blocks
        BY DoingTyped DEF PoolIInv, ClearInv
      <3> QED
        BY <2>1, <2>2, <2>4, <2>6, <3>1, <3>2 DEF PoolIInv, ClearInv
    <2> QED
      BY <2>3, <2>5, <2>7, <2>8 DEF PoolIInv
  <1> QED
    BY <1>7, <1>8

(* FreeMethod.                                                             *)
LEMMA FreeKeeps ==
  ASSUME PoolIInv, NEW t \in Callers, NEW p \in Pools, NEW b \in Blocks, Free(t, p, b) PROVE PoolIInv'
  <1> DEFINE job == Doing("clear", p, b)
  <1>1. /\ doing' = [doing EXCEPT ![t] = job] /\ users' = [users EXCEPT ![p][b] = users[p][b] - 1]
        /\ doing[t].op = "none" /\ UNCHANGED <<pools, marker, freeCount>>
    BY DEF Free, Turn
  <1>2. users[p][b] = 1 /\ marker[p][b] # 0 /\ p <= pools
    BY DEF Free, PoolIInv, UserInv, PoolTypeOK
  <1>3. job \in PoolTask /\ job.op = "clear" /\ job.pool = p /\ job.block = b
    <2>1. b \in 0 .. Count
      BY PoolAssumption DEF Blocks
    <2> QED
      BY <2>1, DoingIsTask, DoingIs DEF PoolOps
  <1> HIDE DEF job
  <1>4. \A q \in Pools, i \in Blocks : users'[q][i] = IF q = p /\ i = b THEN 0 ELSE users[q][i]
    BY <1>1, <1>2 DEF PoolIInv, PoolTypeOK
  <1>5. \A u \in Callers : doing'[u] = IF u = t THEN job ELSE doing[u]
    BY <1>1 DEF PoolIInv, PoolTypeOK
  <1>6. PoolTypeOK'
    <2>1. users' \in [Pools -> [Blocks -> Nat]] /\ doing' \in [Callers -> PoolTask]
      BY <1>1, <1>2, <1>3 DEF PoolIInv, PoolTypeOK
    <2>2. \A u \in Callers : doing'[u].pool <= pools
      BY <1>2, <1>3, <1>5, DoingTyped
    <2> QED
      BY <1>1, <2>1, <2>2 DEF PoolIInv, PoolTypeOK
  <1>7. AllocSucceeds'
    BY <1>3, <1>5 DEF PoolIInv, AllocSucceeds
  <1>8. UserInv'
    BY <1>1, <1>4 DEF PoolIInv, UserInv
  <1>9. ClearInv'
    <2>1. \A u \in Callers : doing[u].op = "clear" =>
            doing[u].pool \in Pools /\ doing[u].block \in Blocks /\ ~(doing[u].pool = p /\ doing[u].block = b)
      BY <1>2, DoingTyped DEF PoolIInv, ClearInv
    <2> QED
      BY <1>1, <1>2, <1>3, <1>4, <1>5, <2>1 DEF PoolIInv, ClearInv
  <1>10. CountInv' /\ PassInv'
    BY <1>1, <1>3, CountsStay
  <1> QED
    BY <1>6, <1>7, <1>8, <1>9, <1>10 DEF PoolIInv

LEMMA ClearKeeps == ASSUME PoolIInv, NEW t \in Callers, Clear(t) PROVE PoolIInv'
  <1>1. PICK p \in Pools, b \in Blocks : p = doing[t].pool /\ b = doing[t].block
    BY DoingTyped DEF Clear, PoolIInv, ClearInv
  <1> DEFINE job == Doing("count", p, b)
  <1>2. /\ doing' = [doing EXCEPT ![t] = job] /\ marker' = [marker EXCEPT ![p][b] = 0]
        /\ doing[t].op = "clear" /\ UNCHANGED <<pools, freeCount, users>>
    BY <1>1 DEF Clear, Turn
  <1>3. users[p][b] = 0 /\ marker[p][b] # 0 /\ p <= pools /\ b \in Nat
    BY <1>1, <1>2, DoingTyped DEF PoolIInv, ClearInv, Blocks
  <1>4. job \in PoolTask /\ job.op = "count" /\ job.pool = p
    <2>1. b \in 0 .. Count
      BY PoolAssumption DEF Blocks
    <2> QED
      BY <2>1, DoingIsTask, DoingIs DEF PoolOps
  <1> HIDE DEF job
  <1>5. \A q \in Pools, i \in Blocks : marker'[q][i] = IF q = p /\ i = b THEN 0 ELSE marker[q][i]
    BY <1>2 DEF PoolIInv, PoolTypeOK
  <1>6. \A u \in Callers : doing'[u] = IF u = t THEN job ELSE doing[u]
    BY <1>2 DEF PoolIInv, PoolTypeOK
  <1>7. PoolTypeOK'
    <2>1. marker' \in [Pools -> [Blocks -> Nat]] /\ doing' \in [Callers -> PoolTask]
      BY <1>2, <1>4 DEF PoolIInv, PoolTypeOK
    <2>2. \A u \in Callers : doing'[u].pool <= pools
      BY <1>3, <1>4, <1>6, DoingTyped
    <2> QED
      BY <1>2, <2>1, <2>2 DEF PoolIInv, PoolTypeOK
  <1>8. AllocSucceeds' /\ UserInv'
    <2>1. AllocSucceeds'
      BY <1>4, <1>6 DEF PoolIInv, AllocSucceeds
    <2>2. UserInv'
      BY <1>2, <1>3, <1>5 DEF PoolIInv, UserInv
    <2> QED
      BY <2>1, <2>2
  <1>9. ClearInv'
    <2>1. \A u \in Callers : doing'[u].op = "clear" =>
            /\ u # t /\ doing'[u] = doing[u] /\ doing[u].pool \in Pools /\ doing[u].block \in Blocks
            /\ ~(doing[u].pool = p /\ doing[u].block = b)
      BY <1>1, <1>2, <1>4, <1>6, DoingTyped DEF PoolIInv, ClearInv
    <2>2. \A u \in Callers : doing'[u].op = "clear" =>
            marker'[doing[u].pool][doing[u].block] = marker[doing[u].pool][doing[u].block]
      BY <1>5, <2>1
    <2> QED
      BY <1>2, <1>4, <1>6, <2>1, <2>2 DEF PoolIInv, ClearInv
  <1>10. TurnsCounted(t, job)
    BY <1>2, TurnCounts DEF PoolIInv
  <1>11. \A q, c : Cardinality(Searchers(q, c))' = Cardinality(Searchers(q, c))
    <2>1. \A q, c : ~Searches(job, q, c) /\ ~Searches(doing[t], q, c)
      BY <1>2, <1>4 DEF Searches
    <2> QED
      BY <1>10, <2>1, AllFinite DEF TurnsCounted, One
  <1>12. \A q : /\ Cardinality(Undoing("giveBack", q))' = Cardinality(Undoing("giveBack", q))
                /\ Cardinality(Undoing("count", q))' = Cardinality(Undoing("count", q)) + One(q = p)
    <2>1. \A op \in {"giveBack", "count"} : \A q : ~Undoes(doing[t], op, q) /\ (Undoes(job, op, q) <=> op = "count" /\ q = p)
      BY <1>2, <1>4 DEF Undoes
    <2> QED
      BY <1>10, <2>1, AllFinite DEF TurnsCounted, One
  <1>13. \A q \in Pools : \A c : Cardinality(FreeBlocks(q, c))' = Cardinality(FreeBlocks(q, c)) + One(q = p /\ b >= c)
    <2>1. PoolTypeOK
      BY DEF PoolIInv
    <2>2. MarkersCounted(p, b, 0)
      BY <1>2, <2>1, MarkerCounts
    <2> QED
      BY <1>3, <2>2, AllFinite DEF MarkersCounted, One
  <1>14. CountInv'
    <2> SUFFICES ASSUME NEW q \in Pools
                 PROVE  (freeCount[q] = Cardinality(FreeBlocks(q, 0)) - Cardinality(Searchers(q, 0))
                          - Cardinality(Undoing("giveBack", q)) - Cardinality(Undoing("count", q)))'
      BY DEF CountInv
    <2>1. One(q = p /\ b >= 0) = One(q = p) /\ One(q = p) \in Nat
      BY <1>3 DEF One
    <2> QED
      BY <1>2, <1>11, <1>12, <1>13, <2>1, AllFinite DEF PoolIInv, CountInv
  <1>15. PassInv'
    <2> SUFFICES ASSUME NEW q \in Pools, NEW c \in 0 .. Count
                 PROVE  Cardinality(Searchers(q, c))' <= Cardinality(FreeBlocks(q, c))'
      BY DEF PassInv
    <2>1. One(q = p /\ b >= c) \in Nat
      BY DEF One
    <2> QED
      BY <1>11, <1>13, <2>1, AllFinite DEF PoolIInv, PassInv
  <1> QED
    BY <1>7, <1>8, <1>9, <1>14, <1>15 DEF PoolIInv

LEMMA PoolStepKeeps == PoolIInv /\ [PoolNext]_poolVars => PoolIInv'
  <1> SUFFICES ASSUME PoolIInv, [PoolNext]_poolVars PROVE PoolIInv'
    OBVIOUS
  <1>1. CASE UNCHANGED poolVars
    <2>1. UNCHANGED <<pools, marker, freeCount, users, doing>>
      BY <1>1 DEF poolVars
    <2>2. PoolTypeOK' /\ AllocSucceeds' /\ UserInv' /\ ClearInv'
      BY <2>1 DEF PoolIInv, PoolTypeOK, AllocSucceeds, UserInv, ClearInv
    <2>3. /\ \A p, b : Searchers(p, b)' = Searchers(p, b) /\ FreeBlocks(p, b)' = FreeBlocks(p, b)
          /\ \A op, p : Undoing(op, p)' = Undoing(op, p)
      BY <2>1 DEF FreeBlocks, Searchers, Undoing, Searches, Undoes
    <2>4. CountInv' /\ PassInv'
      BY <2>1, <2>3 DEF PoolIInv, CountInv, PassInv
    <2> QED
      BY <2>2, <2>4 DEF PoolIInv
  <1>2. ASSUME NEW t \in Callers, PoolStep(t) PROVE PoolIInv'
    <2>1. CASE Alloc(t)
      BY <2>1, AllocKeeps
    <2>2. CASE Reserve(t)
      BY <2>2, ReserveKeeps
    <2>3. CASE GiveBack(t)
      BY <2>3, GiveBackKeeps
    <2>4. CASE NextPool(t) \/ Resize(t)
      BY <2>4, NextPoolKeeps
    <2>5. CASE Look(t)
      BY <2>5, LookKeeps
    <2>6. CASE Take(t)
      BY <2>6, TakeKeeps
    <2>7. ASSUME NEW p \in Pools, NEW b \in Blocks, Free(t, p, b) PROVE PoolIInv'
      BY <2>7, FreeKeeps
    <2>8. CASE Clear(t)
      BY <2>8, ClearKeeps
    <2>9. CASE CountFree(t)
      BY <2>9, CountFreeKeeps
    <2> QED
      BY <1>2, <2>1, <2>2, <2>3, <2>4, <2>5, <2>6, <2>7, <2>8, <2>9 DEF PoolStep, FreeMethod
  <1> QED
    BY <1>1, <1>2 DEF PoolNext

-----------------------------------------------------------------------------
LEMMA PoolImplies == PoolIInv => AllocSucceeds /\ PoolInv
  <1> SUFFICES ASSUME PoolIInv PROVE AllocSucceeds /\ PoolInv
    OBVIOUS
  <1>1. AllocSucceeds /\ PoolTypeOK /\ OneUser
    BY DEF PoolIInv, UserInv, OneUser
  <1>2. CountsAgree
    <2> SUFFICES ASSUME \A t \in Callers : doing[t].op = "none", NEW p \in Pools
                 PROVE  freeCount[p] = Cardinality({b \in Blocks : marker[p][b] = 0 /\ users[p][b] = 0})
      BY DEF CountsAgree
    <2>1. Searchers(p, 0) = {} /\ Undoing("giveBack", p) = {} /\ Undoing("count", p) = {}
      BY DEF Searchers, Searches, Undoing, Undoes
    <2>2. FreeBlocks(p, 0) = {b \in Blocks : marker[p][b] = 0 /\ users[p][b] = 0}
      <3>1. \A b \in Blocks : b >= 0 /\ users[p][b] \in Nat
        BY PoolAssumption DEF Blocks, PoolIInv, PoolTypeOK
      <3>2. \A b \in Blocks : marker[p][b] = 0 => users[p][b] = 0
        BY <3>1 DEF PoolIInv, UserInv
      <3> QED
        BY <3>1, <3>2 DEF FreeBlocks
    <2>3. Cardinality({}) = 0
      BY FS_EmptySet
    <2>4. freeCount[p] = Cardinality(FreeBlocks(p, 0)) - Cardinality(Searchers(p, 0))
                           - Cardinality(Undoing("giveBack", p)) - Cardinality(Undoing("count", p))
      BY DEF PoolIInv, CountInv
    <2>5. freeCount[p] = Cardinality(FreeBlocks(p, 0)) - 0 - 0 - 0
      BY <2>1, <2>3, <2>4
    <2>6. Cardinality(FreeBlocks(p, 0)) \in Nat
      BY AllFinite
    <2>7. freeCount[p] = Cardinality(FreeBlocks(p, 0))
      BY <2>5, <2>6
    <2> QED
      BY <2>2, <2>7
  <1> QED
    BY <1>1, <1>2 DEF PoolInv

(* Alloc never returns NULL: a thread that was counted in finds a block in *)
(* its one pass over them.                                                 *)
THEOREM AllocSucceedsHolds == PoolSpec => []AllocSucceeds
  <1> QED
    BY PoolInitKeeps, PoolStepKeeps, PoolImplies, PTL DEF PoolSpec

(* A block has one user at a time, and at rest the count of each pool is   *)
(* the number of its free blocks.                                          *)
THEOREM PoolInvHolds == PoolSpec => []PoolInv
  <1> QED
    BY PoolInitKeeps, PoolStepKeeps, PoolImplies, PTL DEF PoolSpec

-----------------------------------------------------------------------------
(***************************************************************************)
(* The client ids.                                                         *)
(***************************************************************************)
USE ClientIdAssumption

(* The variables keep their types; in particular the file never names an   *)
(* id above LastId + 1, which is refused.                                  *)
THEOREM IdsTypeCorrect == Spec => []TypeOK
<1>1. Init => TypeOK
  <2>1. 0 \in Ids /\ 0 \in 0 .. MaxTaken
    BY DEF Ids
  <2> QED BY <2>1 DEF Init, TypeOK
<1>2. TypeOK /\ [Next]_vars => TypeOK'
  <2> SUFFICES ASSUME TypeOK, [Next]_vars PROVE TypeOK'
    OBVIOUS
  <2> USE DEF TypeOK
  <2>1. ASSUME NEW t \in Threads, OnGetClientId(t) PROVE TypeOK'
    BY <2>1 DEF OnGetClientId
  <2>2. ASSUME NEW t \in Threads, ReadId(t) PROVE TypeOK'
    <3>1. PICK id \in {IF file = Missing THEN 0 ELSE file} :
            id <= LastId /\ clientId' = [clientId EXCEPT ![t] = id]
      BY <2>2 DEF ReadId
    <3>2. id \in Ids
      BY <2>2, <3>1 DEF ReadId, Ids
    <3> QED BY <2>2, <3>1, <3>2 DEF ReadId
  <2>3. ASSUME NEW t \in Threads, Refuse(t) PROVE TypeOK'
    BY <2>3 DEF Refuse
  <2>4. ASSUME NEW t \in Threads, OpenWrite(t) PROVE TypeOK'
    BY <2>4 DEF OpenWrite
  <2>5. ASSUME NEW t \in Threads, Flush(t) PROVE TypeOK'
    <3>1. NextId(t) \in 0 .. LastId + 1
      BY DEF NextId, Ids
    <3>2. taken' \in [Ids -> 0 .. MaxTaken]
      BY <2>5 DEF Flush
    <3> QED BY <2>5, <3>1, <3>2 DEF Flush
  <2>6. CASE Crash
    BY <2>6 DEF Crash
  <2>7. CASE UNCHANGED vars
    BY <2>7 DEF vars
  <2> QED BY <2>1, <2>2, <2>3, <2>4, <2>5, <2>6, <2>7 DEF Next
<1> QED BY <1>1, <1>2, PTL DEF Spec

-----------------------------------------------------------------------------
(* However the requests interleave, and wherever the process dies, no      *)
(* client id is skipped.                                                   *)
THEOREM NoIdSkippedHolds == Spec => []NoIdSkipped
<1>1. Init => NoIdSkipped
  BY DEF Init, NoIdSkipped, Ids
<1>2. TypeOK /\ NoIdSkipped /\ [Next]_vars => NoIdSkipped'
  <2> SUFFICES ASSUME TypeOK, NoIdSkipped, [Next]_vars PROVE NoIdSkipped'
    OBVIOUS
  <2> USE DEF TypeOK, NoIdSkipped
  <2>1. ASSUME NEW t \in Threads, OnGetClientId(t) PROVE NoIdSkipped'
    BY <2>1 DEF OnGetClientId
  <2>2. ASSUME NEW t \in Threads, ReadId(t) PROVE NoIdSkipped'
    BY <2>2 DEF ReadId, Ids
  <2>3. ASSUME NEW t \in Threads, Refuse(t) PROVE NoIdSkipped'
    BY <2>3 DEF Refuse
  <2>4. ASSUME NEW t \in Threads, OpenWrite(t) PROVE NoIdSkipped'
    BY <2>4 DEF OpenWrite
  <2>5. ASSUME NEW t \in Threads, Flush(t) PROVE NoIdSkipped'
    <3> DEFINE k == clientId[t]
    <3>1. k \in Ids /\ \A low \in Ids : low < k => taken[low] > 0
      BY <2>5 DEF Flush
    <3>2. \A i \in Ids : taken'[i] = IF i = k THEN taken[i] + 1 ELSE taken[i]
      BY <2>5 DEF Flush
    <3>3. \A low \in Ids : low <= k => taken'[low] > 0
      BY <3>1, <3>2 DEF Ids
    <3>4. \A i \in Ids : taken[i] > 0 => taken'[i] > 0
      BY <3>2
    <3>5. \A id \in Ids : taken'[id] > 0 => \A low \in 0 .. id : taken'[low] > 0
      <4> SUFFICES ASSUME NEW id \in Ids, taken'[id] > 0, NEW low \in 0 .. id
                   PROVE  taken'[low] > 0
        OBVIOUS
      <4>1. id \in Nat /\ k \in Nat /\ low \in Ids
        BY <3>1 DEF Ids
      <4>2. CASE id <= k
        BY <3>3, <4>1, <4>2
      <4>3. CASE id > k
        <5>1. taken[id] > 0
          BY <3>2, <4>1, <4>3
        <5> QED BY <3>4, <4>1, <5>1
      <4> QED BY <4>1, <4>2, <4>3
    <3>6. file' \in Nat => \A low \in Ids : low < file' => taken'[low] > 0
      <4>1. CASE file' = file
        BY <3>4, <4>1
      <4>2. CASE file' = k + 1
        BY <3>1, <3>3, <4>2 DEF Ids
      <4> QED BY <2>5, <4>1, <4>2 DEF Flush, NextId
    <3>7. \A s \in Threads : pc'[s] \in {"truncate", "flush"} =>
            \A low \in Ids : low < clientId'[s] => taken'[low] > 0
      BY <2>5, <3>4 DEF Flush
    <3> QED BY <3>5, <3>6, <3>7
  <2>6. CASE Crash
    BY <2>6 DEF Crash
  <2>7. CASE UNCHANGED vars
    BY <2>7 DEF vars
  <2> QED BY <2>1, <2>2, <2>3, <2>4, <2>5, <2>6, <2>7 DEF Next
<1> QED BY <1>1, <1>2, IdsTypeCorrect, PTL DEF Spec

-----------------------------------------------------------------------------
(* As long as no two requests overlap, no client id is given out twice.    *)
THEOREM UniqueUnlessRacedHolds == Spec => []UniqueUnlessRaced
<1>1. Init => SerialInv
  BY DEF Init, SerialInv, Alone, Busy, UniqueClientIds, NotTakenFrom, Ids
<1>2. TypeOK /\ SerialInv /\ [Next]_vars => SerialInv'
  <2> SUFFICES ASSUME TypeOK, SerialInv, [Next]_vars, ~raced' PROVE SerialInv'
    BY DEF SerialInv
  <2>0. ~raced
    BY DEF Next, OnGetClientId, ReadId, Refuse, OpenWrite, Flush, Crash, vars
  <2> USE <2>0 DEF TypeOK, SerialInv, NotTakenFrom, UniqueClientIds, Alone, Busy
  <2>1. ASSUME NEW t \in Threads, OnGetClientId(t) PROVE SerialInv'
    BY <2>1 DEF OnGetClientId
  <2>2. ASSUME NEW t \in Threads, ReadId(t) PROVE SerialInv'
    BY <2>2 DEF ReadId, Ids
  <2>3. ASSUME NEW t \in Threads, Refuse(t) PROVE SerialInv'
    BY <2>3 DEF Refuse
  <2>4. ASSUME NEW t \in Threads, OpenWrite(t) PROVE SerialInv'
    BY <2>4 DEF OpenWrite
  <2>5. ASSUME NEW t \in Threads, Flush(t) PROVE SerialInv'
    <3> DEFINE k == clientId[t]
    <3>1. /\ k \in Ids /\ file = Empty
          /\ \A i \in Ids : i >= k => taken[i] = 0
          /\ \A s \in Threads : pc'[s] = "idle"
      <4>1. pc[t] = "flush" /\ pc' = [pc EXCEPT ![t] = "idle"]
        BY <2>5 DEF Flush
      <4>2. k \in Ids /\ file = Empty /\ \A i \in Ids : i >= k => taken[i] = 0
        BY <4>1
      <4>3. \A s \in Threads : pc[s] # "idle" => s = t
        BY <4>1
      <4> QED BY <4>1, <4>2, <4>3
    <3>2. \A i \in Ids : taken'[i] = IF i = k THEN taken[i] + 1 ELSE taken[i]
      BY <2>5 DEF Flush
    <3>3. \A i \in Ids : taken'[i] <= 1
      <4> SUFFICES ASSUME NEW i \in Ids PROVE taken'[i] <= 1
        OBVIOUS
      <4>1. CASE i = k
        <5>1. taken[k] = 0
          BY <3>1 DEF Ids
        <5> QED BY <3>2, <4>1, <5>1
      <4>2. CASE i # k
        <5>1. taken[i] <= 1
          OBVIOUS
        <5> HIDE DEF k
        <5> QED BY <3>2, <4>2, <5>1
      <4> QED BY <4>1, <4>2
    <3>4. \A i \in Ids : i >= k + 1 => taken'[i] = 0
      <4> SUFFICES ASSUME NEW i \in Ids, i >= k + 1 PROVE taken'[i] = 0
        OBVIOUS
      <4>1. i \in Nat /\ k \in Nat
        BY <3>1 DEF Ids
      <4>2. i # k /\ i >= k
        BY <4>1
      <4> HIDE DEF k
      <4> QED BY <3>1, <3>2, <4>2
    <3>5. file' \in {Empty, k + 1}
      BY <2>5, <3>1 DEF Flush, NextId
    <3>6. k + 1 \in Nat
      BY <3>1 DEF Ids
    <3> QED BY <3>1, <3>3, <3>4, <3>5, <3>6
  <2>6. CASE Crash
    BY <2>6 DEF Crash
  <2>7. CASE UNCHANGED vars
    BY <2>7 DEF vars
  <2> QED BY <2>1, <2>2, <2>3, <2>4, <2>5, <2>6, <2>7 DEF Next
<1>3. SerialInv => UniqueUnlessRaced
  BY DEF SerialInv, UniqueUnlessRaced
<1> QED BY <1>1, <1>2, <1>3, IdsTypeCorrect, PTL DEF Spec

-----------------------------------------------------------------------------
(***************************************************************************)
(* The pool of threads.                                                    *)
(***************************************************************************)

(* Where each thread can be.                                               *)
WaitAt    == {"wait", "asleep", "awake", "endWait"}
Gone      == {"broadcast", "over"}
PushAt    == {"lock", "push", "unlock"}
WorkerAt  == {"unborn", "check", "pull", "run", "idle", "reset", "leave", "end"} \union WaitAt \union Gone \union PushAt
PusherAt  == {"free"} \union PushAt
InStop    == {"next", "toWait", "timedWait", "unlock", "stopped"}
StopperAt == {"start", "create", "started", "lock", "clear"} \union InStop
Holding   == {"push", "unlock", "clear", "next", "toWait", "timedWait"}
Points    == WorkerAt \union PusherAt \union StopperAt

Places ==
  /\ at \in [Procs -> Points]
  /\ \A w \in Workers : at[w] \in WorkerAt
  /\ \A p \in Pushers : at[p] \in PusherAt
  /\ at[Stopper] \in StopperAt

(* A worker has ended when its thread says so, and is born by Start.       *)
EndsInv ==
  /\ bRun \in [Workers -> BOOLEAN] /\ ended \in [Workers -> BOOLEAN]
  /\ \A w \in Workers :
       /\ ended[w] <=> at[w] \in Gone \union {"unborn"}
       /\ at[w] = "unborn" => at[Stopper] \in {"start", "create"}

LocksInv ==
  /\ holder \in [threads : Procs \union {Nobody}, tasks : Procs \union {Nobody}]
  /\ \A p \in Procs :
       /\ at[p] \in Holding <=> holder.tasks = p
       /\ holder.threads = p <=> holder.tasks = p \/ at[p] = "create"

TasksInv ==
  /\ queue \in Seq(AllTasks) /\ executed \subseteq AllTasks
  /\ task \in [Procs -> Procs \union AllTasks \union {Nobody}]
  /\ \A p \in Workers \union Pushers : at[p] \in {"run"} \union PushAt => task[p] \in AllTasks
  /\ \A w \in Workers : at[w] \in PushAt => Nested \in AllTasks

(* m_waitCount counts the threads between its two changes.                 *)
WaitsIn == {w \in Workers : at[w] \in WaitAt}

WaitInv ==
  /\ posts \in Nat /\ counted \in Int
  /\ waitCount = Cardinality(WaitsIn)

(* Stop goes on from a worker only when this one has ended.                *)
StopInv ==
  /\ left \subseteq Workers /\ alive \in BOOLEAN
  /\ alive => /\ at[Stopper] \in InStop => \A w \in Workers \ left : at[w] \in Gone
              /\ at[Stopper] \in {"unlock", "stopped"} => left = {}

TaskIInv == Places /\ EndsInv /\ LocksInv /\ TasksInv /\ WaitInv /\ StopInv

(* One thread goes on; if it posted the signal, a sleeper wakes with it.   *)
Moved(p, point) ==
  /\ at' \in [Procs -> Points] /\ at'[p] = point
  /\ \A q \in Procs \ {p} :
       at'[q] = at[q] \/ (q \in Workers /\ at[q] = "asleep" /\ at'[q] = "awake")

LEMMA ThenMoves == ASSUME Places, NEW p \in Procs, NEW point \in Points, Then(p, point) PROVE Moved(p, point)
  BY DEF Places, Then, Moved

LEMMA NotifyMoves ==
  ASSUME Places, WaitInv, NEW p \in Procs, NEW point \in Points, at[p] # "asleep", Notify(p, point)
  PROVE  Moved(p, point) /\ posts' \in Nat /\ UNCHANGED <<counted, waitCount>>
  <1>1. posts' \in Nat /\ UNCHANGED <<counted, waitCount>>
    BY DEF Notify, WaitInv
  <1>2. CASE Then(p, point)
    BY <1>1, <1>2, ThenMoves
  <1>3. CASE \E w \in Asleep : at' = [at EXCEPT ![p] = point, ![w] = "awake"]
    <2>1. PICK w \in Workers : at[w] = "asleep" /\ at' = [at EXCEPT ![p] = point, ![w] = "awake"]
      BY <1>3 DEF Asleep
    <2>2. "awake" \in Points /\ w # p /\ w \in Procs
      BY <2>1 DEF Points, WorkerAt, WaitAt, Procs
    <2> QED
      BY <1>1, <2>1, <2>2 DEF Places, Moved
  <1> QED
    BY <1>2, <1>3 DEF Notify

LEMMA PlacesKept ==
  ASSUME Places, NEW p \in Procs, NEW point, Moved(p, point),
         p \in Workers => point \in WorkerAt, p \in Pushers => point \in PusherAt, p = Stopper => point \in StopperAt
  PROVE  Places'
  <1>1. Workers \subseteq Procs /\ Pushers \subseteq Procs /\ Stopper \in Procs
    BY DEF Procs
  <1>2. Workers \intersect Pushers = {} /\ Stopper \notin Workers \union Pushers
    BY TaskAssumption
  <1>3. "awake" \in WorkerAt
    BY DEF WorkerAt, WaitAt
  <1> QED
    BY <1>1, <1>2, <1>3 DEF Places, Moved

LEMMA EndsKept ==
  ASSUME Places, EndsInv, NEW p \in Procs, NEW point, Moved(p, point), UNCHANGED <<bRun, ended>>,
         point # "unborn",
         p \in Workers => at[p] # "unborn" /\ (at[p] \in Gone <=> point \in Gone),
         p = Stopper /\ at[p] \in {"start", "create"} =>
           point \in {"start", "create"} \/ \A w \in Workers : at[w] # "unborn"
  PROVE  EndsInv'
  <1>1. Workers \subseteq Procs /\ Stopper \in Procs /\ Stopper \notin Workers
    BY TaskAssumption DEF Procs
  <1>2. ASSUME NEW w \in Workers
        PROVE  /\ ended'[w] <=> at'[w] \in Gone \union {"unborn"}
               /\ at'[w] = "unborn" => at'[Stopper] \in {"start", "create"}
    <2>1. /\ ended[w] <=> at[w] \in Gone \union {"unborn"}
          /\ at[w] = "unborn" => at[Stopper] \in {"start", "create"}
      BY DEF EndsInv
    <2>2. at'[w] \in Gone \union {"unborn"} <=> at[w] \in Gone \union {"unborn"}
      BY <1>1 DEF Moved, Gone
    <2>3. at'[w] = "unborn" => at[w] = "unborn" /\ w # p
      BY <1>1 DEF Moved
    <2>4. at[w] = "unborn" => at'[Stopper] \in {"start", "create"}
      BY <1>1, <2>1 DEF Moved
    <2> QED
      BY <2>1, <2>2, <2>3, <2>4
  <1> QED
    BY <1>2 DEF EndsInv

LEMMA LocksKept ==
  ASSUME Places, LocksInv, NEW p \in Procs, NEW point, Moved(p, point), UNCHANGED holder,
         at[p] \in Holding <=> point \in Holding, at[p] = "create" <=> point = "create"
  PROVE  LocksInv'
  <1>1. ASSUME NEW q \in Procs
        PROVE  (at'[q] \in Holding <=> at[q] \in Holding) /\ (at'[q] = "create" <=> at[q] = "create")
    BY DEF Moved, Holding
  <1> QED
    BY <1>1 DEF LocksInv

LEMMA TasksKept ==
  ASSUME Places, TasksInv, NEW p \in Procs, NEW point, Moved(p, point),
         UNCHANGED <<queue, executed, task>>,
         p # Stopper /\ point \in {"run"} \union PushAt => at[p] \in PushAt
  PROVE  TasksInv'
  <1>1. Workers \subseteq Procs /\ Pushers \subseteq Procs /\ Stopper \notin Workers \union Pushers
    BY TaskAssumption DEF Procs
  <1>2. ASSUME NEW q \in Workers \union Pushers, at'[q] \in {"run"} \union PushAt
        PROVE  at[q] \in {"run"} \union PushAt /\ (at'[q] \in PushAt => at[q] \in PushAt)
    BY <1>1, <1>2 DEF Moved, PushAt
  <1>3. \A q \in Workers \union Pushers : at'[q] \in {"run"} \union PushAt => task[q] \in AllTasks
    BY <1>2 DEF TasksInv
  <1>4. \A w \in Workers : at'[w] \in PushAt => Nested \in AllTasks
    BY <1>2 DEF TasksInv
  <1> QED
    BY <1>3, <1>4 DEF TasksInv

LEMMA WaitsKept ==
  ASSUME Places, WaitInv, NEW p \in Procs, NEW point, Moved(p, point), posts' \in Nat, counted' \in Int,
         waitCount' = waitCount + One(p \in Workers /\ point \in WaitAt) - One(p \in Workers /\ at[p] \in WaitAt)
  PROVE  WaitInv'
  <1> DEFINE S == WaitsIn
             T == {w \in Workers : at'[w] \in WaitAt}
  <1>1. IsFiniteSet(S)
    BY TaskAssumption, FS_Subset DEF WaitsIn
  <1>2. S \ {p} = T \ {p} /\ (p \in T <=> p \in Workers /\ point \in WaitAt) /\ (p \in S <=> p \in Workers /\ at[p] \in WaitAt)
    BY DEF WaitsIn, Moved, WaitAt, Procs
  <1>3. T = WaitsIn'
    BY DEF WaitsIn
  <1>4. Cardinality(T) = Cardinality(S) + One(p \in T) - One(p \in S)
    <2> HIDE DEF S, T
    <2> QED
      BY <1>1, <1>2, CountChanges
  <1>5. waitCount = Cardinality(S)
    BY DEF WaitInv
  <1>6. waitCount' = Cardinality(T)
    <2> HIDE DEF S, T
    <2> QED
      BY <1>2, <1>4, <1>5 DEF One
  <1> QED
    BY <1>3, <1>6 DEF WaitInv

\* A step that leaves the signal alone.
LEMMA WaitsStay ==
  ASSUME Places, WaitInv, NEW p \in Procs, NEW point, Moved(p, point), posts' \in Nat, counted' \in Int,
         waitCount' = waitCount, p \in Workers => (point \in WaitAt <=> at[p] \in WaitAt)
  PROVE  WaitInv'
  <1>1. waitCount \in Nat
    <2>1. IsFiniteSet(WaitsIn)
      BY TaskAssumption, FS_Subset DEF WaitsIn
    <2> QED
      BY <2>1, FS_CardinalityType DEF WaitInv
  <1>2. waitCount' = waitCount + One(p \in Workers /\ point \in WaitAt) - One(p \in Workers /\ at[p] \in WaitAt)
    BY <1>1 DEF One
  <1> QED
    BY <1>2, WaitsKept

LEMMA StopKept ==
  ASSUME Places, StopInv, NEW p \in Procs, NEW point, Moved(p, point), UNCHANGED <<left, alive>>,
         p \in Workers /\ at[p] \in Gone => point \in Gone,
         p = Stopper /\ point \in InStop => at[p] \in InStop,
         p = Stopper /\ point \in {"unlock", "stopped"} => left = {}
  PROVE  StopInv'
  <1>1. Workers \subseteq Procs /\ Stopper \in Procs /\ Stopper \notin Workers
    BY TaskAssumption DEF Procs
  <1>2. \A w \in Workers : at[w] \in Gone => at'[w] \in Gone
    BY <1>1 DEF Moved, Gone
  <1>3. at'[Stopper] \in InStop => at[Stopper] \in InStop
    BY <1>1 DEF Moved
  <1>4. at'[Stopper] \in {"unlock", "stopped"} => at[Stopper] \in {"unlock", "stopped"} \/ left = {}
    BY <1>1 DEF Moved
  <1> QED
    BY <1>1, <1>2, <1>3, <1>4 DEF StopInv

LEMMA TaskInitKeeps == TaskInit => TaskIInv
  <1> SUFFICES ASSUME TaskInit PROVE TaskIInv
    OBVIOUS
  <1>1. Workers \intersect Pushers = {} /\ Stopper \notin Workers \union Pushers /\ Nobody \notin Procs
    BY TaskAssumption
  <1>2. \A w \in Workers : at[w] = "unborn"
    BY <1>1 DEF TaskInit, Procs
  <1>3. \A p \in Pushers : at[p] = "free"
    BY <1>1 DEF TaskInit, Procs
  <1>4. at[Stopper] = "start"
    BY DEF TaskInit, Procs
  <1>5. \A p \in Procs : at[p] \in {"unborn", "free", "start"}
    BY <1>2, <1>3, <1>4 DEF Procs
  <1>6. Places
    BY <1>2, <1>3, <1>4, <1>5
    DEF TaskInit, Places, Points, WorkerAt, PusherAt, StopperAt, Procs
  <1>7. EndsInv
    BY <1>2, <1>4 DEF TaskInit, EndsInv
  <1>8. LocksInv
    BY <1>1, <1>5 DEF TaskInit, LocksInv, Holding
  <1>9. TasksInv
    BY <1>5 DEF TaskInit, TasksInv, PushAt, Procs
  <1>10. WaitInv
    <2>1. WaitsIn = {}
      BY <1>2 DEF WaitsIn, WaitAt
    <2> QED
      BY <2>1, FS_EmptySet DEF TaskInit, WaitInv
  <1>11. StopInv
    BY <1>4 DEF TaskInit, StopInv, InStop
  <1> QED
    BY <1>6, <1>7, <1>8, <1>9, <1>10, <1>11 DEF TaskIInv

\* A worker goes from one point between two tasks to another.
Between == {"check", "idle", "reset", "leave", "end"} \union WaitAt

LEMMA BetweenKeeps ==
  ASSUME TaskIInv, NEW w \in Workers, NEW point, Moved(w, point), at[w] \in Between, point \in Between,
         posts' \in Nat, counted' \in Int,
         waitCount' = waitCount + One(point \in WaitAt) - One(at[w] \in WaitAt),
         UNCHANGED <<queue, bRun, ended, holder, task, left, executed, alive>>
  PROVE  TaskIInv'
  <1>1. w \in Procs /\ w # Stopper /\ w \notin Pushers
    BY TaskAssumption DEF Procs
  <1>2. point \in WorkerAt /\ point \notin {"unborn", "run", "create"} \union Gone \union PushAt \union Holding
    BY DEF Between, WorkerAt, WaitAt, Gone, PushAt, Holding
  <1>3. at[w] \notin {"unborn", "create"} \union Gone \union Holding
    BY DEF Between, WaitAt, Gone, Holding
  <1>4. Places'
    BY <1>1, <1>2, PlacesKept DEF TaskIInv
  <1>5. EndsInv'
    BY <1>1, <1>2, <1>3, EndsKept DEF TaskIInv
  <1>6. LocksInv'
    BY <1>1, <1>2, <1>3, LocksKept DEF TaskIInv
  <1>7. TasksInv'
    BY <1>1, <1>2, TasksKept DEF TaskIInv
  <1>8. WaitInv'
    <2>1. One(w \in Workers /\ point \in WaitAt) = One(point \in WaitAt) /\ One(w \in Workers /\ at[w] \in WaitAt) = One(at[w] \in WaitAt)
      BY DEF One
    <2> QED
      BY <1>1, <2>1, WaitsKept DEF TaskIInv
  <1>9. StopInv'
    BY <1>1, <1>3, StopKept DEF TaskIInv
  <1> QED
    BY <1>4, <1>5, <1>6, <1>7, <1>8, <1>9 DEF TaskIInv

LEMMA WaitTyped == ASSUME WaitInv PROVE waitCount \in Nat
  BY TaskAssumption, FS_Subset, FS_CardinalityType DEF WaitsIn, WaitInv

LEMMA WaitStepKeeps ==
  ASSUME TaskIInv, NEW w \in Workers,
         SemWait(w) \/ Awake(w) \/ EndWait(w) \/ Reset(w) \/ WaitOrLeave(w) \/ Leave(w)
  PROVE  TaskIInv'
  <1>1. /\ Places /\ WaitInv /\ posts \in Nat /\ counted \in Int /\ waitCount \in Nat /\ w \in Procs
    BY WaitTyped DEF TaskIInv, WaitInv, Procs
  <1>2. \A point : point \in Between => point \in Points
    BY DEF Between, Points, WorkerAt
  <1>3. CASE SemWait(w)
    <2>1. PICK point \in {"endWait", "asleep"} : Then(w, point) /\ posts' \in Nat /\ counted' \in Int
      BY <1>1, <1>3 DEF SemWait
    <2>2. at[w] = "wait" /\ UNCHANGED <<queue, bRun, ended, holder, waitCount, task, left, executed, alive>>
      BY <1>3 DEF SemWait, At
    <2>3. point \in WaitAt /\ at[w] \in WaitAt /\ point \in Between /\ at[w] \in Between
      BY <2>1, <2>2 DEF WaitAt, Between
    <2>4. waitCount' = waitCount + One(point \in WaitAt) - One(at[w] \in WaitAt)
      BY <1>1, <2>2, <2>3 DEF One
    <2>5. Moved(w, point)
      BY <1>1, <1>2, <2>1, <2>3, ThenMoves
    <2> QED
      BY <2>1, <2>2, <2>3, <2>4, <2>5, BetweenKeeps
  <1>4. CASE Awake(w)
    <2>1. PICK point \in {"endWait", "asleep"} : Then(w, point) /\ posts' \in Nat /\ counted' \in Int
      BY <1>1, <1>4 DEF Awake, semaphore
    <2>2. at[w] = "awake" /\ UNCHANGED <<queue, bRun, ended, holder, waitCount, task, left, executed, alive>>
      BY <1>4 DEF Awake, At
    <2>3. point \in WaitAt /\ at[w] \in WaitAt /\ point \in Between /\ at[w] \in Between
      BY <2>1, <2>2 DEF WaitAt, Between
    <2>4. waitCount' = waitCount + One(point \in WaitAt) - One(at[w] \in WaitAt)
      BY <1>1, <2>2, <2>3 DEF One
    <2>5. Moved(w, point)
      BY <1>1, <1>2, <2>1, <2>3, ThenMoves
    <2> QED
      BY <2>1, <2>2, <2>3, <2>4, <2>5, BetweenKeeps
  <1>5. CASE EndWait(w)
    <2>1. PICK point \in {"reset", "check"} : Then(w, point)
      BY <1>5 DEF EndWait
    <2>2. /\ at[w] = "endWait" /\ waitCount' = waitCount - 1 /\ posts' = posts /\ counted' = counted
          /\ UNCHANGED <<queue, bRun, ended, holder, task, left, executed, alive>>
      BY <1>5 DEF EndWait, At, semaphore
    <2>3. point \notin WaitAt /\ at[w] \in WaitAt /\ point \in Between /\ at[w] \in Between
      BY <2>1, <2>2 DEF WaitAt, Between
    <2>4. waitCount' = waitCount + One(point \in WaitAt) - One(at[w] \in WaitAt)
      BY <1>1, <2>2, <2>3 DEF One
    <2>5. Moved(w, point)
      BY <1>1, <1>2, <2>1, <2>3, ThenMoves
    <2> QED
      BY <1>1, <2>2, <2>3, <2>4, <2>5, BetweenKeeps
  <1>6. CASE Reset(w)
    <2>1. /\ at[w] = "reset" /\ Then(w, "check") /\ posts' = 0 /\ counted' = 0 /\ waitCount' = waitCount
          /\ UNCHANGED <<queue, bRun, ended, holder, task, left, executed, alive>>
      BY <1>6 DEF Reset, At
    <2>2. "check" \notin WaitAt /\ at[w] \notin WaitAt /\ "check" \in Between /\ at[w] \in Between
      BY <2>1 DEF WaitAt, Between
    <2>3. waitCount' = waitCount + One("check" \in WaitAt) - One(at[w] \in WaitAt)
      BY <1>1, <2>1, <2>2 DEF One
    <2>4. Moved(w, "check")
      BY <1>1, <1>2, <2>1, <2>2, ThenMoves
    <2> QED
      BY <2>1, <2>2, <2>3, <2>4, BetweenKeeps
  <1>7. CASE WaitOrLeave(w)
    <2>1. PICK point \in {"wait", "leave"} :
            Then(w, point) /\ waitCount' = waitCount + (IF point = "wait" THEN 1 ELSE 0)
      BY <1>1, <1>7 DEF WaitOrLeave, BeginWait, signal
    <2>2. /\ at[w] = "idle" /\ posts' = posts /\ counted' = counted
          /\ UNCHANGED <<queue, bRun, ended, holder, task, left, executed, alive>>
      BY <1>7 DEF WaitOrLeave, BeginWait, At, semaphore, signal
    <2>3. (point \in WaitAt <=> point = "wait") /\ at[w] \notin WaitAt /\ point \in Between /\ at[w] \in Between
      BY <2>1, <2>2 DEF WaitAt, Between
    <2>4. waitCount' = waitCount + One(point \in WaitAt) - One(at[w] \in WaitAt)
      BY <1>1, <2>1, <2>3 DEF One
    <2>5. Moved(w, point)
      BY <1>1, <1>2, <2>1, <2>3, ThenMoves
    <2> QED
      BY <1>1, <2>2, <2>3, <2>4, <2>5, BetweenKeeps
  <1>8. CASE Leave(w)
    <2>1. /\ at[w] = "leave" /\ Notify(w, "end")
          /\ UNCHANGED <<queue, bRun, ended, holder, task, left, executed, alive>>
      BY <1>8 DEF Leave, At
    <2>2. "end" \notin WaitAt /\ at[w] \notin WaitAt /\ "end" \in Between /\ at[w] \in Between
      BY <2>1 DEF WaitAt, Between
    <2>3. Moved(w, "end") /\ posts' \in Nat /\ UNCHANGED <<counted, waitCount>>
      BY <1>1, <1>2, <2>1, <2>2, NotifyMoves
    <2>4. waitCount' = waitCount + One("end" \in WaitAt) - One(at[w] \in WaitAt)
      BY <1>1, <2>2, <2>3 DEF One
    <2> QED
      BY <1>1, <2>1, <2>2, <2>3, <2>4, BetweenKeeps
  <1> QED
    BY <1>3, <1>4, <1>5, <1>6, <1>7, <1>8

\* What a step that leaves the signal alone keeps of it.
LEMMA SignalStays ==
  ASSUME Places, WaitInv, NEW p \in Procs, NEW point, Moved(p, point), UNCHANGED signal,
         p \in Workers => point \notin WaitAt /\ at[p] \notin WaitAt
  PROVE  WaitInv'
  <1>1. posts' \in Nat /\ counted' \in Int /\ waitCount' = waitCount
    BY DEF WaitInv, signal
  <1> QED
    BY <1>1, WaitsStay

\* A thread that has no lock and takes none.
Lockless == {"check", "pull", "run", "idle", "leave", "free", "lock"}

LEMMA LocklessKeeps ==
  ASSUME TaskIInv, NEW p \in Workers \union Pushers, NEW point, Moved(p, point), at[p] \in Lockless, point \in Lockless,
         p \in Workers => point \in WorkerAt, p \in Pushers => point \in PusherAt,
         UNCHANGED <<bRun, ended, holder, signal, left, alive>>
  PROVE  Places' /\ EndsInv' /\ LocksInv' /\ WaitInv' /\ StopInv'
  <1>1. p \in Procs /\ p # Stopper
    BY TaskAssumption DEF Procs
  <1>2. \A x \in Lockless : x \notin {"unborn", "create"} \union Gone \union Holding \union WaitAt
    BY DEF Lockless, WaitAt, Gone, Holding
  <1>3. Places'
    BY <1>1, PlacesKept DEF TaskIInv
  <1>4. EndsInv'
    BY <1>1, <1>2, EndsKept DEF TaskIInv
  <1>5. LocksInv'
    BY <1>1, <1>2, LocksKept DEF TaskIInv
  <1>6. WaitInv'
    BY <1>1, <1>2, SignalStays DEF TaskIInv
  <1>7. StopInv'
    BY <1>1, <1>2, StopKept DEF TaskIInv
  <1> QED
    BY <1>3, <1>4, <1>5, <1>6, <1>7

LEMMA CheckKeeps ==
  ASSUME TaskIInv, NEW w \in Workers, Check(w)
  PROVE  TaskIInv'
  <1>1. PICK point \in {"pull", "leave"} : Then(w, point)
    BY DEF Check
  <1>2. at[w] = "check" /\ UNCHANGED <<queue, bRun, ended, holder, signal, task, left, executed, alive>>
    BY DEF Check, At
  <1>3. w \in Procs /\ w # Stopper /\ w \notin Pushers /\ point \in Points /\ point \in WorkerAt
    BY <1>1, TaskAssumption DEF Procs, Points, WorkerAt
  <1>4. Moved(w, point)
    BY <1>1, <1>3, ThenMoves DEF TaskIInv
  <1>5. at[w] \in Lockless /\ point \in Lockless /\ point \notin {"run"} \union PushAt
    BY <1>1, <1>2 DEF Lockless, PushAt
  <1>6. Places' /\ EndsInv' /\ LocksInv' /\ WaitInv' /\ StopInv'
    BY <1>2, <1>3, <1>4, <1>5, LocklessKeeps
  <1>7. TasksInv'
    BY <1>2, <1>3, <1>4, <1>5, TasksKept DEF TaskIInv
  <1> QED
    BY <1>6, <1>7 DEF TaskIInv

\* Other threads keep the tasks they have.
LEMMA OthersKeepTasks ==
  ASSUME Places, TasksInv, NEW p \in Procs, NEW point, Moved(p, point),
         \A q \in Procs \ {p} : task'[q] = task[q],
         NEW q \in Workers \union Pushers, q # p
  PROVE  /\ at'[q] \in {"run"} \union PushAt => task'[q] \in AllTasks
         /\ q \in Workers /\ at'[q] \in PushAt => Nested \in AllTasks
  <1>1. q \in Procs \ {p}
    BY DEF Procs
  <1>2. at'[q] \in {"run"} \union PushAt => at[q] = at'[q]
    BY <1>1 DEF Moved, PushAt
  <1> QED
    BY <1>1, <1>2 DEF TasksInv

LEMMA PullTaskKeeps ==
  ASSUME TaskIInv, NEW w \in Workers, PullTask(w)
  PROVE  TaskIInv'
  <1>1. PICK point \in {"idle", "run"} : Then(w, point)
    BY DEF PullTask
  <1>2. at[w] = "pull" /\ UNCHANGED <<bRun, ended, holder, signal, left, executed, alive>>
    BY DEF PullTask, At
  <1>3. w \in Procs /\ w # Stopper /\ w \notin Pushers /\ point \in Points /\ point \in WorkerAt
    BY <1>1, TaskAssumption DEF Procs, Points, WorkerAt
  <1>4. Moved(w, point)
    BY <1>1, <1>3, ThenMoves DEF TaskIInv
  <1>5. at[w] \in Lockless /\ point \in Lockless /\ point \notin PushAt
    BY <1>1, <1>2 DEF Lockless, PushAt
  <1>6. Places' /\ EndsInv' /\ LocksInv' /\ WaitInv' /\ StopInv'
    BY <1>2, <1>3, <1>4, <1>5, LocklessKeeps
  <1>7. TasksInv'
    <2>1. queue \in Seq(AllTasks) /\ task \in [Procs -> Procs \union AllTasks \union {Nobody}] /\ executed \subseteq AllTasks
      BY DEF TaskIInv, TasksInv
    <2>2. CASE queue = <<>>
      <3>1. point = "idle" /\ UNCHANGED <<queue, task>>
        BY <1>1, <1>3, <2>2 DEF PullTask, Then, TaskIInv, Places
      <3>2. point \notin {"run"} \union PushAt
        BY <3>1 DEF PushAt
      <3> QED
        BY <1>2, <1>3, <1>4, <3>1, <3>2, TasksKept DEF TaskIInv
    <2>3. CASE queue # <<>>
      <3>1. queue' = Tail(queue) /\ task' = [task EXCEPT ![w] = Head(queue)]
        BY <2>3 DEF PullTask
      <3>2. queue' \in Seq(AllTasks) /\ Head(queue) \in AllTasks
        BY <2>1, <2>3, <3>1
      <3>3. /\ task' \in [Procs -> Procs \union AllTasks \union {Nobody}]
            /\ task'[w] \in AllTasks /\ \A q \in Procs \ {w} : task'[q] = task[q]
        BY <1>3, <2>1, <3>1, <3>2
      <3>4. ASSUME NEW q \in Workers \union Pushers
            PROVE  /\ at'[q] \in {"run"} \union PushAt => task'[q] \in AllTasks
                   /\ q \in Workers /\ at'[q] \in PushAt => Nested \in AllTasks
        <4>1. CASE q = w
          BY <1>4, <1>5, <3>3, <4>1 DEF Moved
        <4>2. CASE q # w
          BY <1>3, <1>4, <3>3, <4>2, OthersKeepTasks DEF TaskIInv
        <4> QED
          BY <4>1, <4>2
      <3> QED
        BY <1>2, <2>1, <3>2, <3>3, <3>4 DEF TasksInv
    <2> QED
      BY <2>2, <2>3
  <1> QED
    BY <1>6, <1>7 DEF TaskIInv

LEMMA ExecuteKeeps ==
  ASSUME TaskIInv, NEW w \in Workers, Execute(w)
  PROVE  TaskIInv'
  <1>1. PICK point \in {"lock", "check"} : Then(w, point)
    BY DEF Execute
  <1>2. at[w] = "run" /\ UNCHANGED <<queue, bRun, ended, holder, signal, left, alive>>
    BY DEF Execute, At
  <1>3. w \in Procs /\ w # Stopper /\ w \notin Pushers /\ point \in Points /\ point \in WorkerAt
    BY <1>1, TaskAssumption DEF Procs, Points, WorkerAt, PushAt
  <1>4. Moved(w, point)
    BY <1>1, <1>3, ThenMoves DEF TaskIInv
  <1>5. at[w] \in Lockless /\ point \in Lockless /\ (point \in {"run"} \union PushAt => point = "lock")
    BY <1>1, <1>2 DEF Lockless, PushAt
  <1>6. Places' /\ EndsInv' /\ LocksInv' /\ WaitInv' /\ StopInv'
    BY <1>2, <1>3, <1>4, <1>5, LocklessKeeps
  <1>7. TasksInv'
    <2>1. /\ queue \in Seq(AllTasks) /\ task \in [Procs -> Procs \union AllTasks \union {Nobody}] /\ executed \subseteq AllTasks
          /\ task[w] \in AllTasks
      BY <1>2 DEF TaskIInv, TasksInv
    <2>2. PICK k \in {Inner, Nobody} : task' = [task EXCEPT ![w] = k]
      BY DEF Execute
    <2>3. point = "lock" => task[w] = Nested /\ k = Inner
      <3>1. at'[w] = point /\ task'[w] = k
        BY <1>3, <1>4, <2>1, <2>2 DEF Moved
      <3>2. point = "lock" => task[w] = Nested /\ task'[w] = Inner
        BY <1>3, <2>1, <3>1 DEF Execute, Then, TaskIInv, Places
      <3> QED
        BY <3>1, <3>2
    <2>4. executed' \subseteq AllTasks
      BY <2>1 DEF Execute
    <2>5. /\ task' \in [Procs -> Procs \union AllTasks \union {Nobody}]
          /\ task'[w] = k /\ \A q \in Procs \ {w} : task'[q] = task[q]
      BY <1>3, <2>1, <2>2 DEF AllTasks
    <2>6. ASSUME NEW q \in Workers \union Pushers
          PROVE  /\ at'[q] \in {"run"} \union PushAt => task'[q] \in AllTasks
                 /\ q \in Workers /\ at'[q] \in PushAt => Nested \in AllTasks
      <3>1. CASE q = w
        BY <1>4, <1>5, <2>1, <2>3, <2>5, <3>1 DEF Moved, AllTasks
      <3>2. CASE q # w
        BY <1>3, <1>4, <2>5, <3>2, OthersKeepTasks DEF TaskIInv
      <3> QED
        BY <3>1, <3>2
    <2> QED
      BY <1>2, <2>1, <2>4, <2>5, <2>6 DEF TasksInv
  <1> QED
    BY <1>6, <1>7 DEF TaskIInv

LEMMA AcceptKeeps ==
  ASSUME TaskIInv, NEW p \in Pushers, NEW k \in Tasks, Accept(p, k)
  PROVE  TaskIInv'
  <1>1. /\ at[p] = "free" /\ Then(p, "lock") /\ task' = [task EXCEPT ![p] = k]
        /\ UNCHANGED <<queue, bRun, ended, holder, signal, left, executed, alive>>
    BY DEF Accept, At
  <1>2. p \in Procs /\ p # Stopper /\ p \notin Workers /\ "lock" \in Points /\ "lock" \in PusherAt
    BY TaskAssumption DEF Procs, Points, PusherAt, PushAt
  <1>3. Moved(p, "lock")
    BY <1>1, <1>2, ThenMoves DEF TaskIInv
  <1>4. at[p] \in Lockless /\ "lock" \in Lockless
    BY <1>1 DEF Lockless
  <1>5. Places' /\ EndsInv' /\ LocksInv' /\ WaitInv' /\ StopInv'
    BY <1>1, <1>2, <1>3, <1>4, LocklessKeeps
  <1>6. TasksInv'
    <2>1. queue \in Seq(AllTasks) /\ task \in [Procs -> Procs \union AllTasks \union {Nobody}] /\ executed \subseteq AllTasks
      BY DEF TaskIInv, TasksInv
    <2>2. /\ task' \in [Procs -> Procs \union AllTasks \union {Nobody}]
          /\ task'[p] \in AllTasks /\ \A q \in Procs \ {p} : task'[q] = task[q]
      BY <1>1, <1>2, <2>1 DEF AllTasks
    <2>3. ASSUME NEW q \in Workers \union Pushers
          PROVE  /\ at'[q] \in {"run"} \union PushAt => task'[q] \in AllTasks
                 /\ q \in Workers /\ at'[q] \in PushAt => Nested \in AllTasks
      <3>1. CASE q = p
        BY <1>2, <2>2, <3>1
      <3>2. CASE q # p
        BY <1>2, <1>3, <2>2, <3>2, OthersKeepTasks DEF TaskIInv
      <3> QED
        BY <3>1, <3>2
    <2> QED
      BY <1>1, <2>1, <2>2, <2>3 DEF TasksInv
  <1> QED
    BY <1>5, <1>6 DEF TaskIInv

\* Both locks are taken, and given back.
LEMMA LocksTaken ==
  ASSUME Places, LocksInv, NEW p \in Procs, NEW point, Moved(p, point), point \in Holding,
         holder = [threads |-> Nobody, tasks |-> Nobody], holder' = [threads |-> p, tasks |-> p]
  PROVE  LocksInv'
  <1>1. ASSUME NEW q \in Procs \ {p}
        PROVE  at'[q] \notin Holding /\ at'[q] # "create"
    <2>1. at[q] \notin Holding /\ at[q] # "create"
      BY TaskAssumption DEF LocksInv
    <2> QED
      BY <2>1 DEF Moved, Holding
  <1>2. at'[p] \in Holding /\ at'[p] # "create"
    BY DEF Moved, Holding
  <1> QED
    BY <1>1, <1>2 DEF LocksInv

LEMMA LocksGiven ==
  ASSUME Places, LocksInv, NEW p \in Procs, NEW point, Moved(p, point), at[p] \in Holding,
         point \notin Holding, point # "create", holder' = [threads |-> Nobody, tasks |-> Nobody]
  PROVE  LocksInv'
  <1>1. ASSUME NEW q \in Procs \ {p}
        PROVE  at'[q] \notin Holding /\ at'[q] # "create"
    <2>1. at[q] \notin Holding /\ at[q] # "create"
      BY DEF LocksInv
    <2> QED
      BY <2>1 DEF Moved, Holding
  <1>2. at'[p] \notin Holding /\ at'[p] # "create"
    BY DEF Moved
  <1> QED
    BY <1>1, <1>2, TaskAssumption DEF LocksInv

LEMMA LockKeeps ==
  ASSUME TaskIInv, NEW p \in Procs, Lock(p)
  PROVE  TaskIInv'
  <1> DEFINE point == IF p = Stopper THEN "clear" ELSE "push"
  <1>1. /\ at[p] = "lock" /\ Then(p, point) /\ holder = [threads |-> Nobody, tasks |-> Nobody]
        /\ holder' = [threads |-> p, tasks |-> p]
        /\ UNCHANGED <<queue, bRun, ended, signal, task, left, executed, alive>>
    BY DEF Lock, At
  <1>2. Stopper \notin Workers \union Pushers
    BY TaskAssumption
  <1>3. point \in {"clear", "push"} /\ (p = Stopper <=> point = "clear")
    OBVIOUS
  <1> HIDE DEF point
  <1>4. point \in Points
    BY <1>3 DEF Points, WorkerAt, PushAt, StopperAt
  <1>5. (p \in Workers => point \in WorkerAt) /\ (p \in Pushers => point \in PusherAt) /\ (p = Stopper => point \in StopperAt)
    BY <1>2, <1>3 DEF WorkerAt, PusherAt, StopperAt, PushAt
  <1>6. Moved(p, point)
    BY <1>1, <1>4, ThenMoves DEF TaskIInv
  <1>7. point \in Holding /\ point \notin {"unborn"} \union Gone \union WaitAt \union InStop
    BY <1>3 DEF Gone, WaitAt, InStop, Holding
  <1>8. at[p] \notin {"unborn", "start", "create"} \union Gone \union WaitAt /\ at[p] \in PushAt
    BY <1>1 DEF Gone, WaitAt, PushAt
  <1>9. Places'
    BY <1>5, <1>6, PlacesKept DEF TaskIInv
  <1>10. EndsInv'
    BY <1>1, <1>6, <1>7, <1>8, EndsKept DEF TaskIInv
  <1>11. LocksInv'
    BY <1>1, <1>6, <1>7, LocksTaken DEF TaskIInv
  <1>12. TasksInv'
    BY <1>1, <1>6, <1>8, TasksKept DEF TaskIInv
  <1>13. WaitInv'
    BY <1>1, <1>6, <1>7, <1>8, SignalStays DEF TaskIInv
  <1>14. StopInv'
    <2>1. point \notin {"unlock", "stopped"}
      BY <1>3
    <2> QED
      BY <1>1, <1>6, <1>7, <1>8, <2>1, StopKept DEF TaskIInv
  <1> QED
    BY <1>9, <1>10, <1>11, <1>12, <1>13, <1>14 DEF TaskIInv

LEMMA PushTaskKeeps ==
  ASSUME TaskIInv, NEW p \in Workers \union Pushers, PushTask(p)
  PROVE  TaskIInv'
  <1>1. /\ at[p] = "push" /\ queue' = Append(queue, task[p]) /\ Notify(p, "unlock")
        /\ UNCHANGED <<bRun, ended, holder, task, left, executed, alive>>
    BY DEF PushTask, At
  <1>2. p \in Procs /\ p # Stopper
    BY TaskAssumption DEF Procs
  <1>3. "unlock" \in WorkerAt /\ "unlock" \in PusherAt /\ "unlock" \in Points
    BY DEF WorkerAt, PusherAt, Points, PushAt
  <1>4. Moved(p, "unlock") /\ posts' \in Nat /\ UNCHANGED <<counted, waitCount>>
    BY <1>1, <1>2, <1>3, NotifyMoves DEF TaskIInv
  <1>5. /\ at[p] \in PushAt \intersect Holding /\ at[p] \notin Gone \union WaitAt \union {"unborn", "create"}
        /\ "unlock" \in Holding /\ "unlock" \notin Gone \union WaitAt \union {"unborn", "create"}
    BY <1>1 DEF PushAt, Holding, Gone, WaitAt
  <1>6. Places'
    BY <1>2, <1>3, <1>4, PlacesKept DEF TaskIInv
  <1>7. EndsInv'
    BY <1>1, <1>2, <1>4, <1>5, EndsKept DEF TaskIInv
  <1>8. LocksInv'
    BY <1>1, <1>2, <1>4, <1>5, LocksKept DEF TaskIInv
  <1>9. TasksInv'
    <2>1. task[p] \in AllTasks /\ queue \in Seq(AllTasks)
      BY <1>5 DEF TaskIInv, TasksInv
    <2>2. queue' \in Seq(AllTasks)
      BY <1>1, <2>1
    <2>3. ASSUME NEW q \in Workers \union Pushers
          PROVE  /\ at'[q] \in {"run"} \union PushAt => task[q] \in AllTasks
                 /\ q \in Workers /\ at'[q] \in PushAt => Nested \in AllTasks
      <3>1. CASE q = p
        BY <1>5, <3>1 DEF TaskIInv, TasksInv
      <3>2. CASE q # p
        BY <1>1, <1>2, <1>4, <3>2, OthersKeepTasks DEF TaskIInv
      <3> QED
        BY <3>1, <3>2
    <2> QED
      BY <1>1, <2>2, <2>3 DEF TaskIInv, TasksInv
  <1>10. WaitInv'
    <2>1. counted' \in Int
      BY <1>4 DEF TaskIInv, WaitInv
    <2> QED
      BY <1>2, <1>4, <1>5, <2>1, WaitsStay DEF TaskIInv
  <1>11. StopInv'
    BY <1>1, <1>2, <1>4, <1>5, StopKept DEF TaskIInv
  <1> QED
    BY <1>6, <1>7, <1>8, <1>9, <1>10, <1>11 DEF TaskIInv

LEMMA UnlockKeeps ==
  ASSUME TaskIInv, NEW p \in Procs, Unlock(p)
  PROVE  TaskIInv'
  <1>1. /\ at[p] = "unlock" /\ holder' = [threads |-> Nobody, tasks |-> Nobody]
        /\ task' = [task EXCEPT ![p] = Nobody]
        /\ executed' = IF p \in Workers THEN executed \union {Nested} ELSE executed
        /\ UNCHANGED <<queue, bRun, ended, signal, left, alive>>
    BY DEF Unlock, At
  <1>2. /\ Workers \intersect Pushers = {} /\ Stopper \notin Workers \union Pushers
        /\ p \in Workers \/ p \in Pushers \/ p = Stopper
    BY TaskAssumption DEF Procs
  <1>3. PICK point \in {"check", "free", "stopped"} :
          /\ Then(p, point)
          /\ p \in Workers => point = "check"
          /\ p \in Pushers => point = "free"
          /\ p = Stopper => point = "stopped"
    BY <1>2 DEF Unlock
  <1>4. point \in Points
    BY DEF Points, WorkerAt, PusherAt, StopperAt, InStop
  <1>5. (p \in Workers => point \in WorkerAt) /\ (p \in Pushers => point \in PusherAt) /\ (p = Stopper => point \in StopperAt)
    BY <1>3 DEF WorkerAt, PusherAt, StopperAt, InStop
  <1>6. Moved(p, point)
    BY <1>3, <1>4, ThenMoves DEF TaskIInv
  <1>7. /\ point \notin Holding \union {"unborn", "create", "run"} \union Gone \union WaitAt \union PushAt
        /\ at[p] \in Holding \intersect InStop \intersect PushAt
        /\ at[p] \notin {"unborn", "start", "create"} \union Gone \union WaitAt
    BY <1>1 DEF Holding, InStop, PushAt, Gone, WaitAt
  <1>8. Places'
    BY <1>5, <1>6, PlacesKept DEF TaskIInv
  <1>9. EndsInv'
    BY <1>1, <1>6, <1>7, EndsKept DEF TaskIInv
  <1>10. LocksInv'
    BY <1>1, <1>6, <1>7, LocksGiven DEF TaskIInv
  <1>11. TasksInv'
    <2>1. /\ queue \in Seq(AllTasks) /\ task \in [Procs -> Procs \union AllTasks \union {Nobody}] /\ executed \subseteq AllTasks
          /\ p \in Workers => Nested \in AllTasks
      BY <1>7 DEF TaskIInv, TasksInv
    <2>2. /\ executed' \subseteq AllTasks /\ task' \in [Procs -> Procs \union AllTasks \union {Nobody}]
          /\ \A q \in Procs \ {p} : task'[q] = task[q]
      BY <1>1, <2>1
    <2>3. ASSUME NEW q \in Workers \union Pushers
          PROVE  /\ at'[q] \in {"run"} \union PushAt => task'[q] \in AllTasks
                 /\ q \in Workers /\ at'[q] \in PushAt => Nested \in AllTasks
      <3>1. CASE q = p
        BY <1>6, <1>7, <3>1 DEF Moved
      <3>2. CASE q # p
        BY <1>6, <2>2, <3>2, OthersKeepTasks DEF TaskIInv
      <3> QED
        BY <3>1, <3>2
    <2> QED
      BY <1>1, <2>1, <2>2, <2>3 DEF TasksInv
  <1>12. WaitInv'
    BY <1>1, <1>6, <1>7, SignalStays DEF TaskIInv
  <1>13. StopInv'
    <2>1. p = Stopper => left = {}
      BY <1>1 DEF Unlock, At, InStop, TaskIInv, StopInv
    <2> QED
      BY <1>1, <1>6, <1>7, <2>1, StopKept DEF TaskIInv
  <1> QED
    BY <1>8, <1>9, <1>10, <1>11, <1>12, <1>13 DEF TaskIInv

LEMMA EndKeeps ==
  ASSUME TaskIInv, NEW w \in Workers, End(w)
  PROVE  TaskIInv'
  <1>1. /\ at[w] = "end" /\ Then(w, "broadcast") /\ ended' = [ended EXCEPT ![w] = TRUE]
        /\ UNCHANGED <<queue, bRun, holder, signal, task, left, executed, alive>>
    BY DEF End, At
  <1>2. w \in Procs /\ w # Stopper /\ w \notin Pushers /\ "broadcast" \in Points /\ "broadcast" \in WorkerAt
    BY TaskAssumption DEF Procs, Points, WorkerAt, Gone
  <1>3. Moved(w, "broadcast")
    BY <1>1, <1>2, ThenMoves DEF TaskIInv
  <1>4. /\ "broadcast" \in Gone /\ "broadcast" \notin Holding \union {"unborn", "create", "run"} \union PushAt \union WaitAt
        /\ at[w] \notin Holding \union {"unborn", "create"} \union WaitAt
    BY <1>1 DEF Gone, Holding, PushAt, WaitAt
  <1>5. Places'
    BY <1>2, <1>3, <1>4, PlacesKept DEF TaskIInv
  <1>6. EndsInv'
    <2>1. bRun' \in [Workers -> BOOLEAN] /\ ended' \in [Workers -> BOOLEAN]
      BY <1>1 DEF TaskIInv, EndsInv
    <2>2. ASSUME NEW v \in Workers
          PROVE  /\ ended'[v] <=> at'[v] \in Gone \union {"unborn"}
                 /\ at'[v] = "unborn" => at'[Stopper] \in {"start", "create"}
      <3>1. CASE v = w
        BY <1>1, <1>3, <1>4, <3>1 DEF Moved, TaskIInv, EndsInv
      <3>2. CASE v # w
        <4>1. ended'[v] = ended[v] /\ v \in Procs /\ Stopper \in Procs
          BY <1>1, <3>2 DEF TaskIInv, EndsInv, Procs
        <4>2. at'[v] = at[v] \/ (at[v] = "asleep" /\ at'[v] = "awake")
          BY <1>3, <3>2, <4>1 DEF Moved
        <4>3. at'[Stopper] = at[Stopper]
          BY <1>2, <1>3, <4>1, TaskAssumption DEF Moved
        <4> QED
          BY <4>1, <4>2, <4>3 DEF TaskIInv, EndsInv, Gone
      <3> QED
        BY <3>1, <3>2
    <2> QED
      BY <2>1, <2>2 DEF EndsInv
  <1>7. LocksInv'
    BY <1>1, <1>2, <1>3, <1>4, LocksKept DEF TaskIInv
  <1>8. TasksInv'
    BY <1>1, <1>2, <1>3, <1>4, TasksKept DEF TaskIInv
  <1>9. WaitInv'
    BY <1>1, <1>2, <1>3, <1>4, SignalStays DEF TaskIInv
  <1>10. StopInv'
    BY <1>1, <1>2, <1>3, <1>4, StopKept DEF TaskIInv
  <1> QED
    BY <1>5, <1>6, <1>7, <1>8, <1>9, <1>10 DEF TaskIInv

LEMMA BroadcastKeeps ==
  ASSUME TaskIInv, NEW w \in Workers, Broadcast(w)
  PROVE  TaskIInv'
  <1>1. at[w] = "broadcast" /\ UNCHANGED <<queue, bRun, ended, holder, signal, task, executed, alive>>
    BY DEF Broadcast, At
  <1>2. w \in Procs /\ w # Stopper /\ w \notin Pushers /\ "over" \in Points /\ "over" \in WorkerAt /\ Stopper \in Procs
    BY TaskAssumption DEF Procs, Points, WorkerAt, Gone
  <1>3. CASE Then(w, "over") /\ UNCHANGED left
    <2>1. Moved(w, "over")
      BY <1>2, <1>3, ThenMoves DEF TaskIInv
    <2>2. /\ "over" \in Gone /\ "over" \notin Holding \union {"unborn", "create", "run"} \union PushAt \union WaitAt
          /\ at[w] \in Gone /\ at[w] \notin Holding \union {"unborn", "create"} \union WaitAt
      BY <1>1 DEF Gone, Holding, PushAt, WaitAt
    <2>3. Places'
      BY <1>2, <2>1, PlacesKept DEF TaskIInv
    <2>4. EndsInv'
      BY <1>1, <1>2, <2>1, <2>2, EndsKept DEF TaskIInv
    <2>5. LocksInv'
      BY <1>1, <1>2, <2>1, <2>2, LocksKept DEF TaskIInv
    <2>6. TasksInv'
      BY <1>1, <1>2, <2>1, <2>2, TasksKept DEF TaskIInv
    <2>7. WaitInv'
      BY <1>1, <1>2, <2>1, <2>2, SignalStays DEF TaskIInv
    <2>8. StopInv'
      BY <1>1, <1>2, <1>3, <2>1, <2>2, StopKept DEF TaskIInv
    <2> QED
      BY <2>3, <2>4, <2>5, <2>6, <2>7, <2>8 DEF TaskIInv
  <1>4. CASE /\ at[Stopper] = "timedWait" /\ left' = left \ {w}
             /\ at' = [at EXCEPT ![w] = "over", ![Stopper] = "next"]
    <2>1. /\ at' \in [Procs -> Points] /\ at'[w] = "over" /\ at'[Stopper] = "next"
          /\ \A q \in Procs \ {w, Stopper} : at'[q] = at[q]
      BY <1>2, <1>4 DEF TaskIInv, Places, Points, StopperAt, InStop
    <2>2. Workers \subseteq Procs /\ Pushers \subseteq Procs /\ Stopper \notin Workers \union Pushers
      BY TaskAssumption DEF Procs
    <2>3. Places'
      BY <1>2, <2>1, <2>2 DEF TaskIInv, Places, StopperAt, InStop
    <2>4. EndsInv'
      <3>1. \A v \in Workers : at'[v] \in Gone \union {"unborn"} <=> at[v] \in Gone \union {"unborn"}
        BY <1>1, <2>1, <2>2 DEF Gone
      <3>2. \A v \in Workers : at'[v] # "unborn"
        BY <1>1, <1>4, <2>1, <2>2 DEF TaskIInv, EndsInv
      <3> QED
        BY <1>1, <3>1, <3>2 DEF TaskIInv, EndsInv
    <2>5. LocksInv'
      <3>1. \A q \in Procs : (at'[q] \in Holding <=> at[q] \in Holding) /\ (at'[q] = "create" <=> at[q] = "create")
        BY <1>1, <1>4, <2>1 DEF Holding
      <3> QED
        BY <1>1, <3>1 DEF TaskIInv, LocksInv
    <2>6. TasksInv'
      <3>1. \A q \in Workers \union Pushers : at'[q] = at[q] \/ at'[q] \notin {"run"} \union PushAt
        BY <2>1, <2>2 DEF PushAt
      <3> QED
        BY <1>1, <3>1 DEF TaskIInv, TasksInv
    <2>7. WaitInv'
      <3>1. WaitsIn' = WaitsIn
        BY <1>1, <2>1, <2>2 DEF WaitsIn, WaitAt
      <3> QED
        BY <1>1, <3>1 DEF TaskIInv, WaitInv, signal
    <2>8. StopInv'
      <3>1. left' \subseteq Workers /\ alive' \in BOOLEAN
        BY <1>1, <1>4 DEF TaskIInv, StopInv
      <3>2. ASSUME alive, NEW v \in Workers \ left' PROVE at'[v] \in Gone
        <4>1. v # w => at[v] \in Gone
          BY <1>4, <3>2 DEF TaskIInv, StopInv, InStop
        <4> QED
          BY <2>1, <2>2, <4>1 DEF Gone
      <3> QED
        BY <1>1, <2>1, <3>1, <3>2 DEF StopInv
    <2> QED
      BY <2>3, <2>4, <2>5, <2>6, <2>7, <2>8 DEF TaskIInv
  <1> QED
    BY <1>3, <1>4 DEF Broadcast

\* What a step of the stopper keeps that takes or gives no lock at its end.
LEMMA StopperMoves ==
  ASSUME TaskIInv, NEW point \in StopperAt, Moved(Stopper, point), UNCHANGED <<bRun, ended, executed>>,
         at[Stopper] \in {"start", "create"} => point = "create" \/ \A w \in Workers : at[w] # "unborn"
  PROVE  Places' /\ EndsInv'
  <1>1. Stopper \in Procs /\ Stopper \notin Workers \union Pushers
    BY TaskAssumption DEF Procs
  <1>2. point # "unborn"
    BY DEF StopperAt, InStop
  <1>3. Places'
    BY <1>1, PlacesKept DEF TaskIInv
  <1>4. EndsInv'
    BY <1>1, <1>2, EndsKept DEF TaskIInv
  <1> QED
    BY <1>3, <1>4

LEMMA StartKeeps ==
  ASSUME TaskIInv, Start
  PROVE  TaskIInv'
  <1>1. /\ at[Stopper] = "start" /\ holder.threads = Nobody /\ Then(Stopper, "create")
        /\ holder' = [holder EXCEPT !.threads = Stopper]
        /\ UNCHANGED <<queue, bRun, ended, signal, task, left, executed, alive>>
    BY DEF Start, At
  <1>2. Stopper \in Procs /\ Stopper \notin Workers \union Pushers /\ "create" \in Points /\ "create" \in StopperAt
    BY TaskAssumption DEF Procs, Points, StopperAt
  <1>3. Moved(Stopper, "create")
    BY <1>1, <1>2, ThenMoves DEF TaskIInv
  <1>4. "create" \notin InStop \union Holding
    BY DEF InStop, Holding
  <1>5. Places' /\ EndsInv'
    BY <1>1, <1>2, <1>3, StopperMoves
  <1>6. LocksInv'
    <2>1. PICK t, k \in Procs \union {Nobody} : holder = [threads |-> t, tasks |-> k]
      BY DEF TaskIInv, LocksInv
    <2>2. \A q \in Procs : at[q] \notin Holding /\ at[q] # "create" /\ k # q
      BY <1>1, <2>1, TaskAssumption DEF TaskIInv, LocksInv
    <2>3. \A q \in Procs : at'[q] \notin Holding /\ (at'[q] = "create" <=> q = Stopper)
      BY <1>3, <1>4, <2>2 DEF Moved, Holding
    <2>4. holder' = [threads |-> Stopper, tasks |-> k]
      BY <1>1, <2>1
    <2> QED
      BY <1>2, <2>1, <2>2, <2>3, <2>4 DEF LocksInv
  <1>7. TasksInv'
    BY <1>1, <1>2, <1>3, TasksKept DEF TaskIInv
  <1>8. WaitInv'
    BY <1>1, <1>2, <1>3, SignalStays DEF TaskIInv
  <1>9. StopInv'
    BY <1>1, <1>2, <1>3, <1>4, StopKept DEF TaskIInv, InStop
  <1> QED
    BY <1>5, <1>6, <1>7, <1>8, <1>9 DEF TaskIInv

LEMMA CreateThreadKeeps ==
  ASSUME TaskIInv, NEW w \in Workers, CreateThread(w)
  PROVE  TaskIInv'
  <1>1. /\ at[Stopper] = "create" /\ at[w] = "unborn" /\ Then(w, "check")
        /\ bRun' = [bRun EXCEPT ![w] = TRUE] /\ ended' = [ended EXCEPT ![w] = FALSE]
        /\ UNCHANGED <<queue, holder, signal, task, left, executed, alive>>
    BY DEF CreateThread, Run, At
  <1>2. w \in Procs /\ w # Stopper /\ w \notin Pushers /\ "check" \in Points /\ "check" \in WorkerAt /\ Stopper \in Procs
    BY TaskAssumption DEF Procs, Points, WorkerAt
  <1>3. Moved(w, "check")
    BY <1>1, <1>2, ThenMoves DEF TaskIInv
  <1>4. /\ "check" \notin Holding \union {"create", "run"} \union PushAt \union WaitAt
        /\ at[w] \notin Holding \union {"create"} \union WaitAt \union Gone
    BY <1>1 DEF Holding, PushAt, WaitAt, Gone
  <1>5. Places'
    BY <1>2, <1>3, PlacesKept DEF TaskIInv
  <1>6. EndsInv'
    <2>1. bRun' \in [Workers -> BOOLEAN] /\ ended' \in [Workers -> BOOLEAN]
      BY <1>1 DEF TaskIInv, EndsInv
    <2>2. at'[Stopper] = "create"
      BY <1>1, <1>2, <1>3, TaskAssumption DEF Moved
    <2>3. ASSUME NEW v \in Workers
          PROVE  ended'[v] <=> at'[v] \in Gone \union {"unborn"}
      <3>1. CASE v = w
        BY <1>1, <1>3, <3>1 DEF Moved, TaskIInv, EndsInv, Gone
      <3>2. CASE v # w
        <4>1. ended'[v] = ended[v] /\ v \in Procs
          BY <1>1, <3>2 DEF TaskIInv, EndsInv, Procs
        <4>2. at'[v] = at[v] \/ (at[v] = "asleep" /\ at'[v] = "awake")
          BY <1>3, <3>2, <4>1 DEF Moved
        <4> QED
          BY <4>1, <4>2 DEF TaskIInv, EndsInv, Gone
      <3> QED
        BY <3>1, <3>2
    <2> QED
      BY <2>1, <2>2, <2>3 DEF EndsInv
  <1>7. LocksInv'
    BY <1>1, <1>2, <1>3, <1>4, LocksKept DEF TaskIInv
  <1>8. TasksInv'
    BY <1>1, <1>2, <1>3, <1>4, TasksKept DEF TaskIInv
  <1>9. WaitInv'
    BY <1>1, <1>2, <1>3, <1>4, SignalStays DEF TaskIInv
  <1>10. StopInv'
    BY <1>1, <1>2, <1>3, <1>4, StopKept DEF TaskIInv
  <1> QED
    BY <1>5, <1>6, <1>7, <1>8, <1>9, <1>10 DEF TaskIInv

LEMMA StartedKeeps ==
  ASSUME TaskIInv, Started
  PROVE  TaskIInv'
  <1>1. /\ at[Stopper] = "create" /\ (\A w \in Workers : at[w] # "unborn") /\ Then(Stopper, "started")
        /\ holder' = [holder EXCEPT !.threads = Nobody]
        /\ UNCHANGED <<queue, bRun, ended, signal, task, left, executed, alive>>
    BY DEF Started, At
  <1>2. Stopper \in Procs /\ Stopper \notin Workers \union Pushers /\ "started" \in Points /\ "started" \in StopperAt
    BY TaskAssumption DEF Procs, Points, StopperAt
  <1>3. Moved(Stopper, "started")
    BY <1>1, <1>2, ThenMoves DEF TaskIInv
  <1>4. "started" \notin InStop \union Holding
    BY DEF InStop, Holding
  <1>5. Places' /\ EndsInv'
    BY <1>1, <1>2, <1>3, StopperMoves
  <1>6. LocksInv'
    <2>1. PICK t, k \in Procs \union {Nobody} : holder = [threads |-> t, tasks |-> k]
      BY DEF TaskIInv, LocksInv
    <2>2. at[Stopper] \notin Holding
      BY <1>1 DEF Holding
    <2>3. t = Stopper
      BY <1>1, <1>2, <2>1 DEF TaskIInv, LocksInv
    <2>4. \A q \in Procs : at[q] \notin Holding /\ k # q /\ (at[q] = "create" => q = Stopper)
      BY <1>2, <2>1, <2>2, <2>3 DEF TaskIInv, LocksInv
    <2>5. \A q \in Procs : at'[q] \notin Holding /\ at'[q] # "create"
      BY <1>3, <1>4, <2>4 DEF Moved, Holding
    <2>6. holder' = [threads |-> Nobody, tasks |-> k]
      BY <1>1, <2>1
    <2> QED
      BY <2>1, <2>4, <2>5, <2>6, TaskAssumption DEF LocksInv
  <1>7. TasksInv'
    BY <1>1, <1>2, <1>3, TasksKept DEF TaskIInv
  <1>8. WaitInv'
    BY <1>1, <1>2, <1>3, SignalStays DEF TaskIInv
  <1>9. StopInv'
    BY <1>1, <1>2, <1>3, <1>4, StopKept DEF TaskIInv, InStop
  <1> QED
    BY <1>5, <1>6, <1>7, <1>8, <1>9 DEF TaskIInv

\* A step of Stop of the pool, before or between its locks.
LEMMA StopStepKeeps ==
  ASSUME TaskIInv, NEW point \in StopperAt, Moved(Stopper, point), UNCHANGED <<ended, holder>>,
         bRun' \in [Workers -> BOOLEAN], at[Stopper] \notin {"start", "create"}, point # "create",
         at[Stopper] \in Holding <=> point \in Holding
  PROVE  Places' /\ EndsInv' /\ LocksInv'
  <1>1. Stopper \in Procs /\ Stopper \notin Workers \union Pushers /\ Workers \subseteq Procs
    BY TaskAssumption DEF Procs
  <1>2. Places'
    BY <1>1, PlacesKept DEF TaskIInv
  <1>3. EndsInv'
    <2>1. ASSUME NEW w \in Workers
          PROVE  at'[w] # "unborn" /\ at[w] # "unborn" /\ (at'[w] \in Gone <=> at[w] \in Gone)
      <3>1. at[w] # "unborn" /\ w \in Procs \ {Stopper}
        BY <1>1 DEF TaskIInv, EndsInv
      <3> QED
        BY <3>1 DEF Moved, Gone
    <2> QED
      BY <2>1 DEF TaskIInv, EndsInv
  <1>4. LocksInv'
    BY <1>1, LocksKept DEF TaskIInv
  <1> QED
    BY <1>2, <1>3, <1>4

LEMMA PlainStopKeeps ==
  ASSUME TaskIInv, NEW from \in StopperAt, NEW point \in StopperAt, at[Stopper] = from, Then(Stopper, point),
         <<from, point>> \in {<<"started", "lock">>, <<"toWait", "timedWait">>, <<"next", "unlock">>},
         point = "unlock" => left = {},
         UNCHANGED <<queue, bRun, ended, holder, signal, task, left, executed, alive>>
  PROVE  TaskIInv'
  <1>1. Stopper \in Procs /\ Stopper \notin Workers \union Pushers /\ point \in Points
    BY TaskAssumption DEF Procs, Points
  <1>2. Moved(Stopper, point)
    BY <1>1, ThenMoves DEF TaskIInv
  <1>3. /\ from \notin {"start", "create"} /\ point # "create" /\ (from \in Holding <=> point \in Holding)
        /\ (point \in InStop => from \in InStop) /\ point # "stopped"
    BY DEF Holding, InStop
  <1>4. Places' /\ EndsInv' /\ LocksInv'
    <2>1. bRun' \in [Workers -> BOOLEAN]
      BY DEF TaskIInv, EndsInv
    <2> QED
      BY <1>2, <1>3, <2>1, StopStepKeeps
  <1>5. TasksInv'
    BY <1>1, <1>2, TasksKept DEF TaskIInv
  <1>6. WaitInv'
    BY <1>1, <1>2, SignalStays DEF TaskIInv
  <1>7. StopInv'
    BY <1>1, <1>2, <1>3, StopKept DEF TaskIInv
  <1> QED
    BY <1>4, <1>5, <1>6, <1>7 DEF TaskIInv

LEMMA ClearTasksKeeps ==
  ASSUME TaskIInv, ClearTasks
  PROVE  TaskIInv'
  <1>1. /\ at[Stopper] = "clear" /\ queue' = <<>> /\ bRun' = [w \in Workers |-> FALSE] /\ left' = Workers
        /\ Notify(Stopper, "next")
        /\ UNCHANGED <<ended, holder, task, executed, alive>>
    BY DEF ClearTasks, At
  <1>2. Stopper \in Procs /\ Stopper \notin Workers \union Pushers /\ "next" \in Points /\ "next" \in StopperAt
    BY TaskAssumption DEF Procs, Points, StopperAt, InStop
  <1>3. Moved(Stopper, "next") /\ posts' \in Nat /\ UNCHANGED <<counted, waitCount>>
    BY <1>1, <1>2, NotifyMoves DEF TaskIInv
  <1>4. Places' /\ EndsInv' /\ LocksInv'
    <2>1. bRun' \in [Workers -> BOOLEAN] /\ ("clear" \in Holding <=> "next" \in Holding)
      BY <1>1 DEF Holding
    <2> QED
      BY <1>1, <1>2, <1>3, <2>1, StopStepKeeps
  <1>5. TasksInv'
    <2>1. ASSUME NEW q \in Workers \union Pushers
          PROVE  /\ at'[q] \in {"run"} \union PushAt => task'[q] \in AllTasks
                 /\ q \in Workers /\ at'[q] \in PushAt => Nested \in AllTasks
      BY <1>1, <1>2, <1>3, OthersKeepTasks DEF TaskIInv
    <2> QED
      BY <1>1, <2>1 DEF TaskIInv, TasksInv
  <1>6. WaitInv'
    <2>1. counted' \in Int
      BY <1>3 DEF TaskIInv, WaitInv
    <2> QED
      BY <1>2, <1>3, <2>1, WaitsStay DEF TaskIInv
  <1>7. StopInv'
    <2>1. at'[Stopper] \notin {"unlock", "stopped"}
      BY <1>3 DEF Moved
    <2> QED
      BY <1>1, <2>1 DEF TaskIInv, StopInv
  <1> QED
    BY <1>4, <1>5, <1>6, <1>7 DEF TaskIInv

LEMMA StopThreadKeeps ==
  ASSUME TaskIInv, NEW w \in Workers, StopThread(w)
  PROVE  TaskIInv'
  <1>1. /\ at[Stopper] = "next" /\ w \in left /\ alive
        /\ UNCHANGED <<queue, bRun, ended, holder, signal, executed, alive>>
    BY DEF StopThread, At
  <1>2. Stopper \in Procs /\ Stopper \notin Workers \union Pushers /\ "toWait" \in Points /\ "toWait" \in StopperAt
    BY TaskAssumption DEF Procs, Points, StopperAt, InStop
  <1>3. CASE ended[w] /\ left' = left \ {w} /\ UNCHANGED <<at, task>>
    <2>1. at[w] \in Gone
      BY <1>1, <1>3 DEF TaskIInv, EndsInv
    <2>2. StopInv'
      BY <1>1, <1>3, <2>1 DEF TaskIInv, StopInv, InStop
    <2>3. Places' /\ EndsInv' /\ LocksInv' /\ TasksInv'
      BY <1>1, <1>3 DEF TaskIInv, Places, EndsInv, LocksInv, TasksInv
    <2>4. WaitInv'
      BY <1>1, <1>3 DEF TaskIInv, WaitInv, WaitsIn, signal
    <2> QED
      BY <2>2, <2>3, <2>4 DEF TaskIInv
  <1>4. CASE Then(Stopper, "toWait") /\ task' = [task EXCEPT ![Stopper] = w] /\ UNCHANGED left
    <2>1. Moved(Stopper, "toWait")
      BY <1>2, <1>4, ThenMoves DEF TaskIInv
    <2>2. Places' /\ EndsInv' /\ LocksInv'
      <3>1. bRun' \in [Workers -> BOOLEAN] /\ ("next" \in Holding <=> "toWait" \in Holding)
        BY <1>1 DEF Holding, TaskIInv, EndsInv
      <3> QED
        BY <1>1, <1>2, <2>1, <3>1, StopStepKeeps
    <2>3. TasksInv'
      <3>1. /\ task' \in [Procs -> Procs \union AllTasks \union {Nobody}]
            /\ \A q \in Procs \ {Stopper} : task'[q] = task[q]
        BY <1>2, <1>4 DEF TaskIInv, TasksInv, Procs
      <3>2. ASSUME NEW q \in Workers \union Pushers
            PROVE  /\ at'[q] \in {"run"} \union PushAt => task'[q] \in AllTasks
                   /\ q \in Workers /\ at'[q] \in PushAt => Nested \in AllTasks
        BY <1>2, <2>1, <3>1, OthersKeepTasks DEF TaskIInv
      <3> QED
        BY <1>1, <3>1, <3>2 DEF TaskIInv, TasksInv
    <2>4. WaitInv'
      BY <1>1, <1>2, <2>1, SignalStays DEF TaskIInv
    <2>5. StopInv'
      BY <1>1, <1>2, <1>4, <2>1, StopKept DEF TaskIInv, InStop
    <2> QED
      BY <2>2, <2>3, <2>4, <2>5 DEF TaskIInv
  <1> QED
    BY <1>3, <1>4 DEF StopThread

LEMMA TimeOutKeeps ==
  ASSUME TaskIInv, TimeOut
  PROVE  TaskIInv'
  <1>1. /\ at[Stopper] = "timedWait" /\ alive /\ alive' \in BOOLEAN /\ Then(Stopper, "next")
        /\ alive' => at[task[Stopper]] = "over"
        /\ left' = left \ {task[Stopper]}
        /\ UNCHANGED <<queue, bRun, ended, holder, signal, task, executed>>
    BY DEF TimeOut, At
  <1>2. /\ Stopper \in Procs /\ Stopper \notin Workers \union Pushers /\ "next" \in Points /\ "next" \in StopperAt
        /\ Workers \subseteq Procs
    BY TaskAssumption DEF Procs, Points, StopperAt, InStop
  <1>3. Moved(Stopper, "next")
    BY <1>1, <1>2, ThenMoves DEF TaskIInv
  <1>4. Places' /\ EndsInv' /\ LocksInv'
    <2>1. bRun' \in [Workers -> BOOLEAN] /\ ("timedWait" \in Holding <=> "next" \in Holding)
      BY <1>1 DEF Holding, TaskIInv, EndsInv
    <2> QED
      BY <1>1, <1>2, <1>3, <2>1, StopStepKeeps
  <1>5. TasksInv'
    BY <1>1, <1>2, <1>3, TasksKept DEF TaskIInv
  <1>6. WaitInv'
    BY <1>1, <1>2, <1>3, SignalStays DEF TaskIInv
  <1>7. StopInv'
    <2>1. left' \subseteq Workers
      BY <1>1 DEF TaskIInv, StopInv
    <2>2. at'[Stopper] = "next"
      BY <1>3 DEF Moved
    <2>3. ASSUME alive', NEW v \in Workers \ left' PROVE at'[v] \in Gone
      <3>1. v = task[Stopper] \/ v \notin left
        BY <1>1
      <3>2. at[v] \in Gone
        BY <1>1, <2>3, <3>1 DEF TaskIInv, StopInv, InStop, Gone
      <3>3. v \in Procs \ {Stopper}
        BY <1>2
      <3> QED
        BY <1>3, <3>2, <3>3 DEF Moved, Gone
    <2> QED
      BY <1>1, <2>1, <2>2, <2>3 DEF StopInv
  <1> QED
    BY <1>4, <1>5, <1>6, <1>7 DEF TaskIInv

LEMMA TaskStepKeeps == TaskIInv /\ [TaskNext]_taskVars => TaskIInv'
  <1> SUFFICES ASSUME TaskIInv, [TaskNext]_taskVars PROVE TaskIInv'
    OBVIOUS
  <1>1. Stopper \in Procs /\ Workers \subseteq Procs /\ Pushers \subseteq Procs
    BY DEF Procs
  <1>2. ASSUME NEW w \in Workers, WorkerStep(w) PROVE TaskIInv'
    <2>1. CASE SemWait(w) \/ Awake(w) \/ EndWait(w) \/ Reset(w) \/ WaitOrLeave(w) \/ Leave(w)
      BY <2>1, WaitStepKeeps
    <2>2. CASE Check(w)
      BY <2>2, CheckKeeps
    <2>3. CASE PullTask(w)
      BY <2>3, PullTaskKeeps
    <2>4. CASE Execute(w)
      BY <2>4, ExecuteKeeps
    <2>5. CASE End(w)
      BY <2>5, EndKeeps
    <2>6. CASE Broadcast(w)
      BY <2>6, BroadcastKeeps
    <2>7. CASE PushStep(w)
      BY <1>1, <2>7, LockKeeps, PushTaskKeeps, UnlockKeeps DEF PushStep
    <2> QED
      BY <1>2, <2>1, <2>2, <2>3, <2>4, <2>5, <2>6, <2>7 DEF WorkerStep
  <1>3. ASSUME NEW p \in Pushers, PushStep(p) \/ \E k \in Tasks : Accept(p, k) PROVE TaskIInv'
    <2>1. CASE PushStep(p)
      BY <1>1, <2>1, LockKeeps, PushTaskKeeps, UnlockKeeps DEF PushStep
    <2>2. ASSUME NEW k \in Tasks, Accept(p, k) PROVE TaskIInv'
      BY <2>2, AcceptKeeps
    <2> QED
      BY <1>3, <2>1, <2>2
  <1>4. \A point \in {"started", "lock", "toWait", "timedWait", "next", "unlock"} : point \in StopperAt
    BY DEF StopperAt, InStop
  <1>5. CASE StopperStep
    <2>1. CASE Start
      BY <2>1, StartKeeps
    <2>2. ASSUME NEW w \in Workers, CreateThread(w) PROVE TaskIInv'
      BY <2>2, CreateThreadKeeps
    <2>3. CASE Started
      BY <2>3, StartedKeeps
    <2>4. CASE Lock(Stopper) \/ Unlock(Stopper)
      BY <1>1, <2>4, LockKeeps, UnlockKeeps
    <2>5. CASE ClearTasks
      BY <2>5, ClearTasksKeeps
    <2>6. ASSUME NEW w \in Workers, StopThread(w) PROVE TaskIInv'
      BY <2>6, StopThreadKeeps
    <2>7. CASE TimedWait
      <3>1. /\ at[Stopper] = "toWait" /\ Then(Stopper, "timedWait")
            /\ UNCHANGED <<queue, bRun, ended, holder, signal, task, left, executed, alive>>
        BY <2>7 DEF TimedWait, At
      <3> QED
        BY <1>4, <3>1, PlainStopKeeps
    <2>8. CASE TimeOut
      BY <2>8, TimeOutKeeps
    <2>9. CASE Stopped
      <3>1. /\ at[Stopper] = "next" /\ left = {} /\ Then(Stopper, "unlock")
            /\ UNCHANGED <<queue, bRun, ended, holder, signal, task, left, executed, alive>>
        BY <2>9 DEF Stopped, At
      <3> QED
        BY <1>4, <3>1, PlainStopKeeps
    <2> QED
      BY <1>5, <2>1, <2>2, <2>3, <2>4, <2>5, <2>6, <2>7, <2>8, <2>9 DEF StopperStep
  <1>6. CASE Stop
    <2>1. /\ at[Stopper] = "started" /\ Then(Stopper, "lock")
          /\ UNCHANGED <<queue, bRun, ended, holder, signal, task, left, executed, alive>>
      BY <1>6 DEF Stop, At
    <2> QED
      BY <1>4, <2>1, PlainStopKeeps
  <1>7. CASE UNCHANGED taskVars
    BY <1>7 DEF taskVars, signal, TaskIInv, Places, EndsInv, LocksInv, TasksInv, WaitInv, WaitsIn, StopInv
  <1> QED
    BY <1>2, <1>3, <1>5, <1>6, <1>7 DEF TaskNext

LEMMA TaskImplies == TaskIInv => TaskInv
  <1> SUFFICES ASSUME TaskIInv PROVE TaskInv
    OBVIOUS
  <1>1. at \in [Procs -> {"unborn", "check", "pull", "run", "idle", "wait", "asleep", "awake",
          "endWait", "reset", "leave", "end", "broadcast", "over", "free", "lock",
          "push", "unlock", "start", "create", "started", "clear", "next", "toWait", "timedWait", "stopped"}]
    BY DEF TaskIInv, Places, Points, WorkerAt, PusherAt, StopperAt, WaitAt, Gone, PushAt, InStop
  <1>2. \A i \in DOMAIN queue : queue[i] \in AllTasks
    BY DEF TaskIInv, TasksInv
  <1>3. waitCount \in 0 .. Cardinality(Workers)
    <2>1. IsFiniteSet(Workers) /\ WaitsIn \subseteq Workers
      BY TaskAssumption DEF WaitsIn
    <2>2. IsFiniteSet(WaitsIn) /\ Cardinality(WaitsIn) <= Cardinality(Workers)
      BY <2>1, FS_Subset
    <2>3. Cardinality(WaitsIn) \in Nat /\ Cardinality(Workers) \in Nat
      BY <2>1, <2>2, FS_CardinalityType
    <2> QED
      BY <2>2, <2>3 DEF TaskIInv, WaitInv
  <1>4. \A p \in Procs :
          /\ at[p] \in {"push", "unlock", "clear", "next", "toWait", "timedWait"} <=> holder.tasks = p
          /\ holder.threads = p <=> holder.tasks = p \/ at[p] = "create"
    BY DEF TaskIInv, LocksInv, Holding
  <1>5. /\ bRun \in [Workers -> BOOLEAN] /\ ended \in [Workers -> BOOLEAN] /\ alive \in BOOLEAN
        /\ posts \in Nat /\ counted \in Int /\ left \subseteq Workers /\ executed \subseteq AllTasks
    BY DEF TaskIInv, EndsInv, TasksInv, WaitInv, StopInv
  <1>6. EndedWhenStopped
    BY DEF TaskIInv, StopInv, EndedWhenStopped, InStop, Gone
  <1> QED
    BY <1>1, <1>2, <1>3, <1>4, <1>5, <1>6 DEF TaskInv, TaskTypeOK

(* Who is between taking and giving back the locks of the pool holds them, *)
(* the signal counts the threads that wait for it, and when Stop has       *)
(* returned no worker runs a task or touches the queue or the signal.      *)
THEOREM TaskInvHolds == TaskSpec => []TaskInv
  <1> QED
    BY TaskInitKeeps, TaskStepKeeps, TaskImplies, PTL DEF TaskSpec

-----------------------------------------------------------------------------
(* The ring.  One thread o is alone at its side; the other side is Many.   *)
Many(o) == Other(side[o])

NodesOfRing == 0 .. Size - 1
Following(i) == IF i = Size - 1 THEN 0 ELSE i + 1
Onward(m, k) == IF m + k < Size THEN m + k ELSE m + k - Size
Ahead(i, m)  == IF i >= m THEN i - m ELSE i - m + Size

Ready(i, s) == nodes[i].empty <=> s = "push"

(* A thread holds a node from taking its position on until it sets the     *)
(* flag.                                                                   *)
WithNode == {"look", "object", "flag"}
Holds(t) == step[t].op \in WithNode

\* Threads that are counted in.
Entered == {t \in Users : step[t].op \notin {"none", "countIn"}}

\* Those of the many that are counted in and hold no node, and the one alone
\* when it has passed a node on that it has not counted for them yet.
Reserves(t, o, op) == IF t = o THEN op = "countOther" ELSE op \in {"position", "countOut"}
Reserved(o) == {t \in Users : Reserves(t, o, step[t].op)}

\* The nodes that are ready for the many and not taken.
Untaken(o) == able[Many(o)] + Cardinality(Reserved(o))

RingCounts(o) ==
  /\ able["push"] + able["pop"] + Cardinality(Entered) = Size
  /\ able[side[o]] >= 0
  /\ step[o].op = "countIn" => able[side[o]] >= 1
  /\ able[Many(o)] >= 0 \/ (able[Many(o)] = -1 /\ \E t \in Users \ {o} : step[t].op = "countOut")
  /\ \A t \in Users \ {o} : step[t].op = "countIn" => able[Many(o)] >= 0
  /\ \A t, u \in Users \ {o} : t # u /\ step[t].op = "countIn" /\ step[u].op = "countIn" => able[Many(o)] >= 1

\* The position of the one alone, less what it has to give back or to use.
HasPosition(o) == Holds(o) \/ step[o].op \in {"read", "write"}
Base(o) == IF Holds(o) \/ step[o].op = "read" THEN step[o].at
           ELSE IF step[o].op = "write" THEN ((step[o].at - 1) % Wrap) % Size
           ELSE position[side[o]] % Size

Place(o) == position[Many(o)] % Size

RingPlaces(o) ==
  /\ Base(o) = Onward(Place(o), Untaken(o))
  /\ HasPosition(o) => Following(Base(o)) = position[side[o]] % Size
  /\ step[o].op = "write" => step[o].at = position[side[o]]
  /\ step[o].op \in {"object", "flag"} => Ready(step[o].at, side[o])
  /\ \A t \in Users \ {o} : step[t].op \notin {"read", "write"}

RingHeld(o) ==
  /\ \A t \in Users \ {o} : Holds(t) =>
       Ahead(step[t].at, Place(o)) >= Untaken(o) /\ Ready(step[t].at, side[t])
  /\ \A t, u \in Users \ {o} : Holds(t) /\ Holds(u) /\ step[t].at = step[u].at => t = u
  /\ \A i \in NodesOfRing :
       Ready(i, side[o]) <=> /\ Ahead(i, Place(o)) >= Untaken(o)
                             /\ \A t \in Users \ {o} : Holds(t) => step[t].at # i

AloneAt(o) == \A t \in Users : side[t] = side[o] => t = o

Poppers == {t \in Users : side[t] = "pop" /\ step[t].op \in {"flag", "countOther"}}
Half == {step[t].object : t \in {u \in Users : side[u] = "push" /\ step[u].op = "flag"}}

RingObjects ==
  /\ pushed \in Seq(1 .. MaxObject) /\ popped \subseteq 1 .. MaxObject
  /\ \A t \in Users : side[t] = "push" =>
       /\ step[t].op # "none" => step[t].object # 0
       /\ step[t].op # "countOther" /\ step[t].object # 0 => step[t].object \notin Accepted
       /\ step[t].op = "flag" => nodes[step[t].at].object = step[t].object
  /\ \A t, u \in Users : side[t] = "push" /\ side[u] = "push" /\ step[t].object = step[u].object /\ step[t].object # 0
       => t = u
  /\ \A t \in Poppers : step[t].object # 0
  /\ \A i \in NodesOfRing : nodes[i].object = 0 <=>
       IF nodes[i].empty THEN \A t \in Users : side[t] = "push" /\ step[t].op = "flag" => step[t].at # i
       ELSE \E t \in Users : side[t] = "pop" /\ step[t].op = "flag" /\ step[t].at = i

RingOnce ==
  /\ \A i, j \in NodesOfRing : nodes[i].object = nodes[j].object /\ nodes[i].object # 0 => i = j
  /\ \A t, u \in Poppers : step[t].object = step[u].object => t = u
  /\ \A t \in Poppers : step[t].object \notin popped /\ \A i \in NodesOfRing : nodes[i].object # step[t].object
  /\ \A i \in NodesOfRing : nodes[i].object \notin popped
  /\ \A x \in 1 .. MaxObject :
       x \in Accepted \/ x \in Half <=>
         \/ x \in popped
         \/ \E i \in NodesOfRing : nodes[i].object = x
         \/ \E t \in Poppers : step[t].object = x

RingIInv == QueueTypeOK /\ RingObjects /\ RingOnce /\ \E o \in Users : AloneAt(o) /\ RingCounts(o) /\ RingPlaces(o) /\ RingHeld(o)

-----------------------------------------------------------------------------
(* Places on the ring.  Positions count modulo Wrap, places modulo Size,   *)
(* which divides it.                                                       *)
LEMMA NextPlace ==
  ASSUME NEW x \in 0 .. Wrap - 1
  PROVE  /\ x % Size \in NodesOfRing /\ (x + 1) % Wrap \in 0 .. Wrap - 1
         /\ ((x + 1) % Wrap) % Size = Following(x % Size)
  <1> USE QueueAssumption
  <1>1. x % Size \in 0 .. Size - 1 /\ \E q \in Nat : x = q * Size + (x % Size)
    <2>1. x \in Nat /\ Size \in Nat \ {0}
      OBVIOUS
    <2> HIDE QueueAssumption
    <2> QED
      BY <2>1, Divides
  <1> DEFINE r == x % Size
  <1>2. PICK q \in Nat : x = q * Size + r
    BY <1>1
  <1>3. r \in 0 .. Size - 1
    BY <1>1
  <1> HIDE DEF r
  <1>4. PICK w \in Nat : Wrap = w * Size
    <2>1. Wrap \in Nat /\ Size \in Nat \ {0} /\ Wrap % Size = 0
      OBVIOUS
    <2> HIDE QueueAssumption
    <2>2. PICK w \in Nat : Wrap = w * Size + (Wrap % Size)
      BY <2>1, Divides
    <2>3. w * Size \in Nat
      BY <2>1
    <2>4. Wrap = w * Size
      BY <2>1, <2>2, <2>3
    <2> QED
      BY <2>4
  <1>5. (x + 1) % Size = Following(r)
    <2>1. CASE r < Size - 1
      <3>1. x + 1 = q * Size + (r + 1) /\ r + 1 \in 0 .. Size - 1 /\ r # Size - 1
        BY <1>2, <1>3, <2>1
      <3>2. (q * Size + (r + 1)) % Size = r + 1
        BY <3>1, Quotient
      <3> QED
        BY <3>1, <3>2 DEF Following
    <2>2. CASE r = Size - 1
      <3>1. x + 1 = (q + 1) * Size + 0 /\ 0 \in 0 .. Size - 1 /\ q + 1 \in Nat
        BY <1>2, <2>2
      <3>2. ((q + 1) * Size + 0) % Size = 0
        BY <3>1, Quotient
      <3> QED
        BY <2>2, <3>1, <3>2 DEF Following
    <2> QED
      BY <1>3, <2>1, <2>2
  <1>6. CASE x + 1 < Wrap
    <2>1. x + 1 = 0 * Wrap + (x + 1) /\ x + 1 \in 0 .. Wrap - 1 /\ 0 \in Nat
      BY <1>6
    <2>2. (0 * Wrap + (x + 1)) % Wrap = x + 1
      BY <2>1, Quotient
    <2>3. (x + 1) % Wrap = x + 1
      BY <2>1, <2>2
    <2> QED
      BY <1>1, <1>5, <2>1, <2>3 DEF r, NodesOfRing
  <1>7. CASE x + 1 = Wrap
    <2>1. (1 * Wrap + 0) % Wrap = 0 /\ (w * Size + 0) % Size = 0 /\ (0 * Size + 0) % Size = 0
      <3>1. 0 \in 0 .. Wrap - 1 /\ 0 \in 0 .. Size - 1 /\ 1 \in Nat /\ 0 \in Nat
        OBVIOUS
      <3>2. (1 * Wrap + 0) % Wrap = 0
        BY <3>1, Quotient
      <3>3. (w * Size + 0) % Size = 0
        BY <3>1, <1>4, Quotient
      <3>4. (0 * Size + 0) % Size = 0
        BY <3>1, Quotient
      <3> QED
        BY <3>2, <3>3, <3>4
    <2>2. (x + 1) % Wrap = 0 /\ (x + 1) % Size = 0 /\ 0 % Size = 0
      <3>1. 1 * Wrap + 0 = x + 1 /\ w * Size + 0 = x + 1 /\ 0 * Size + 0 = 0
        BY <1>4, <1>7
      <3> QED
        BY <2>1, <3>1
    <2>3. 0 \in 0 .. Wrap - 1
      OBVIOUS
    <2> QED
      BY <1>1, <1>5, <2>2, <2>3 DEF r, NodesOfRing
  <1> QED
    BY <1>6, <1>7

\* What is given back was taken.
LEMMA PlaceBefore ==
  ASSUME NEW x \in 0 .. Wrap - 1
  PROVE  /\ (x - 1) % Wrap \in 0 .. Wrap - 1 /\ ((x - 1) % Wrap) % Size \in NodesOfRing
         /\ Following(((x - 1) % Wrap) % Size) = x % Size
  <1> USE QueueAssumption
  <1> DEFINE y == (x - 1) % Wrap
  <1>1. y \in 0 .. Wrap - 1 /\ (y + 1) % Wrap = x
    <2>1. CASE x >= 1
      <3>1. x - 1 = 0 * Wrap + (x - 1) /\ x - 1 \in 0 .. Wrap - 1 /\ x = 0 * Wrap + x /\ 0 \in Nat
        BY <2>1
      <3>2. (0 * Wrap + (x - 1)) % Wrap = x - 1 /\ (0 * Wrap + x) % Wrap = x
        BY <3>1, Quotient
      <3>3. (x - 1) % Wrap = x - 1 /\ x % Wrap = x /\ (x - 1) + 1 = x
        BY <3>1, <3>2
      <3> QED
        BY <3>1, <3>3
    <2>2. CASE x = 0
      <3>1. (-1) % Wrap = Wrap - 1
        <4> DEFINE p == (-1) \div Wrap
                   s == (-1) % Wrap
        <4>1. p \in Int /\ s \in 0 .. Wrap - 1 /\ p * Wrap + s = -1
          OBVIOUS
        <4> HIDE DEF p, s
        <4>2. CASE p >= 0
          <5>1. p * Wrap >= 0 * Wrap
            BY <4>1, <4>2
          <5> QED
            BY <4>1, <5>1
        <4>3. CASE p <= -2
          <5>1. p * Wrap <= (-2) * Wrap
            BY <4>1, <4>3
          <5> QED
            BY <4>1, <5>1
        <4>4. CASE p = -1
          BY <4>1, <4>4
        <4>5. s = Wrap - 1
          BY <4>1, <4>2, <4>3, <4>4
        <4> QED
          BY <4>5 DEF s
      <3>2. (1 * Wrap + 0) % Wrap = 0
        <4>1. 0 \in 0 .. Wrap - 1 /\ 1 \in Nat
          OBVIOUS
        <4> QED
          BY <4>1, Quotient
      <3>3. y = Wrap - 1 /\ y + 1 = 1 * Wrap + 0
        <4>1. x - 1 = -1
          BY <2>2
        <4>2. y = Wrap - 1
          BY <3>1, <4>1
        <4> HIDE DEF y
        <4> QED
          BY <4>2
      <3> QED
        BY <2>2, <3>2, <3>3
    <2> QED
      BY <2>1, <2>2
  <1> HIDE DEF y
  <1>2. y % Size \in NodesOfRing /\ ((y + 1) % Wrap) % Size = Following(y % Size)
    BY <1>1, NextPlace
  <1> QED
    BY <1>1, <1>2 DEF y

LEMMA OnwardIs ==
  ASSUME NEW m \in NodesOfRing, NEW k \in 0 .. Size
  PROVE  /\ Onward(m, k) \in NodesOfRing
         /\ k < Size => Ahead(Onward(m, k), m) = k /\ Onward(m, k + 1) = Following(Onward(m, k))
         /\ k >= 1 => Onward(Following(m), k - 1) = Onward(m, k)
         /\ Following(m) \in NodesOfRing
         /\ Ahead(m, m) = 0 /\ Ahead(m, Following(m)) = Size - 1
         /\ Onward(m, 0) = m /\ Onward(m, Size) = m
  BY QueueAssumption DEF Onward, Ahead, Following, NodesOfRing

LEMMA AheadIs ==
  ASSUME NEW m \in NodesOfRing, NEW i \in NodesOfRing
  PROVE  /\ Ahead(i, m) \in NodesOfRing
         /\ i # m => Ahead(i, Following(m)) = Ahead(i, m) - 1 /\ Ahead(i, m) >= 1
         /\ \A k \in NodesOfRing : Ahead(i, m) = k => i = Onward(m, k)
         /\ Following(i) = Following(m) => i = m
  BY QueueAssumption DEF Onward, Ahead, Following, NodesOfRing
-----------------------------------------------------------------------------
(* Counting threads.                                                       *)
Few == IsFiniteSet(Users) /\ Cardinality(Users) <= 3

\* Two threads at most are not the one alone.
LEMMA FewUsers ==
  ASSUME Few, NEW o \in Users, NEW t \in Users \ {o}, NEW u \in Users \ {o}, NEW v \in Users \ {o},
         t # u, t # v
  PROVE  u = v
  <1> SUFFICES ASSUME u # v PROVE FALSE
    OBVIOUS
  <1>1. IsFiniteSet({o}) /\ Cardinality({o}) = 1
    BY FS_Singleton
  <1>2. IsFiniteSet({o} \cup {t}) /\ Cardinality({o} \cup {t}) = 2
    <2> DEFINE S == {o}
    <2>1. t \notin S /\ IsFiniteSet(S) /\ Cardinality(S) = 1
      BY <1>1
    <2> HIDE DEF S
    <2>2. IsFiniteSet(S \cup {t}) /\ Cardinality(S \cup {t}) = Cardinality(S) + 1
      BY <2>1, FS_AddElement
    <2> QED
      BY <2>1, <2>2 DEF S
  <1>3. IsFiniteSet({o} \cup {t} \cup {u}) /\ Cardinality({o} \cup {t} \cup {u}) = 3
    <2> DEFINE S == {o} \cup {t}
    <2>1. u \notin S /\ IsFiniteSet(S) /\ Cardinality(S) = 2
      BY <1>2
    <2> HIDE DEF S
    <2>2. IsFiniteSet(S \cup {u}) /\ Cardinality(S \cup {u}) = Cardinality(S) + 1
      BY <2>1, FS_AddElement
    <2> QED
      BY <2>1, <2>2 DEF S
  <1>4. Cardinality({o} \cup {t} \cup {u} \cup {v}) = 4
    <2> DEFINE S == {o} \cup {t} \cup {u}
    <2>1. v \notin S /\ IsFiniteSet(S) /\ Cardinality(S) = 3
      BY <1>3
    <2> HIDE DEF S
    <2>2. Cardinality(S \cup {v}) = Cardinality(S) + 1
      BY <2>1, FS_AddElement
    <2> QED
      BY <2>1, <2>2 DEF S
  <1>5. Cardinality({o} \cup {t} \cup {u} \cup {v}) <= Cardinality(Users) /\ Cardinality(Users) \in Nat
    BY FS_Subset, FS_CardinalityType DEF Few
  <1> QED
    BY <1>4, <1>5 DEF Few

QueueOps == {"none", "countIn", "position", "look", "read", "write", "countOut", "object", "flag", "countOther"}
QueueStepType == [op : QueueOps, object : 0 .. MaxObject, at : 0 .. Wrap - 1]

\* A thread goes on; the others stay where they are.
GoesOn(t, op, x, i) ==
  /\ \A u \in Users : u # t => step'[u] = step[u]
  /\ step'[t].op = op /\ step'[t].object = x /\ step'[t].at = i

LEMMA GoIs ==
  ASSUME QueueTypeOK, NEW t \in Users, NEW op, NEW x, NEW i, Go(t, op, x, i)
  PROVE  GoesOn(t, op, x, i) /\ DOMAIN step' = Users /\ step'[t] = [op |-> op, object |-> x, at |-> i]
  BY DEF QueueTypeOK, Go, GoesOn

EnteredBy(op) == IF op \in {"none", "countIn"} THEN 0 ELSE 1
ReservedBy(t, o, op) == IF Reserves(t, o, op) THEN 1 ELSE 0

\* How a step changes the number of those counted in and of those Reserved.
LEMMA RingCounted ==
  ASSUME Few, NEW t \in Users, NEW o \in Users, NEW op, NEW x, NEW i, GoesOn(t, op, x, i)
  PROVE  /\ Cardinality(Entered)' = Cardinality(Entered) + EnteredBy(op) - EnteredBy(step[t].op)
         /\ Cardinality(Reserved(o))' = Cardinality(Reserved(o)) + ReservedBy(t, o, op) - ReservedBy(t, o, step[t].op)
  <1>1. Cardinality(Entered)' = Cardinality(Entered) + EnteredBy(op) - EnteredBy(step[t].op)
    <2> DEFINE S == Entered
               T == {u \in Users : step'[u].op \notin {"none", "countIn"}}
    <2>1. S \ {t} = T \ {t} /\ (t \in T <=> op \notin {"none", "countIn"}) /\ (t \in S <=> step[t].op \notin {"none", "countIn"})
      BY DEF GoesOn, Entered
    <2>2. IsFiniteSet(S)
      BY FS_Subset DEF Few, Entered
    <2>3. Entered' = T
      BY DEF Entered
    <2> HIDE DEF S, T
    <2>4. Cardinality(T) = Cardinality(S) + One(t \in T) - One(t \in S)
      BY <2>1, <2>2, CountChanges
    <2>5. One(t \in T) = EnteredBy(op) /\ One(t \in S) = EnteredBy(step[t].op)
      BY <2>1 DEF One, EnteredBy
    <2> QED
      BY <2>3, <2>4, <2>5 DEF S
  <1>2. Cardinality(Reserved(o))' = Cardinality(Reserved(o)) + ReservedBy(t, o, op) - ReservedBy(t, o, step[t].op)
    <2> DEFINE S == Reserved(o)
               T == {u \in Users : Reserves(u, o, step'[u].op)}
    <2>1. S \ {t} = T \ {t} /\ (t \in T <=> Reserves(t, o, op)) /\ (t \in S <=> Reserves(t, o, step[t].op))
      BY DEF GoesOn, Reserved
    <2>2. IsFiniteSet(S)
      BY FS_Subset DEF Few, Reserved
    <2>3. Reserved(o)' = T
      BY DEF Reserved, Reserves
    <2> HIDE DEF S, T
    <2>4. Cardinality(T) = Cardinality(S) + One(t \in T) - One(t \in S)
      BY <2>1, <2>2, CountChanges
    <2>5. One(t \in T) = ReservedBy(t, o, op) /\ One(t \in S) = ReservedBy(t, o, step[t].op)
      BY <2>1 DEF One, ReservedBy
    <2> QED
      BY <2>3, <2>4, <2>5 DEF S
  <1> QED
    BY <1>1, <1>2

\* The two sides, and who is at which.
LEMMA SideIs ==
  ASSUME QueueTypeOK, NEW o \in Users, AloneAt(o)
  PROVE  /\ side[o] \in Sides /\ Many(o) \in Sides /\ side[o] # Many(o) /\ Other(side[o]) = Many(o)
         /\ \A t \in Users : t # o => side[t] = Many(o) /\ Other(side[t]) = side[o]
         /\ able["push"] + able["pop"] = able[side[o]] + able[Many(o)]
         /\ able[side[o]] \in Int /\ able[Many(o)] \in Int /\ able["push"] \in Int /\ able["pop"] \in Int
  <1>1. side \in [Users -> Sides] /\ able \in [Sides -> Int]
    <2>1. \A x \in Int : \A n \in -x .. Size : n \in Int
      OBVIOUS
    <2>2. able \in [Sides -> -Cardinality(Users) .. Size]
      BY DEF QueueTypeOK
    <2>3. \A a, b : \A n \in a .. b : n \in Int
      OBVIOUS
    <2>4. \A s \in Sides : able[s] \in Int
      BY <2>2, <2>3
    <2> QED
      BY <2>2, <2>4 DEF QueueTypeOK
  <1>2. able["push"] \in Int /\ able["pop"] \in Int
    BY <1>1 DEF Sides
  <1> QED
    BY <1>1, <1>2 DEF Many, Other, Sides, AloneAt

\* How many nodes are ready and not taken.
LEMMA UntakenIs ==
  ASSUME Few, QueueTypeOK, NEW o \in Users, AloneAt(o), RingCounts(o)
  PROVE  /\ Untaken(o) \in 0 .. Size
         /\ Cardinality(Reserved(o)) \in Nat /\ Cardinality(Entered) \in Nat
         /\ step[o].op \notin {"none", "countIn", "countOther"} => Untaken(o) < Size
         /\ \A t \in Users \ {o} : step[t].op = "position" => Untaken(o) >= 1
  <1> DEFINE R == Reserved(o)
             E == Entered
  <1>1. IsFiniteSet(R) /\ IsFiniteSet(E) /\ R \subseteq E
    <2>1. R \subseteq Users /\ E \subseteq Users /\ R \subseteq E
      BY DEF Reserved, Reserves, Entered
    <2> QED
      BY <2>1, FS_Subset DEF Few
  <1>2. Cardinality(R) \in Nat /\ Cardinality(E) \in Nat /\ Cardinality(R) <= Cardinality(E)
    BY <1>1, FS_CardinalityType, FS_Subset
  <1>3. able[side[o]] \in Int /\ able[Many(o)] \in Int /\ Size \in Nat
    BY SideIs, QueueAssumption
  <1>4. able[side[o]] + able[Many(o)] + Cardinality(E) = Size /\ able[side[o]] >= 0
    BY SideIs DEF RingCounts
  <1>5. Untaken(o) = able[Many(o)] + Cardinality(R)
    BY DEF Untaken
  <1>6. \A t \in Users \ {o} : step[t].op \in {"position", "countOut"} => t \in R
    BY DEF Reserved, Reserves
  <1>7. \A t \in R : Cardinality(R) >= 1
    <2>1. \A t \in R : Cardinality(R) # 0
      BY <1>1, FS_EmptySet
    <2> QED
      BY <1>2, <2>1
  <1>8. \A t, u \in R : t # u => Cardinality(R) >= 2
    <2> SUFFICES ASSUME NEW t \in R, NEW u \in R, t # u PROVE Cardinality(R) >= 2
      OBVIOUS
    <2>1. IsFiniteSet(R \ {t}) /\ Cardinality(R \ {t}) = Cardinality(R) - 1 /\ u \in R \ {t}
      BY <1>1, FS_RemoveElement
    <2>2. Cardinality(R \ {t}) # 0 /\ Cardinality(R \ {t}) \in Nat
      BY <2>1, FS_EmptySet, FS_CardinalityType
    <2> QED
      BY <1>2, <2>1, <2>2
  <1>9. able[Many(o)] >= 0 \/ (able[Many(o)] = -1 /\ \E t \in Users \ {o} : step[t].op = "countOut")
    BY DEF RingCounts
  <1>10. step[o].op \notin {"none", "countIn", "countOther"} => Cardinality(R) <= Cardinality(E) - 1
    <2> SUFFICES ASSUME step[o].op \notin {"none", "countIn", "countOther"} PROVE Cardinality(R) <= Cardinality(E) - 1
      OBVIOUS
    <2>1. o \in E /\ o \notin R
      BY DEF Reserved, Reserves, Entered
    <2>2. IsFiniteSet(E \ {o}) /\ Cardinality(E \ {o}) = Cardinality(E) - 1 /\ R \subseteq E \ {o}
      BY <1>1, <2>1, FS_RemoveElement
    <2> QED
      BY <2>2, FS_Subset
  <1> HIDE DEF R, E
  <1>11. Untaken(o) \in 0 .. Size
    <2>1. able[Many(o)] + Cardinality(R) >= 0
      BY <1>2, <1>3, <1>6, <1>7, <1>9
    <2> QED
      BY <1>2, <1>3, <1>4, <1>5, <2>1
  <1>12. step[o].op \notin {"none", "countIn", "countOther"} => Untaken(o) < Size
    BY <1>2, <1>3, <1>4, <1>5, <1>10
  <1>13. ASSUME NEW t \in Users \ {o}, step[t].op = "position" PROVE Untaken(o) >= 1
    <2>1. t \in R
      BY <1>6, <1>13
    <2>2. CASE able[Many(o)] >= 0
      BY <1>2, <1>3, <1>5, <1>7, <2>1, <2>2
    <2>3. CASE able[Many(o)] = -1 /\ \E u \in Users \ {o} : step[u].op = "countOut"
      <3>1. PICK u \in Users \ {o} : step[u].op = "countOut"
        BY <2>3
      <3>2. u \in R /\ u # t
        BY <1>6, <1>13, <3>1
      <3> QED
        BY <1>2, <1>3, <1>5, <1>8, <2>1, <2>3, <3>2
    <2> QED
      BY <1>9, <2>2, <2>3
  <1> QED
    BY <1>2, <1>11, <1>12, <1>13 DEF R, E
-----------------------------------------------------------------------------
(* The counts, step by step.                                               *)
QueueSteps(t, op) ==
  /\ side' = side
  /\ \E x, i : GoesOn(t, op, x, i)

\* Who is counted after a step.
LEMMA RingCountsMove ==
  ASSUME Few, QueueTypeOK, NEW o \in Users, NEW t \in Users, NEW op, QueueSteps(t, op)
  PROVE  /\ \A u \in Users : step'[u].op = IF u = t THEN op ELSE step[u].op
         /\ Many(o)' = Many(o) /\ side'[o] = side[o]
         /\ Cardinality(Entered)' = Cardinality(Entered) + EnteredBy(op) - EnteredBy(step[t].op)
         /\ Cardinality(Reserved(o))' = Cardinality(Reserved(o)) + ReservedBy(t, o, op) - ReservedBy(t, o, step[t].op)
  <1>1. PICK x, i : GoesOn(t, op, x, i)
    BY DEF QueueSteps
  <1>2. \A u \in Users : step'[u].op = IF u = t THEN op ELSE step[u].op
    BY <1>1 DEF GoesOn
  <1>3. Many(o)' = Many(o) /\ side'[o] = side[o]
    BY DEF QueueSteps, Many
  <1> QED
    BY <1>1, <1>2, <1>3, RingCounted

\* Steps between counting in and counting out.
LEMMA RingCountsStay ==
  ASSUME Few, QueueTypeOK, NEW o \in Users, AloneAt(o), RingCounts(o), NEW t \in Users, NEW op,
         QueueSteps(t, op), able' = able,
         op \notin {"none", "countIn"}, step[t].op \notin {"none", "countIn", "countOut"}
  PROVE  /\ RingCounts(o)'
         /\ Untaken(o)' = Untaken(o) + ReservedBy(t, o, op) - ReservedBy(t, o, step[t].op)
  <1>1. /\ \A u \in Users : step'[u].op = IF u = t THEN op ELSE step[u].op
        /\ Many(o)' = Many(o) /\ side'[o] = side[o]
        /\ Cardinality(Entered)' = Cardinality(Entered) + EnteredBy(op) - EnteredBy(step[t].op)
        /\ Cardinality(Reserved(o))' = Cardinality(Reserved(o)) + ReservedBy(t, o, op) - ReservedBy(t, o, step[t].op)
    BY RingCountsMove
  <1>2. Cardinality(Entered)' = Cardinality(Entered)
    BY <1>1, UntakenIs DEF EnteredBy
  <1>3. \A u \in Users : step'[u].op = "countIn" => step[u].op = "countIn"
    BY <1>1
  <1>4. \A u \in Users : step[u].op = "countOut" => step'[u].op = "countOut"
    BY <1>1
  <1>5. RingCounts(o)'
    BY <1>1, <1>2, <1>3, <1>4 DEF RingCounts
  <1>6. able[Many(o)] \in Int /\ Cardinality(Reserved(o)) \in Nat
    BY SideIs, UntakenIs
  <1>7. Untaken(o)' = Untaken(o) + ReservedBy(t, o, op) - ReservedBy(t, o, step[t].op)
    BY <1>1, <1>6 DEF Untaken, ReservedBy
  <1> QED
    BY <1>5, <1>7

\* A call begins when the count allows it.
LEMMA RingCountsBegin ==
  ASSUME Few, QueueTypeOK, NEW o \in Users, AloneAt(o), RingCounts(o), NEW t \in Users,
         QueueSteps(t, "countIn"), step[t].op = "none", able' = able, able[side[t]] > 0
  PROVE  RingCounts(o)' /\ Untaken(o)' = Untaken(o)
  <1>1. /\ \A u \in Users : step'[u].op = IF u = t THEN "countIn" ELSE step[u].op
        /\ Many(o)' = Many(o) /\ side'[o] = side[o]
        /\ Cardinality(Entered)' = Cardinality(Entered) + EnteredBy("countIn") - EnteredBy(step[t].op)
        /\ Cardinality(Reserved(o))' = Cardinality(Reserved(o)) + ReservedBy(t, o, "countIn") - ReservedBy(t, o, step[t].op)
    BY RingCountsMove
  <1>2. /\ Cardinality(Entered)' = Cardinality(Entered) /\ Cardinality(Reserved(o))' = Cardinality(Reserved(o))
        /\ able[Many(o)] \in Int /\ able[side[o]] \in Int
    BY <1>1, UntakenIs, SideIs DEF EnteredBy, ReservedBy, Reserves
  <1>3. side[t] = IF t = o THEN side[o] ELSE Many(o)
    BY SideIs
  <1>4. able[side[o]] > 0 => able[side[o]] >= 1
    BY <1>2
  <1>5. able[Many(o)] > 0 => able[Many(o)] >= 1 /\ able[Many(o)] >= 0
    BY <1>2
  <1>6. \A u \in Users : step[u].op = "countOut" => step'[u].op = "countOut"
    BY <1>1
  <1>7. RingCounts(o)'
    BY <1>1, <1>2, <1>3, <1>4, <1>5, <1>6 DEF RingCounts
  <1> QED
    BY <1>1, <1>2, <1>7 DEF Untaken

\* The one alone is never refused: only he takes from his count.
LEMMA RingCountsIn ==
  ASSUME Few, QueueTypeOK, NEW o \in Users, AloneAt(o), RingCounts(o), NEW t \in Users,
         QueueSteps(t, IF able[side[t]] # 0 THEN "position" ELSE "countOut"), step[t].op = "countIn",
         able' = [able EXCEPT ![side[t]] = @ - 1]
  PROVE  /\ RingCounts(o)' /\ Untaken(o)' = Untaken(o)
         /\ t = o => able[side[t]] # 0
  <1> DEFINE op == IF able[side[t]] # 0 THEN "position" ELSE "countOut"
  <1>1. /\ \A u \in Users : step'[u].op = IF u = t THEN op ELSE step[u].op
        /\ Many(o)' = Many(o) /\ side'[o] = side[o]
        /\ Cardinality(Entered)' = Cardinality(Entered) + EnteredBy(op) - EnteredBy(step[t].op)
        /\ Cardinality(Reserved(o))' = Cardinality(Reserved(o)) + ReservedBy(t, o, op) - ReservedBy(t, o, step[t].op)
    BY RingCountsMove
  <1>2. op = "position" \/ op = "countOut"
    OBVIOUS
  <1>3. able[side[t]] = 0 <=> op = "countOut"
    OBVIOUS
  <1> HIDE DEF op
  <1>4. /\ Cardinality(Entered)' = Cardinality(Entered) + 1
        /\ Cardinality(Reserved(o))' = Cardinality(Reserved(o)) + (IF t = o THEN 0 ELSE 1)
        /\ Cardinality(Entered) \in Nat /\ Cardinality(Reserved(o)) \in Nat
    BY <1>1, <1>2, UntakenIs DEF EnteredBy, ReservedBy, Reserves
  <1>5. /\ side[o] # Many(o) /\ able[side[o]] \in Int /\ able[Many(o)] \in Int
        /\ side[t] = IF t = o THEN side[o] ELSE Many(o)
        /\ able["push"] + able["pop"] = able[side[o]] + able[Many(o)]
    BY SideIs
  <1>6. /\ able'[side[o]] = IF t = o THEN able[side[o]] - 1 ELSE able[side[o]]
        /\ able'[Many(o)] = IF t = o THEN able[Many(o)] ELSE able[Many(o)] - 1
        /\ able'["push"] + able'["pop"] = able["push"] + able["pop"] - 1
    <2>1. able \in [Sides -> Int] /\ side[t] \in Sides /\ side[o] \in Sides /\ Many(o) \in Sides
      <3>1. able["push"] \in Int /\ able["pop"] \in Int /\ side[o] \in Sides /\ Many(o) \in Sides /\ side[t] \in Sides
        BY SideIs DEF Sides, QueueTypeOK
      <3>2. DOMAIN able = Sides /\ able = [s \in Sides |-> able[s]]
        BY DEF QueueTypeOK
      <3> QED
        BY <3>1, <3>2 DEF Sides
    <2> QED
      BY <1>5, <2>1 DEF Sides
  <1>7. Untaken(o)' = Untaken(o)
    BY <1>1, <1>4, <1>5, <1>6 DEF Untaken
  <1>10. able'["push"] + able'["pop"] + Cardinality(Entered)' = Size
    <2>1. able["push"] + able["pop"] + Cardinality(Entered) = Size
      BY DEF RingCounts
    <2>3. able["push"] \in Int /\ able["pop"] \in Int /\ able'["push"] \in Int /\ able'["pop"] \in Int
      <3>1. able["push"] \in Int /\ able["pop"] \in Int
        BY SideIs DEF Sides
      <3>2. side[o] \in Sides /\ Many(o) \in Sides
        BY SideIs
      <3>3. able'[side[o]] \in Int /\ able'[Many(o)] \in Int
        BY <1>5, <1>6
      <3> QED
        BY <1>5, <3>1, <3>2, <3>3 DEF Sides
    <2>4. Cardinality(Entered)' \in Int /\ Cardinality(Entered) \in Int
      BY <1>4
    <2> QED
      BY <1>4, <1>6, <2>1, <2>3, <2>4
  <1>8. CASE t = o
    <2>1. able[side[o]] >= 1 /\ op = "position"
      BY <1>2, <1>3, <1>5, <1>8 DEF RingCounts
    <2>2. able["push"] + able["pop"] + Cardinality(Entered) = Size
      BY DEF RingCounts
    <2>3. able'["push"] + able'["pop"] + Cardinality(Entered)' = Size /\ able'[side[o]] >= 0
      <3>1. able'[side[o]] >= 0
        BY <1>5, <1>6, <1>8, <2>1
      <3> QED
        BY <1>10, <3>1
    <2>4. \A u \in Users \ {o} : step'[u].op = step[u].op
      BY <1>1, <1>8
    <2>5. step'[o].op = "position" /\ able'[Many(o)] = able[Many(o)]
      BY <1>1, <1>6, <1>8, <2>1
    <2> QED
      BY <1>1, <1>3, <1>7, <2>1, <2>3, <2>4, <2>5 DEF RingCounts
  <1>9. CASE t # o
    <2>1. able[Many(o)] >= 0
      BY <1>9 DEF RingCounts
    <2>2. able["push"] + able["pop"] + Cardinality(Entered) = Size
      BY DEF RingCounts
    <2>3. able'["push"] + able'["pop"] + Cardinality(Entered)' = Size
      BY <1>10
    <2>4. able'[Many(o)] >= 0 \/ (able'[Many(o)] = -1 /\ \E u \in Users \ {o} : step'[u].op = "countOut")
      <3>1. CASE able[Many(o)] = 0
        <4>1. step'[t].op = "countOut" /\ able'[Many(o)] = -1
          BY <1>1, <1>3, <1>5, <1>6, <1>9, <3>1
        <4> QED
          BY <1>9, <4>1
      <3>2. CASE able[Many(o)] # 0
        BY <1>5, <1>6, <1>9, <2>1, <3>2
      <3> QED
        BY <3>1, <3>2
    <2>5. \A u \in Users \ {o} : step'[u].op = "countIn" => u # t /\ step[u].op = "countIn"
      BY <1>1, <1>2
    <2>6. \A u \in Users \ {o} : step'[u].op = "countIn" => able'[Many(o)] >= 0
      <3> SUFFICES ASSUME NEW u \in Users \ {o}, step'[u].op = "countIn" PROVE able'[Many(o)] >= 0
        OBVIOUS
      <3>1. able[Many(o)] >= 1
        BY <1>9, <2>5 DEF RingCounts
      <3> QED
        BY <1>5, <1>6, <1>9, <3>1
    <2>7. \A u, v \in Users \ {o} : u # v /\ step'[u].op = "countIn" /\ step'[v].op = "countIn" => FALSE
      BY <1>9, <2>5, FewUsers
    <2>8. step'[o].op = step[o].op /\ able'[side[o]] = able[side[o]]
      BY <1>1, <1>6, <1>9
    <2> QED
      BY <1>1, <1>7, <1>9, <2>3, <2>4, <2>6, <2>7, <2>8 DEF RingCounts
  <1> QED
    BY <1>8, <1>9

\* Counting back at the own side, or on at the other one.
LEMMA RingCountsOut ==
  ASSUME Few, QueueTypeOK, NEW o \in Users, AloneAt(o), RingCounts(o), NEW t \in Users, NEW s \in Sides,
         QueueSteps(t, "none"), able' = [able EXCEPT ![s] = @ + 1],
         \/ step[t].op = "countOut" /\ s = side[t]
         \/ step[t].op = "countOther" /\ s = Other(side[t])
  PROVE  RingCounts(o)' /\ Untaken(o)' = Untaken(o)
  <1>1. /\ \A u \in Users : step'[u].op = IF u = t THEN "none" ELSE step[u].op
        /\ Many(o)' = Many(o) /\ side'[o] = side[o]
        /\ Cardinality(Entered)' = Cardinality(Entered) + EnteredBy("none") - EnteredBy(step[t].op)
        /\ Cardinality(Reserved(o))' = Cardinality(Reserved(o)) + ReservedBy(t, o, "none") - ReservedBy(t, o, step[t].op)
    BY RingCountsMove
  <1>2. /\ side[o] # Many(o) /\ able[side[o]] \in Int /\ able[Many(o)] \in Int
        /\ side[t] = IF t = o THEN side[o] ELSE Many(o)
        /\ Other(side[t]) = IF t = o THEN Many(o) ELSE side[o]
        /\ able["push"] + able["pop"] = able[side[o]] + able[Many(o)]
    BY SideIs
  <1>3. s = Many(o) <=> ReservedBy(t, o, step[t].op) = 1
    BY <1>2 DEF ReservedBy, Reserves
  <1>4. /\ Cardinality(Entered)' = Cardinality(Entered) - 1
        /\ Cardinality(Reserved(o))' = Cardinality(Reserved(o)) - (IF s = Many(o) THEN 1 ELSE 0)
        /\ Cardinality(Entered) \in Nat /\ Cardinality(Reserved(o)) \in Nat
    <2>1. EnteredBy("none") = 0 /\ EnteredBy(step[t].op) = 1 /\ ReservedBy(t, o, "none") = 0
      BY DEF EnteredBy, ReservedBy, Reserves
    <2>2. ReservedBy(t, o, step[t].op) = IF s = Many(o) THEN 1 ELSE 0
      BY <1>3 DEF ReservedBy
    <2> QED
      BY <1>1, <2>1, <2>2, UntakenIs
  <1>5. /\ able'[side[o]] = IF s = Many(o) THEN able[side[o]] ELSE able[side[o]] + 1
        /\ able'[Many(o)] = IF s = Many(o) THEN able[Many(o)] + 1 ELSE able[Many(o)]
        /\ able'["push"] + able'["pop"] = able["push"] + able["pop"] + 1
    <2>1. able \in [Sides -> Int] /\ side[o] \in Sides /\ Many(o) \in Sides
      <3>1. able["push"] \in Int /\ able["pop"] \in Int /\ side[o] \in Sides /\ Many(o) \in Sides
        BY SideIs DEF Sides, QueueTypeOK
      <3>2. DOMAIN able = Sides /\ able = [r \in Sides |-> able[r]]
        BY DEF QueueTypeOK
      <3> QED
        BY <3>1, <3>2 DEF Sides
    <2> QED
      BY <1>2, <2>1 DEF Sides
  <1>6. Untaken(o)' = Untaken(o)
    BY <1>1, <1>2, <1>4, <1>5 DEF Untaken
  <1>7. able'["push"] + able'["pop"] + Cardinality(Entered)' = Size
    BY <1>2, <1>4, <1>5 DEF RingCounts
  <1>8. \A u \in Users : step'[u].op = "countIn" => step[u].op = "countIn"
    BY <1>1
  <1>9. able'[side[o]] >= able[side[o]] /\ able'[Many(o)] >= able[Many(o)] /\ able'[side[o]] \in Int /\ able'[Many(o)] \in Int
    BY <1>2, <1>5
  <1>10. able'[Many(o)] >= 0 \/ (able'[Many(o)] = -1 /\ \E u \in Users \ {o} : step'[u].op = "countOut")
    <2>1. CASE able[Many(o)] >= 0
      BY <1>2, <1>9, <2>1
    <2>2. CASE able[Many(o)] = -1 /\ s = Many(o)
      BY <1>5, <2>2
    <2>3. CASE able[Many(o)] = -1 /\ s # Many(o) /\ \E u \in Users \ {o} : step[u].op = "countOut"
      <3>1. PICK u \in Users \ {o} : step[u].op = "countOut"
        BY <2>3
      <3>2. u # t
        BY <1>2, <2>3, <3>1
      <3> QED
        BY <1>1, <1>5, <2>3, <3>1, <3>2
    <2> QED
      BY <2>1, <2>2, <2>3 DEF RingCounts
  <1>11. able'[side[o]] >= 0 /\ (step'[o].op = "countIn" => able'[side[o]] >= 1)
    BY <1>2, <1>8, <1>9 DEF RingCounts
  <1>12. /\ \A u \in Users \ {o} : step'[u].op = "countIn" => able'[Many(o)] >= 0
         /\ \A u, v \in Users \ {o} : u # v /\ step'[u].op = "countIn" /\ step'[v].op = "countIn" => able'[Many(o)] >= 1
    <2>1. able[Many(o)] >= 0 => able'[Many(o)] >= 0
      BY <1>2, <1>9
    <2>2. able[Many(o)] >= 1 => able'[Many(o)] >= 1
      BY <1>2, <1>9
    <2> QED
      BY <1>8, <2>1, <2>2 DEF RingCounts
  <1> QED
    BY <1>1, <1>6, <1>7, <1>10, <1>11, <1>12 DEF RingCounts

-----------------------------------------------------------------------------
(* The positions and the nodes, step by step.                              *)
Placeless == {"none", "countIn", "position", "countOut", "countOther"}

\* Places are places of the ring.
LEMMA RingFacts ==
  ASSUME Few, QueueTypeOK, NEW o \in Users, AloneAt(o), RingCounts(o), RingPlaces(o)
  PROVE  /\ Place(o) \in NodesOfRing /\ position[side[o]] % Size \in NodesOfRing /\ Base(o) \in NodesOfRing
         /\ \A t \in Users : Holds(t) => step[t].at \in NodesOfRing
         /\ \A s \in Sides : position[s] \in 0 .. Wrap - 1
         /\ \A t \in Users : step[t].op \in QueueOps
         /\ \A i \in NodesOfRing : nodes[i].empty \in BOOLEAN
  <1>1. position \in [Sides -> 0 .. Wrap - 1]
    BY DEF QueueTypeOK
  <1>2. side[o] \in Sides /\ Many(o) \in Sides
    BY SideIs
  <1>3. Place(o) \in NodesOfRing /\ position[side[o]] % Size \in NodesOfRing
    BY <1>1, <1>2, NextPlace DEF Place
  <1>4. Base(o) \in NodesOfRing
    BY <1>3, UntakenIs, OnwardIs DEF RingPlaces
  <1>5. \A t \in Users : step[t] \in QueueStepType
    BY DEF QueueTypeOK, QueueStepType, QueueOps
  <1>6. \A t \in Users : Holds(t) => step[t].at \in NodesOfRing
    <2> SUFFICES ASSUME NEW t \in Users, Holds(t) PROVE step[t].at \in NodesOfRing
      OBVIOUS
    <2>1. step[t].at \in 0 .. Wrap - 1
      BY <1>5 DEF QueueStepType
    <2>2. step[t].at < Size
      BY DEF QueueTypeOK, Holds, WithNode
    <2> QED
      BY <2>1, <2>2, QueueAssumption DEF NodesOfRing
  <1> QED
    BY <1>1, <1>3, <1>4, <1>5, <1>6 DEF QueueTypeOK, QueueStepType, NodesOfRing

\* Steps that leave the positions, the flags and who holds which node.
LEMMA HeldStay ==
  ASSUME NEW o \in Users, RingHeld(o), side' = side, Untaken(o)' = Untaken(o), Place(o)' = Place(o),
         \A u \in Users \ {o} : (Holds(u)' <=> Holds(u)) /\ (Holds(u) => step'[u].at = step[u].at),
         \A u \in Users : Holds(u) => step[u].at \in NodesOfRing,
         \A i \in NodesOfRing : nodes'[i].empty = nodes[i].empty
  PROVE  RingHeld(o)'
  <1>1. \A i \in NodesOfRing : \A s : Ready(i, s)' <=> Ready(i, s)
    BY DEF Ready
  <1> QED
    BY <1>1 DEF RingHeld

\* Such a step of the one alone keeps what his position says.
LEMMA PlacesStay ==
  ASSUME NEW o \in Users, RingPlaces(o), side' = side, Untaken(o)' = Untaken(o), position' = position,
         \A i \in NodesOfRing : nodes'[i].empty = nodes[i].empty,
         \A u \in Users : Holds(u) => step[u].at \in NodesOfRing,
         NEW t \in Users, NEW op, NEW x, NEW i, GoesOn(t, op, x, i),
         t # o => op \notin {"read", "write"},
         t = o => \/ step[o].op \in Placeless /\ op \in Placeless
                  \/ /\ step[o].op \in {"look", "object"} /\ op \in {"object", "flag", "read"} /\ i = step[o].at
                     /\ op # "read" => Ready(i, side[o])
  PROVE  RingPlaces(o)' /\ Place(o)' = Place(o)
  <1>1. Place(o)' = Place(o) /\ Many(o)' = Many(o)
    BY DEF Place, Many
  <1>2. \A u \in Users \ {o} : step'[u].op \notin {"read", "write"}
    BY DEF GoesOn, RingPlaces
  <1>3. CASE t # o
    <2>1. step'[o] = step[o]
      BY <1>3 DEF GoesOn
    <2>2. Base(o)' = Base(o) /\ (HasPosition(o)' <=> HasPosition(o)) /\ (Holds(o)' <=> Holds(o))
      BY <2>1 DEF Base, HasPosition, Holds
    <2>3. step[o].op \in {"object", "flag"} => step[o].at \in NodesOfRing
      BY DEF Holds, WithNode
    <2>4. step'[o].op \in {"object", "flag"} => Ready(step[o].at, side[o])'
      BY <2>1, <2>3 DEF RingPlaces, Ready
    <2> QED
      BY <1>1, <1>2, <2>1, <2>2, <2>4 DEF RingPlaces
  <1>4. CASE t = o /\ step[o].op \in Placeless /\ op \in Placeless
    <2>1. step'[o].op = op
      BY <1>4 DEF GoesOn
    <2>2. Base(o)' = Base(o) /\ ~HasPosition(o)' /\ step'[o].op \notin {"write", "object", "flag"}
      BY <1>4, <2>1 DEF Base, HasPosition, Holds, WithNode, Placeless
    <2> QED
      BY <1>1, <1>2, <2>2 DEF RingPlaces
  <1>5. CASE /\ t = o /\ step[o].op \in {"look", "object"} /\ op \in {"object", "flag", "read"} /\ i = step[o].at
             /\ op # "read" => Ready(i, side[o])
    <2>1. step'[o].op = op /\ step'[o].at = step[o].at
      BY <1>5 DEF GoesOn
    <2>2. Base(o)' = Base(o) /\ HasPosition(o) /\ step'[o].op # "write"
      BY <1>5, <2>1 DEF Base, HasPosition, Holds, WithNode
    <2>3. step[o].at \in NodesOfRing
      BY <1>5 DEF Holds, WithNode
    <2>4. step'[o].op \in {"object", "flag"} => Ready(step[o].at, side[o])'
      BY <1>5, <2>1, <2>3 DEF Ready
    <2> QED
      BY <1>1, <1>2, <2>1, <2>2, <2>4 DEF RingPlaces
  <1> QED
    BY <1>3, <1>4, <1>5

\* One of the many takes the next node that is ready.
LEMMA ManyTake ==
  ASSUME Few, QueueTypeOK, NEW o \in Users, AloneAt(o), RingCounts(o), RingPlaces(o), RingHeld(o),
         NEW t \in Users \ {o}, TakePosition(t), Untaken(o)' = Untaken(o) - 1
  PROVE  RingPlaces(o)' /\ RingHeld(o)'
  <1> DEFINE m == Place(o)
             k == Untaken(o)
             n == Place(o)'
  <1>1. /\ m \in NodesOfRing /\ k \in 0 .. Size /\ k >= 1
        /\ step[t].op = "position" /\ side[t] = Many(o) /\ side[o] # Many(o) /\ side' = side /\ nodes' = nodes
    BY RingFacts, UntakenIs, SideIs DEF TakePosition
  <1>2. /\ position' = [position EXCEPT ![Many(o)] = (@ + 1) % Wrap] /\ GoesOn(t, "look", step[t].object, m)
    <2>1. Go(t, "look", step[t].object, position[side[t]] % Size)
      BY DEF TakePosition
    <2> QED
      BY <1>1, <2>1, GoIs DEF TakePosition, Place
  <1>3. n = Following(m) /\ position'[side[o]] = position[side[o]] /\ Many(o)' = Many(o)
    <2>1. position \in [Sides -> 0 .. Wrap - 1] /\ Many(o) \in Sides
      BY SideIs DEF QueueTypeOK
    <2>2. position'[Many(o)] = (position[Many(o)] + 1) % Wrap /\ position'[side[o]] = position[side[o]]
      BY <1>1, <1>2, <2>1
    <2>3. Many(o)' = Many(o)
      BY <1>1 DEF Many
    <2>4. ((position[Many(o)] + 1) % Wrap) % Size = Following(position[Many(o)] % Size)
      BY <2>1, NextPlace
    <2> QED
      BY <2>2, <2>3, <2>4 DEF Place
  <1>4. step'[o] = step[o] /\ \A u \in Users \ {o, t} : step'[u] = step[u]
    BY <1>2 DEF GoesOn
  <1>5. step'[t].op = "look" /\ step'[t].at = m
    BY <1>2 DEF GoesOn
  <1> HIDE DEF m, n, k
  <1>6. Onward(n, k - 1) = Onward(m, k)
    BY <1>1, <1>3, OnwardIs
  <1>7. RingPlaces(o)'
    <2>1. Base(o)' = Base(o) /\ (HasPosition(o)' <=> HasPosition(o))
      BY <1>1, <1>3, <1>4 DEF Base, HasPosition, Holds
    <2>2. Base(o)' = Onward(n, Untaken(o)')
      BY <1>6, <2>1 DEF RingPlaces, m, k
    <2>3. \A i, s : Ready(i, s)' <=> Ready(i, s)
      BY <1>1 DEF Ready
    <2>4. \A u \in Users \ {o} : step'[u].op \notin {"read", "write"}
      BY <1>4, <1>5 DEF RingPlaces
    <2>5. /\ HasPosition(o)' => Following(Base(o)') = position'[side'[o]] % Size
          /\ step'[o].op = "write" => step'[o].at = position'[side'[o]]
          /\ step'[o].op \in {"object", "flag"} => Ready(step[o].at, side[o])'
      BY <1>1, <1>3, <1>4, <2>1, <2>3 DEF RingPlaces
    <2> QED
      BY <2>2, <2>4, <2>5 DEF RingPlaces, n
  <1>8. \A i \in NodesOfRing : Ahead(i, n) >= k - 1 <=> Ahead(i, m) >= k \/ i = m
    <2> SUFFICES ASSUME NEW i \in NodesOfRing PROVE Ahead(i, n) >= k - 1 <=> Ahead(i, m) >= k \/ i = m
      OBVIOUS
    <2>1. Ahead(i, m) \in Nat /\ Ahead(i, n) \in Nat
      BY <1>1, <1>3, OnwardIs, AheadIs DEF NodesOfRing
    <2>2. CASE i = m
      <3>1. Ahead(i, n) = Size - 1
        BY <1>1, <1>3, <2>2, OnwardIs
      <3> QED
        BY <1>1, <2>2, <3>1, QueueAssumption
    <2>3. CASE i # m
      <3>1. Ahead(i, n) = Ahead(i, m) - 1
        BY <1>1, <1>3, <2>3, AheadIs
      <3> QED
        BY <1>1, <2>1, <2>3, <3>1
    <2> QED
      BY <2>2, <2>3
  <1>9. \A u \in Users \ {o} : Holds(u) => step[u].at \in NodesOfRing /\ step[u].at # m
    <2> SUFFICES ASSUME NEW u \in Users \ {o}, Holds(u) PROVE step[u].at \in NodesOfRing /\ step[u].at # m
      OBVIOUS
    <2>1. Ahead(step[u].at, m) >= k
      BY DEF RingHeld, m, k
    <2>2. Ahead(m, m) = 0
      BY <1>1, OnwardIs
    <2>3. ~(0 >= k)
      BY <1>1
    <2> QED
      BY <2>1, <2>2, <2>3, RingFacts
  <1>10. \A u \in Users \ {o} : Holds(u)' <=> u = t \/ Holds(u)
    BY <1>1, <1>4, <1>5 DEF Holds, WithNode
  <1>11. \A i, s : Ready(i, s)' <=> Ready(i, s)
    BY <1>1 DEF Ready
  <1>12. ~Ready(m, side[o])
    <2>1. ~(Ahead(m, m) >= k)
      BY <1>1, OnwardIs
    <2> QED
      BY <1>1, <2>1 DEF RingHeld, m, k
  <1>13. Ready(m, side[t])
    <2>1. nodes[m].empty \in BOOLEAN
      BY <1>1, RingFacts
    <2> QED
      BY <1>1, <1>12, <2>1, SideIs DEF Ready, Sides, Many, Other
  <1>14. ASSUME NEW u \in Users \ {o}, Holds(u)'
         PROVE  Ahead(step'[u].at, n) >= k - 1 /\ Ready(step[u].at, side[u])'
    <2>1. CASE u = t
      BY <1>1, <1>5, <1>8, <1>11, <1>13, <2>1
    <2>2. CASE u # t
      <3>1. Holds(u) /\ step'[u] = step[u]
        BY <1>4, <1>10, <1>14, <2>2
      <3>2. Ahead(step[u].at, m) >= k /\ Ready(step[u].at, side[u]) /\ step[u].at \in NodesOfRing
        BY <1>9, <3>1 DEF RingHeld, m, k
      <3> QED
        BY <1>1, <1>8, <1>11, <3>1, <3>2
    <2> QED
      BY <2>1, <2>2
  <1>15. ASSUME NEW u \in Users \ {o}, NEW v \in Users \ {o}, Holds(u)', Holds(v)', step'[u].at = step'[v].at
         PROVE  u = v
    <2>1. \A w \in Users \ {o} : w # t /\ Holds(w)' => Holds(w) /\ step'[w] = step[w] /\ step'[w].at # m
      BY <1>4, <1>9, <1>10
    <2> QED
      BY <1>5, <1>15, <2>1 DEF RingHeld
  <1>16. ASSUME NEW i \in NodesOfRing
         PROVE  Ready(i, side[o])' <=> /\ Ahead(i, n) >= k - 1
                                        /\ \A u \in Users \ {o} : Holds(u)' => step'[u].at # i
    <2>1. Ready(i, side[o]) <=> /\ Ahead(i, m) >= k
                                /\ \A u \in Users \ {o} : Holds(u) => step[u].at # i
      BY DEF RingHeld, m, k
    <2>2. CASE i = m
      BY <1>1, <1>5, <1>10, <1>11, <1>12, <2>2
    <2>3. CASE i # m
      <3>1. (\A u \in Users \ {o} : Holds(u)' => step'[u].at # i) <=> (\A u \in Users \ {o} : Holds(u) => step[u].at # i)
        <4>1. \A u \in Users \ {o} : u # t => (Holds(u)' <=> Holds(u)) /\ step'[u] = step[u]
          BY <1>4, <1>10
        <4>2. ~Holds(t) /\ step'[t].at # i
          BY <1>1, <1>5, <2>3 DEF Holds, WithNode
        <4> QED
          BY <4>1, <4>2
      <3> QED
        BY <1>1, <1>8, <1>11, <2>1, <2>3, <3>1
    <2> QED
      BY <2>2, <2>3
  <1>17. Place(o)' = n /\ Untaken(o)' = k - 1
    BY DEF n, k
  <1>18. RingHeld(o)'
    BY <1>14, <1>15, <1>16, <1>17 DEF RingHeld
  <1> QED
    BY <1>7, <1>18

\* One of the many has used its node.
LEMMA ManyFlag ==
  ASSUME Few, QueueTypeOK, NEW o \in Users, AloneAt(o), RingCounts(o), RingPlaces(o), RingHeld(o),
         NEW t \in Users \ {o}, SetFlag(t), Untaken(o)' = Untaken(o)
  PROVE  RingPlaces(o)' /\ RingHeld(o)'
  <1> PICK j : j = step[t].at
    OBVIOUS
  <1>1. /\ step[t].op = "flag" /\ side' = side /\ position' = position
        /\ nodes' = [nodes EXCEPT ![j].empty = (side[t] = "pop")] /\ GoesOn(t, "countOther", step[t].object, j)
    BY GoIs DEF SetFlag
  <1>2. /\ j \in NodesOfRing /\ Holds(t) /\ Ready(j, side[t]) /\ Ahead(j, Place(o)) >= Untaken(o)
        /\ side[t] = Many(o) /\ side[o] # Many(o) /\ side[o] \in Sides /\ Many(o) \in Sides
    <2>1. Holds(t)
      BY <1>1 DEF Holds, WithNode
    <2> QED
      BY <2>1, RingFacts, SideIs DEF RingHeld
  <1>3. \A i \in NodesOfRing : nodes'[i].empty = IF i = j THEN side[t] = "pop" ELSE nodes[i].empty
    <2>1. nodes \in [NodesOfRing -> [object : 0 .. MaxObject, empty : BOOLEAN]]
      BY DEF QueueTypeOK, NodesOfRing
    <2> QED
      BY <1>1, <1>2, <2>1
  <1>4. step'[o] = step[o] /\ (\A u \in Users \ {o, t} : step'[u] = step[u]) /\ step'[t].op = "countOther"
    BY <1>1 DEF GoesOn
  <1>5. Ready(j, side[o])' /\ \A i \in NodesOfRing : i # j => \A s : Ready(i, s)' <=> Ready(i, s)
    <2>1. Ready(j, side[o])'
      <3>1. nodes'[j].empty <=> side[t] = "pop"
        BY <1>2, <1>3
      <3>2. side[t] = "pop" <=> side[o] = "push"
        BY <1>2 DEF Sides
      <3> QED
        BY <1>1, <3>1, <3>2 DEF Ready
    <2> QED
      BY <1>3, <2>1 DEF Ready
  <1>6. \A u \in Users \ {o} : Holds(u)' <=> u # t /\ Holds(u)
    BY <1>4 DEF Holds, WithNode
  <1>7. \A u \in Users \ {o} : u # t /\ Holds(u) => step[u].at # j /\ step[u].at \in NodesOfRing /\ step'[u] = step[u]
    BY <1>2, <1>4, RingFacts DEF RingHeld
  <1>8. Place(o)' = Place(o) /\ Base(o)' = Base(o) /\ (HasPosition(o)' <=> HasPosition(o))
    BY <1>1, <1>4 DEF Place, Many, Base, HasPosition, Holds
  <1>9. ~Ready(j, side[o])
    BY <1>2 DEF RingHeld
  <1>10. RingPlaces(o)'
    <2>1. step'[o].op \in {"object", "flag"} => Ready(step[o].at, side[o])'
      <3> SUFFICES ASSUME step[o].op \in {"object", "flag"} PROVE Ready(step[o].at, side[o])'
        BY <1>4
      <3> PICK i : i = step[o].at
        OBVIOUS
      <3>1. Ready(i, side[o]) /\ i \in NodesOfRing /\ i # j
        BY <1>9, RingFacts DEF RingPlaces, Holds, WithNode
      <3>2. nodes'[i].empty = nodes[i].empty
        BY <1>3, <3>1
      <3>3. step'[o].at = i /\ side'[o] = side[o]
        BY <1>1, <1>4
      <3> QED
        BY <3>1, <3>2, <3>3 DEF Ready
    <2>2. \A u \in Users \ {o} : step'[u].op \notin {"read", "write"}
      BY <1>4 DEF RingPlaces
    <2> QED
      BY <1>1, <1>4, <1>8, <2>1, <2>2 DEF RingPlaces
  <1>11. RingHeld(o)'
    <2>1. ASSUME NEW u \in Users \ {o}, Holds(u)'
          PROVE  Ahead(step'[u].at, Place(o)) >= Untaken(o) /\ Ready(step[u].at, side[u])'
      BY <1>1, <1>5, <1>6, <1>7, <2>1 DEF RingHeld
    <2>2. \A u, v \in Users \ {o} : Holds(u)' /\ Holds(v)' /\ step'[u].at = step'[v].at => u = v
      BY <1>6, <1>7 DEF RingHeld
    <2>3. ASSUME NEW i \in NodesOfRing
          PROVE  Ready(i, side[o])' <=> /\ Ahead(i, Place(o)) >= Untaken(o)
                                         /\ \A u \in Users \ {o} : Holds(u)' => step'[u].at # i
      <3>1. Ready(i, side[o]) <=> /\ Ahead(i, Place(o)) >= Untaken(o)
                                  /\ \A u \in Users \ {o} : Holds(u) => step[u].at # i
        BY DEF RingHeld
      <3>2. CASE i = j
        BY <1>1, <1>2, <1>5, <1>6, <1>7, <3>2 DEF Ready
      <3>3. CASE i # j
        <4>1. (\A u \in Users \ {o} : Holds(u)' => step'[u].at # i) <=> (\A u \in Users \ {o} : Holds(u) => step[u].at # i)
          BY <1>6, <1>7, <3>3
        <4>2. Ready(i, side[o])' <=> Ready(i, side[o])
          BY <1>1, <1>5, <3>3
        <4> QED
          BY <3>1, <4>1, <4>2
      <3> QED
        BY <3>2, <3>3
    <2> QED
      BY <1>8, <2>1, <2>2, <2>3 DEF RingHeld
  <1> QED
    BY <1>10, <1>11

\* The one alone takes a position, which it may have to give back.
LEMMA OneTakes ==
  ASSUME Few, QueueTypeOK, NEW o \in Users, AloneAt(o), RingCounts(o), RingPlaces(o), RingHeld(o),
         TakePosition(o), Untaken(o)' = Untaken(o)
  PROVE  RingPlaces(o)' /\ RingHeld(o)'
  <1> DEFINE b == position[side[o]] % Size
  <1>1. /\ step[o].op = "position" /\ side' = side /\ nodes' = nodes /\ GoesOn(o, "look", step[o].object, b)
        /\ position' = [position EXCEPT ![side[o]] = (@ + 1) % Wrap]
    BY GoIs DEF TakePosition
  <1>2. /\ position'[side[o]] % Size = Following(b) /\ Place(o)' = Place(o) /\ Many(o)' = Many(o)
    <2>1. position \in [Sides -> 0 .. Wrap - 1] /\ Many(o) \in Sides /\ side[o] \in Sides /\ side[o] # Many(o)
      BY SideIs DEF QueueTypeOK
    <2>2. position'[side[o]] = (position[side[o]] + 1) % Wrap /\ position'[Many(o)] = position[Many(o)]
      BY <1>1, <2>1
    <2>3. ((position[side[o]] + 1) % Wrap) % Size = Following(position[side[o]] % Size)
      BY <2>1, NextPlace
    <2> QED
      BY <1>1, <2>2, <2>3 DEF Place, Many
  <1>3. Base(o) = b
    BY <1>1 DEF Base, Holds, WithNode
  <1> HIDE DEF b
  <1>4. step'[o].op = "look" /\ step'[o].at = b /\ \A u \in Users \ {o} : step'[u] = step[u]
    BY <1>1 DEF GoesOn
  <1>5. Base(o)' = b
    BY <1>4 DEF Base, Holds, WithNode
  <1>6. RingPlaces(o)'
    BY <1>1, <1>2, <1>3, <1>4, <1>5 DEF RingPlaces
  <1>7. RingHeld(o)'
    <2>1. \A u \in Users \ {o} : (Holds(u)' <=> Holds(u)) /\ (Holds(u) => step'[u].at = step[u].at)
      BY <1>4 DEF Holds
    <2> QED
      BY <1>1, <1>2, <2>1, RingFacts, HeldStay
  <1> QED
    BY <1>6, <1>7

\* The one alone makes the node at its base ready for the many.
LEMMA OneFlags ==
  ASSUME Few, QueueTypeOK, NEW o \in Users, AloneAt(o), RingCounts(o), RingPlaces(o), RingHeld(o),
         SetFlag(o), Untaken(o)' = Untaken(o) + 1
  PROVE  RingPlaces(o)' /\ RingHeld(o)'
  <1> PICK j : j = step[o].at
    OBVIOUS
  <1> DEFINE m == Place(o)
             k == Untaken(o)
  <1>1. /\ step[o].op = "flag" /\ side' = side /\ position' = position
        /\ nodes' = [nodes EXCEPT ![j].empty = (side[o] = "pop")] /\ GoesOn(o, "countOther", step[o].object, j)
    BY GoIs DEF SetFlag
  <1>2. /\ Holds(o) /\ j \in NodesOfRing /\ Ready(j, side[o]) /\ Base(o) = j /\ j = Onward(m, k)
        /\ Following(j) = position[side[o]] % Size
        /\ m \in NodesOfRing /\ k \in 0 .. Size /\ k < Size
        /\ side[o] # Many(o) /\ side[o] \in Sides /\ Many(o) \in Sides
        /\ \A u \in Users \ {o} : side[u] = Many(o)
    <2>1. Holds(o)
      BY <1>1 DEF Holds, WithNode
    <2>2. Base(o) = j /\ HasPosition(o)
      BY <2>1 DEF Base, HasPosition
    <2>3. k < Size /\ k \in 0 .. Size
      BY <1>1, UntakenIs
    <2> QED
      BY <1>1, <2>1, <2>2, <2>3, RingFacts, SideIs DEF RingPlaces
  <1>3. \A i \in NodesOfRing : nodes'[i].empty = IF i = j THEN side[o] = "pop" ELSE nodes[i].empty
    <2>1. nodes \in [NodesOfRing -> [object : 0 .. MaxObject, empty : BOOLEAN]]
      BY DEF QueueTypeOK, NodesOfRing
    <2> QED
      BY <1>1, <1>2, <2>1
  <1> HIDE DEF m, k
  <1>4. (\A u \in Users \ {o} : step'[u] = step[u]) /\ step'[o].op = "countOther"
    BY <1>1 DEF GoesOn
  <1>5. ~Ready(j, side[o])' /\ \A i \in NodesOfRing : i # j => \A s : Ready(i, s)' <=> Ready(i, s)
    <2>1. ~Ready(j, side[o])'
      <3>1. nodes'[j].empty <=> side[o] = "pop"
        BY <1>2, <1>3
      <3>2. side[o] = "pop" <=> side[o] # "push"
        BY <1>2 DEF Sides
      <3> QED
        BY <1>1, <3>1, <3>2 DEF Ready
    <2> QED
      BY <1>3, <2>1 DEF Ready
  <1>6. Place(o)' = m /\ Untaken(o)' = k + 1 /\ Base(o)' = Following(j) /\ ~HasPosition(o)' /\ Many(o)' = Many(o)
    BY <1>1, <1>2, <1>4 DEF Place, Many, Base, HasPosition, Holds, WithNode, m, k
  <1>7. Ahead(j, m) = k /\ Onward(m, k + 1) = Following(j) /\ \A i \in NodesOfRing : Ahead(i, m) = k => i = j
    <2>1. k \in NodesOfRing
      BY <1>2, QueueAssumption DEF NodesOfRing
    <2>2. j = Onward(m, k) /\ m \in NodesOfRing /\ k \in 0 .. Size /\ k < Size
      BY <1>2
    <2>3. Ahead(j, m) = k /\ Onward(m, k + 1) = Following(j)
      BY <2>2, OnwardIs
    <2>4. \A i \in NodesOfRing : Ahead(i, m) = k => i = j
      BY <2>1, <2>2, AheadIs
    <2> QED
      BY <2>3, <2>4
  <1>8. RingPlaces(o)'
    <2>1. Base(o)' = Onward(Place(o)', Untaken(o)')
      BY <1>6, <1>7
    <2>2. step'[o].op \notin {"write", "object", "flag"}
      BY <1>4
    <2>3. \A u \in Users \ {o} : step'[u].op \notin {"read", "write"}
      BY <1>4 DEF RingPlaces
    <2> QED
      BY <1>6, <2>1, <2>2, <2>3 DEF RingPlaces
  <1>9. \A i \in NodesOfRing : Ahead(i, m) >= k + 1 <=> Ahead(i, m) >= k /\ i # j
    <2> SUFFICES ASSUME NEW i \in NodesOfRing PROVE Ahead(i, m) >= k + 1 <=> Ahead(i, m) >= k /\ i # j
      OBVIOUS
    <2>1. Ahead(i, m) \in Nat /\ k \in Nat
      BY <1>2, AheadIs DEF NodesOfRing
    <2> QED
      BY <1>7, <2>1
  <1>10. \A u \in Users \ {o} : /\ Holds(u)' <=> Holds(u)
                                /\ step'[u].at = step[u].at
                                /\ Holds(u) => step[u].at \in NodesOfRing /\ step[u].at # j
    <2> SUFFICES ASSUME NEW u \in Users \ {o}
                 PROVE  /\ Holds(u)' <=> Holds(u)
                        /\ step'[u].at = step[u].at
                        /\ Holds(u) => step[u].at \in NodesOfRing /\ step[u].at # j
      OBVIOUS
    <2>1. (Holds(u)' <=> Holds(u)) /\ step'[u].at = step[u].at /\ (Holds(u) => step[u].at \in NodesOfRing)
      BY <1>4, RingFacts DEF Holds
    <2>2. Holds(u) => step[u].at # j
      BY <1>2 DEF RingHeld
    <2> QED
      BY <2>1, <2>2
  <1>11. RingHeld(o)'
    <2>1. ASSUME NEW u \in Users \ {o}, Holds(u)'
          PROVE  Ahead(step'[u].at, m) >= k + 1 /\ Ready(step[u].at, side[u])'
      <3>1. Holds(u) /\ step[u].at \in NodesOfRing /\ step[u].at # j /\ step'[u].at = step[u].at
        BY <1>10, <2>1
      <3>2. Ahead(step[u].at, m) >= k /\ Ready(step[u].at, side[u])
        BY <3>1 DEF RingHeld, m, k
      <3> QED
        BY <1>1, <1>5, <1>9, <3>1, <3>2
    <2>2. \A u, v \in Users \ {o} : Holds(u)' /\ Holds(v)' /\ step'[u].at = step'[v].at => u = v
      BY <1>10 DEF RingHeld
    <2>3. ASSUME NEW i \in NodesOfRing
          PROVE  Ready(i, side[o])' <=> /\ Ahead(i, m) >= k + 1
                                         /\ \A u \in Users \ {o} : Holds(u)' => step'[u].at # i
      <3>1. Ready(i, side[o]) <=> /\ Ahead(i, m) >= k
                                  /\ \A u \in Users \ {o} : Holds(u) => step[u].at # i
        BY DEF RingHeld, m, k
      <3>2. (\A u \in Users \ {o} : Holds(u)' => step'[u].at # i) <=> (\A u \in Users \ {o} : Holds(u) => step[u].at # i)
        BY <1>10
      <3>3. CASE i = j
        BY <1>1, <1>5, <1>9, <3>3 DEF Ready
      <3>4. CASE i # j
        <4>1. Ready(i, side[o])' <=> Ready(i, side[o])
          BY <1>1, <1>5, <3>4
        <4> QED
          BY <1>9, <3>1, <3>2, <3>4, <4>1
      <3> QED
        BY <3>3, <3>4
    <2> QED
      BY <1>6, <2>1, <2>2, <2>3 DEF RingHeld
  <1> QED
    BY <1>8, <1>11

\* The one alone gives its position back.
LEMMA OneGivesBack ==
  ASSUME Few, QueueTypeOK, NEW o \in Users, AloneAt(o), RingCounts(o), RingPlaces(o), RingHeld(o),
         ReadPosition(o) \/ WritePosition(o), Untaken(o)' = Untaken(o)
  PROVE  RingPlaces(o)' /\ RingHeld(o)'
  <1>1. /\ side' = side /\ nodes' = nodes
        /\ \E op \in {"write", "countOut"} : \E i : GoesOn(o, op, step[o].object, i)
    BY GoIs DEF ReadPosition, WritePosition
  <1>2. /\ position \in [Sides -> 0 .. Wrap - 1] /\ Many(o) \in Sides /\ side[o] \in Sides /\ side[o] # Many(o)
        /\ \A u \in Users \ {o} : step'[u] = step[u]
    BY <1>1, SideIs DEF QueueTypeOK, GoesOn
  <1>3. /\ Place(o)' = Place(o) /\ Base(o)' = Base(o)
        /\ HasPosition(o)' => Following(Base(o)') = position'[side'[o]] % Size
        /\ step'[o].op = "write" => step'[o].at = position'[side'[o]]
        /\ step'[o].op \in {"write", "countOut"}
    <2>1. CASE ReadPosition(o)
      <3>1. step[o].op = "read" /\ position' = position /\ GoesOn(o, "write", step[o].object, position[side[o]])
        BY <2>1, GoIs DEF ReadPosition
      <3>2. step'[o].op = "write" /\ step'[o].at = position[side[o]]
        BY <3>1 DEF GoesOn
      <3>3. /\ ((position[side[o]] - 1) % Wrap) % Size \in NodesOfRing
            /\ Following(((position[side[o]] - 1) % Wrap) % Size) = position[side[o]] % Size
        BY <1>2, PlaceBefore
      <3>4. Base(o)' = ((position[side[o]] - 1) % Wrap) % Size
        BY <3>2 DEF Base, Holds, WithNode
      <3>5. Following(Base(o)) = position[side[o]] % Size /\ Base(o) \in NodesOfRing
        BY <3>1, RingFacts DEF RingPlaces, HasPosition
      <3>6. Base(o)' = Base(o)
        BY <3>3, <3>4, <3>5, AheadIs
      <3> QED
        BY <1>1, <3>1, <3>2, <3>5, <3>6 DEF Place, Many
    <2>2. CASE WritePosition(o)
      <3>1. /\ step[o].op = "write" /\ position' = [position EXCEPT ![side[o]] = (step[o].at - 1) % Wrap]
            /\ GoesOn(o, "countOut", step[o].object, 0)
        BY <2>2, GoIs DEF WritePosition
      <3>2. step'[o].op = "countOut"
        BY <3>1 DEF GoesOn
      <3>3. position'[side[o]] = (step[o].at - 1) % Wrap /\ position'[Many(o)] = position[Many(o)]
        BY <1>2, <3>1
      <3>4. Base(o)' = position'[side[o]] % Size /\ ~HasPosition(o)'
        BY <1>1, <3>2 DEF Base, HasPosition, Holds, WithNode
      <3>5. Base(o) = ((step[o].at - 1) % Wrap) % Size
        BY <3>1 DEF Base, Holds, WithNode
      <3> QED
        BY <1>1, <3>2, <3>3, <3>4, <3>5 DEF Place, Many
    <2> QED
      BY <2>1, <2>2
  <1>4. RingPlaces(o)'
    <2>1. \A u \in Users \ {o} : step'[u].op \notin {"read", "write"}
      BY <1>2 DEF RingPlaces
    <2>2. step'[o].op \notin {"object", "flag"}
      BY <1>3
    <2>3. Base(o)' = Onward(Place(o)', Untaken(o)')
      BY <1>3 DEF RingPlaces
    <2> QED
      BY <1>3, <2>1, <2>2, <2>3 DEF RingPlaces
  <1>5. RingHeld(o)'
    <2>1. \A u \in Users \ {o} : (Holds(u)' <=> Holds(u)) /\ (Holds(u) => step'[u].at = step[u].at)
      BY <1>2 DEF Holds
    <2> QED
      BY <1>1, <1>3, <2>1, RingFacts, HeldStay
  <1> QED
    BY <1>4, <1>5

\* Steps that move nobody on the ring.
LEMMA RingStays ==
  ASSUME Few, QueueTypeOK, NEW o \in Users, AloneAt(o), RingCounts(o), RingPlaces(o), RingHeld(o),
         side' = side, Untaken(o)' = Untaken(o), position' = position,
         \A j \in NodesOfRing : nodes'[j].empty = nodes[j].empty,
         NEW t \in Users, NEW op, NEW x, NEW i, GoesOn(t, op, x, i),
         t # o => /\ op \notin {"read", "write"} /\ (op \in WithNode <=> step[t].op \in WithNode)
                  /\ op \in WithNode => i = step[t].at,
         t = o => \/ step[o].op \in Placeless /\ op \in Placeless
                  \/ /\ step[o].op \in {"look", "object"} /\ op \in {"object", "flag", "read"} /\ i = step[o].at
                     /\ op # "read" => Ready(i, side[o])
  PROVE  RingPlaces(o)' /\ RingHeld(o)'
  <1>1. \A u \in Users : Holds(u) => step[u].at \in NodesOfRing
    BY RingFacts
  <1>2. RingPlaces(o)' /\ Place(o)' = Place(o)
    BY <1>1, PlacesStay
  <1>3. \A u \in Users \ {o} : (Holds(u)' <=> Holds(u)) /\ (Holds(u) => step'[u].at = step[u].at)
    BY DEF Holds, GoesOn
  <1>4. RingHeld(o)'
    BY <1>1, <1>2, <1>3, HeldStay
  <1> QED
    BY <1>2, <1>4

\* Every step keeps counts, positions and the nodes that are held in order.
LEMMA RingKeeps ==
  ASSUME Few, QueueTypeOK, NEW o \in Users, AloneAt(o), RingCounts(o), RingPlaces(o), RingHeld(o),
         NEW t \in Users, QueueStep(t)
  PROVE  AloneAt(o)' /\ RingCounts(o)' /\ RingPlaces(o)' /\ RingHeld(o)'
  <1>1. side' = side
    BY DEF QueueStep, Begin, CountIn, TakePosition, LookAtNode, ReadPosition, WritePosition, CountOut,
           UseObject, SetFlag, CountOther
  <1>2. AloneAt(o)'
    BY <1>1 DEF AloneAt
  <1>3. CASE Begin(t)
    <2>1. PICK x : Go(t, "countIn", x, 0)
      BY <1>3 DEF Begin
    <2>2. GoesOn(t, "countIn", x, 0)
      BY <2>1, GoIs
    <2>3. step[t].op = "none" /\ able' = able /\ able[side[t]] > 0 /\ nodes' = nodes /\ position' = position
      BY <1>3 DEF Begin
    <2>4. QueueSteps(t, "countIn")
      BY <1>1, <2>2 DEF QueueSteps
    <2>5. RingCounts(o)' /\ Untaken(o)' = Untaken(o)
      BY <2>3, <2>4, RingCountsBegin
    <2>6. "countIn" \notin {"read", "write"} /\ "countIn" \notin WithNode /\ step[t].op \notin WithNode
          /\ "countIn" \in Placeless /\ step[t].op \in Placeless
      BY <2>3 DEF WithNode, Placeless
    <2>7. RingPlaces(o)' /\ RingHeld(o)'
      BY <1>1, <2>2, <2>3, <2>5, <2>6, RingStays
    <2> QED
      BY <1>2, <2>5, <2>7
  <1>4. CASE CountIn(t)
    <2> DEFINE op == IF able[side[t]] # 0 THEN "position" ELSE "countOut"
    <2>1. /\ Go(t, op, step[t].object, 0) /\ step[t].op = "countIn" /\ able' = [able EXCEPT ![side[t]] = @ - 1]
          /\ nodes' = nodes /\ position' = position
      BY <1>4 DEF CountIn
    <2>2. GoesOn(t, op, step[t].object, 0)
      BY <2>1, GoIs
    <2>3. QueueSteps(t, op)
      BY <1>1, <2>2 DEF QueueSteps
    <2>4. RingCounts(o)' /\ Untaken(o)' = Untaken(o)
      BY <2>1, <2>3, RingCountsIn
    <2>5. op \notin {"read", "write"} /\ op \notin WithNode /\ step[t].op \notin WithNode /\ op \in Placeless /\ step[t].op \in Placeless
      BY <2>1 DEF WithNode, Placeless
    <2> HIDE DEF op
    <2>6. RingPlaces(o)' /\ RingHeld(o)'
      BY <1>1, <2>1, <2>2, <2>4, <2>5, RingStays
    <2> QED
      BY <1>2, <2>4, <2>6
  <1>5. CASE TakePosition(t)
    <2>1. /\ Go(t, "look", step[t].object, position[side[t]] % Size) /\ step[t].op = "position" /\ able' = able
      BY <1>5 DEF TakePosition
    <2>2. QueueSteps(t, "look")
      BY <1>1, <2>1, GoIs DEF QueueSteps
    <2>3. "look" \notin {"none", "countIn"} /\ step[t].op \notin {"none", "countIn", "countOut"}
      BY <2>1
    <2>4. RingCounts(o)' /\ Untaken(o)' = Untaken(o) + ReservedBy(t, o, "look") - ReservedBy(t, o, step[t].op)
      BY <2>1, <2>2, <2>3, RingCountsStay
    <2>5. Untaken(o) \in Int
      BY UntakenIs
    <2>6. CASE t = o
      <3>1. Untaken(o)' = Untaken(o)
        BY <2>1, <2>4, <2>5, <2>6 DEF ReservedBy, Reserves
      <3> QED
        BY <1>2, <1>5, <2>4, <2>6, <3>1, OneTakes
    <2>7. CASE t # o
      <3>1. Untaken(o)' = Untaken(o) - 1
        BY <2>1, <2>4, <2>5, <2>7 DEF ReservedBy, Reserves
      <3> QED
        BY <1>2, <1>5, <2>4, <2>7, <3>1, ManyTake
    <2> QED
      BY <2>6, <2>7
  <1>6. CASE LookAtNode(t)
    <2> DEFINE i == step[t].at
               op == IF nodes[i].empty = (side[t] = "push") THEN "object" ELSE "read"
    <2>1. /\ Go(t, op, step[t].object, i) /\ step[t].op = "look" /\ able' = able
          /\ nodes' = nodes /\ position' = position
      BY <1>6 DEF LookAtNode
    <2>2. GoesOn(t, op, step[t].object, i)
      BY <2>1, GoIs
    <2>3. op \in {"object", "read"}
      OBVIOUS
    <2>4. /\ op \notin {"none", "countIn"} /\ step[t].op \notin {"none", "countIn", "countOut"}
          /\ ReservedBy(t, o, op) = 0 /\ ReservedBy(t, o, step[t].op) = 0
      BY <2>1, <2>3 DEF ReservedBy, Reserves
    <2>5. QueueSteps(t, op)
      BY <1>1, <2>2 DEF QueueSteps
    <2>6. RingCounts(o)' /\ Untaken(o)' = Untaken(o)
      <3> HIDE DEF op
      <3>1. RingCounts(o)' /\ Untaken(o)' = Untaken(o) + ReservedBy(t, o, op) - ReservedBy(t, o, step[t].op)
        BY <2>1, <2>4, <2>5, RingCountsStay
      <3> QED
        BY <2>4, <3>1, UntakenIs
    <2>7. op = "object" <=> Ready(i, side[t])
      <3>1. nodes[i].empty \in BOOLEAN
        BY <2>1, RingFacts DEF Holds, WithNode
      <3> QED
        BY <3>1 DEF Ready
    <2>8. t # o => op = "object"
      <3>1. t # o => Ready(i, side[t])
        BY <2>1 DEF RingHeld, Holds, WithNode
      <3> QED
        BY <2>7, <3>1
    <2>9. /\ t # o => op \notin {"read", "write"} /\ (op \in WithNode <=> step[t].op \in WithNode)
                      /\ (op \in WithNode => i = step[t].at)
          /\ t = o => /\ step[o].op \in {"look", "object"} /\ op \in {"object", "flag", "read"} /\ i = step[o].at
                      /\ op # "read" => Ready(i, side[o])
      BY <2>1, <2>3, <2>7, <2>8 DEF WithNode
    <2> HIDE DEF op
    <2>10. RingPlaces(o)' /\ RingHeld(o)'
      <3> HIDE DEF i
      <3>1. i = step[t].at
        BY DEF i
      <3> QED
        BY <1>1, <2>1, <2>2, <2>6, <2>9, RingStays
    <2> QED
      BY <1>2, <2>6, <2>10
  <1>7. CASE ReadPosition(t) \/ WritePosition(t)
    <2>1. step[t].op \in {"read", "write"}
      BY <1>7 DEF ReadPosition, WritePosition
    <2>2. t = o
      BY <2>1 DEF RingPlaces
    <2>3. PICK op \in {"write", "countOut"} : \E x, i : GoesOn(t, op, x, i)
      BY <1>7, GoIs DEF ReadPosition, WritePosition
    <2>4. able' = able
      BY <1>7 DEF ReadPosition, WritePosition
    <2>5. QueueSteps(t, op)
      BY <1>1, <2>3 DEF QueueSteps
    <2>6. op \notin {"none", "countIn"} /\ step[t].op \notin {"none", "countIn", "countOut"}
      BY <2>1, <2>3
    <2>7. RingCounts(o)' /\ Untaken(o)' = Untaken(o) + ReservedBy(t, o, op) - ReservedBy(t, o, step[t].op)
      BY <2>4, <2>5, <2>6, RingCountsStay
    <2>8. ReservedBy(t, o, op) = 0 /\ ReservedBy(t, o, step[t].op) = 0 /\ Untaken(o) \in Int
      BY <2>1, <2>2, <2>3, UntakenIs DEF ReservedBy, Reserves
    <2>9. Untaken(o)' = Untaken(o)
      BY <2>7, <2>8
    <2> QED
      BY <1>2, <1>7, <2>2, <2>7, <2>9, OneGivesBack
  <1>8. CASE CountOut(t)
    <2>1. /\ Go(t, "none", step[t].object, 0) /\ step[t].op = "countOut" /\ able' = [able EXCEPT ![side[t]] = @ + 1]
          /\ nodes' = nodes /\ position' = position
      BY <1>8 DEF CountOut
    <2>2. GoesOn(t, "none", step[t].object, 0)
      BY <2>1, GoIs
    <2>3. QueueSteps(t, "none")
      BY <1>1, <2>2 DEF QueueSteps
    <2>4. side[t] \in Sides
      BY DEF QueueTypeOK
    <2>5. RingCounts(o)' /\ Untaken(o)' = Untaken(o)
      BY <2>1, <2>3, <2>4, RingCountsOut
    <2>6. "none" \notin {"read", "write"} /\ "none" \notin WithNode /\ step[t].op \notin WithNode
          /\ "none" \in Placeless /\ step[t].op \in Placeless
      BY <2>1 DEF WithNode, Placeless
    <2>7. RingPlaces(o)' /\ RingHeld(o)'
      BY <1>1, <2>1, <2>2, <2>5, <2>6, RingStays
    <2> QED
      BY <1>2, <2>5, <2>7
  <1>9. CASE UseObject(t)
    <2>1. /\ step[t].op = "object" /\ able' = able /\ position' = position
          /\ \E x : Go(t, "flag", x, step[t].at)
      BY <1>9 DEF UseObject
    <2>2. PICK x : GoesOn(t, "flag", x, step[t].at)
      BY <2>1, GoIs
    <2>3. \A j \in NodesOfRing : nodes'[j].empty = nodes[j].empty
      <3>1. \E x1 : nodes' = [nodes EXCEPT ![step[t].at].object = x1]
        BY <1>9 DEF UseObject
      <3>2. nodes \in [NodesOfRing -> [object : 0 .. MaxObject, empty : BOOLEAN]]
        BY DEF QueueTypeOK, NodesOfRing
      <3> QED
        BY <3>1, <3>2
    <2>4. QueueSteps(t, "flag")
      BY <1>1, <2>2 DEF QueueSteps
    <2>5. /\ "flag" \notin {"none", "countIn"} /\ step[t].op \notin {"none", "countIn", "countOut"}
          /\ ReservedBy(t, o, "flag") = 0 /\ ReservedBy(t, o, step[t].op) = 0
      BY <2>1 DEF ReservedBy, Reserves
    <2>6. RingCounts(o)' /\ Untaken(o)' = Untaken(o) + ReservedBy(t, o, "flag") - ReservedBy(t, o, step[t].op)
      BY <2>1, <2>4, <2>5, RingCountsStay
    <2>7. Untaken(o)' = Untaken(o)
      BY <2>5, <2>6, UntakenIs
    <2>8. /\ t # o => "flag" \notin {"read", "write"} /\ ("flag" \in WithNode <=> step[t].op \in WithNode)
          /\ t = o => step[o].op \in {"look", "object"} /\ "flag" \in {"object", "flag", "read"}
                      /\ Ready(step[t].at, side[o])
      BY <2>1 DEF WithNode, RingPlaces
    <2> PICK i : i = step[t].at
      OBVIOUS
    <2>9. RingPlaces(o)' /\ RingHeld(o)'
      BY <1>1, <2>1, <2>2, <2>3, <2>7, <2>8, RingStays
    <2> QED
      BY <1>2, <2>6, <2>9
  <1>10. CASE SetFlag(t)
    <2>1. /\ Go(t, "countOther", step[t].object, step[t].at) /\ step[t].op = "flag" /\ able' = able
      BY <1>10 DEF SetFlag
    <2>2. QueueSteps(t, "countOther")
      BY <1>1, <2>1, GoIs DEF QueueSteps
    <2>3. "countOther" \notin {"none", "countIn"} /\ step[t].op \notin {"none", "countIn", "countOut"}
      BY <2>1
    <2>4. RingCounts(o)' /\ Untaken(o)' = Untaken(o) + ReservedBy(t, o, "countOther") - ReservedBy(t, o, step[t].op)
      BY <2>1, <2>2, <2>3, RingCountsStay
    <2>5. Untaken(o) \in Int
      BY UntakenIs
    <2>6. CASE t = o
      <3>1. Untaken(o)' = Untaken(o) + 1
        BY <2>1, <2>4, <2>5, <2>6 DEF ReservedBy, Reserves
      <3> QED
        BY <1>2, <1>10, <2>4, <2>6, <3>1, OneFlags
    <2>7. CASE t # o
      <3>1. Untaken(o)' = Untaken(o)
        BY <2>1, <2>4, <2>5, <2>7 DEF ReservedBy, Reserves
      <3> QED
        BY <1>2, <1>10, <2>4, <2>7, <3>1, ManyFlag
    <2> QED
      BY <2>6, <2>7
  <1>11. CASE CountOther(t)
    <2>1. /\ Go(t, "none", 0, 0) /\ step[t].op = "countOther" /\ able' = [able EXCEPT ![Other(side[t])] = @ + 1]
          /\ nodes' = nodes /\ position' = position
      BY <1>11 DEF CountOther
    <2>2. GoesOn(t, "none", 0, 0)
      BY <2>1, GoIs
    <2>3. QueueSteps(t, "none")
      BY <1>1, <2>2 DEF QueueSteps
    <2>4. Other(side[t]) \in Sides
      BY DEF QueueTypeOK, Other, Sides
    <2>5. RingCounts(o)' /\ Untaken(o)' = Untaken(o)
      BY <2>1, <2>3, <2>4, RingCountsOut
    <2>6. "none" \notin {"read", "write"} /\ "none" \notin WithNode /\ step[t].op \notin WithNode
          /\ "none" \in Placeless /\ step[t].op \in Placeless
      BY <2>1 DEF WithNode, Placeless
    <2>7. RingPlaces(o)' /\ RingHeld(o)'
      BY <1>1, <2>1, <2>2, <2>5, <2>6, RingStays
    <2> QED
      BY <1>2, <2>5, <2>7
  <1> QED
    BY <1>3, <1>4, <1>5, <1>6, <1>7, <1>8, <1>9, <1>10, <1>11 DEF QueueStep

-----------------------------------------------------------------------------
(* Types.                                                                  *)
\* The counts stay within the ring, whichever threads are counted in.
LEMMA AbleWithin ==
  ASSUME Few, NEW o \in Users, side' \in [Users -> Sides], RingCounts(o)',
         able' \in [Sides -> Int]
  PROVE  able' \in [Sides -> -Cardinality(Users) .. Size]
  <1> DEFINE E == {t \in Users : step'[t].op \notin {"none", "countIn"}}
  <1>0. able'["push"] \in Int /\ able'["pop"] \in Int
    BY DEF Sides
  <1>1. IsFiniteSet(E) /\ Cardinality(E) \in Nat /\ Cardinality(Users) \in Nat /\ Cardinality(Users) >= 1
    <2>1. IsFiniteSet(E) /\ E \subseteq Users
      BY FS_Subset DEF Few
    <2>2. Cardinality(Users) # 0
      BY FS_EmptySet DEF Few
    <2> QED
      BY <2>1, <2>2, FS_CardinalityType DEF Few
  <1>2. (\E t \in Users : step'[t].op = "countOut") => Cardinality(E) >= 1
    <2> SUFFICES ASSUME NEW t \in Users, step'[t].op = "countOut" PROVE Cardinality(E) >= 1
      OBVIOUS
    <2>1. E # {}
      OBVIOUS
    <2> QED
      BY <1>1, <2>1, FS_EmptySet
  <1>3. Entered' = E
    BY DEF Entered
  <1> HIDE DEF E
  <1>4. /\ able'["push"] + able'["pop"] + Cardinality(E) = Size
        /\ able'[side'[o]] >= 0
        /\ able'[Other(side'[o])] >= 0 \/ (able'[Other(side'[o])] = -1 /\ Cardinality(E) >= 1)
    BY <1>2, <1>3 DEF RingCounts, Many
  <1>5. \/ side'[o] = "push" /\ Other(side'[o]) = "pop"
        \/ side'[o] = "pop" /\ Other(side'[o]) = "push"
    BY DEF Sides, Other
  <1>6. able'["push"] \in -Cardinality(Users) .. Size /\ able'["pop"] \in -Cardinality(Users) .. Size
    <2>1. Size \in Nat
      BY QueueAssumption
    <2>2. CASE able'["push"] >= 0 /\ able'["pop"] >= 0
      BY <1>0, <1>1, <1>4, <2>1, <2>2
    <2>3. CASE able'["push"] >= 0 /\ able'["pop"] = -1 /\ Cardinality(E) >= 1
      BY <1>0, <1>1, <1>4, <2>1, <2>3
    <2>4. CASE able'["pop"] >= 0 /\ able'["push"] = -1 /\ Cardinality(E) >= 1
      BY <1>0, <1>1, <1>4, <2>1, <2>4
    <2> QED
      BY <1>4, <1>5, <2>2, <2>3, <2>4
  <1> QED
    BY <1>6 DEF Sides

LEMMA StepTyped ==
  ASSUME QueueTypeOK, NEW t \in Users, NEW op \in QueueOps, NEW x \in 0 .. MaxObject, NEW i \in 0 .. Wrap - 1,
         Go(t, op, x, i), op \in WithNode => i < Size
  PROVE  /\ step' \in [Users -> [op : QueueOps, object : 0 .. MaxObject, at : 0 .. Wrap - 1]]
         /\ \A u \in Users : step'[u].op \in {"look", "object", "flag"} => step'[u].at < Size
  <1>1. step \in [Users -> [op : QueueOps, object : 0 .. MaxObject, at : 0 .. Wrap - 1]]
    BY DEF QueueTypeOK, QueueOps
  <1>2. step' = [step EXCEPT ![t] = [op |-> op, object |-> x, at |-> i]]
    BY DEF Go
  <1> QED
    BY <1>1, <1>2 DEF QueueTypeOK, WithNode

LEMMA NextObjectIs ==
  ASSUME Unused # {}
  PROVE  NextObject \in Unused
  <1>1. Unused \in SUBSET Nat
    BY QueueAssumption DEF Unused
  <1>2. \E x \in Unused : \A y \in Unused : x <= y
    BY <1>1, LeastNumber
  <1> QED
    BY <1>2 DEF NextObject

LEMMA PlaceFits ==
  ASSUME NEW x \in 0 .. Wrap - 1
  PROVE  x % Size \in 0 .. Wrap - 1 /\ x % Size < Size /\ 0 \in 0 .. Wrap - 1
  <1>1. Size \in Nat \ {0} /\ Wrap \in Nat \ {0} /\ x \in Nat /\ x < Wrap
    BY QueueAssumption
  <1>2. x % Size \in 0 .. Size - 1 /\ \E q \in Nat : x = q * Size + (x % Size)
    BY <1>1, Divides
  <1> DEFINE r == x % Size
  <1>3. PICK q \in Nat : x = q * Size + r
    BY <1>2
  <1>4. r \in 0 .. Size - 1
    BY <1>2
  <1> HIDE DEF r
  <1>5. q * Size \in Nat
    BY <1>1
  <1>6. r <= x
    BY <1>3, <1>4, <1>5
  <1>7. r \in 0 .. Wrap - 1 /\ r < Size
    BY <1>1, <1>4, <1>6
  <1> QED
    BY <1>1, <1>7 DEF r

LEMMA QueueTypesKeep ==
  ASSUME Few, QueueTypeOK, NEW o \in Users, AloneAt(o), RingCounts(o), RingPlaces(o), RingCounts(o)',
         NEW t \in Users, QueueStep(t)
  PROVE  QueueTypeOK'
  <1> DEFINE StepOK(s) == /\ s \in [Users -> [op : QueueOps, object : 0 .. MaxObject, at : 0 .. Wrap - 1]]
                          /\ \A u \in Users : s[u].op \in {"look", "object", "flag"} => s[u].at < Size
  <1>1. side' = side /\ side \in [Users -> Sides]
    BY DEF QueueTypeOK, QueueStep, Begin, CountIn, TakePosition, LookAtNode, ReadPosition, WritePosition, CountOut,
           UseObject, SetFlag, CountOther
  <1>2. /\ step[t].object \in 0 .. MaxObject /\ step[t].at \in 0 .. Wrap - 1
        /\ Holds(t) => step[t].at < Size /\ step[t].at \in NodesOfRing
        /\ 0 \in 0 .. MaxObject /\ 0 \in 0 .. Wrap - 1
    <2>1. step[t] \in [op : QueueOps, object : 0 .. MaxObject, at : 0 .. Wrap - 1]
      BY DEF QueueTypeOK, QueueOps
    <2>2. Holds(t) => step[t].at < Size
      BY DEF QueueTypeOK, Holds, WithNode
    <2>3. Holds(t) => step[t].at \in NodesOfRing
      BY RingFacts
    <2> QED
      BY <2>1, <2>2, <2>3, QueueAssumption
  <1>3. position \in [Sides -> 0 .. Wrap - 1] /\ side[t] \in Sides /\ position[side[t]] \in 0 .. Wrap - 1
    BY <1>1 DEF QueueTypeOK
  <1>4. nodes \in [NodesOfRing -> [object : 0 .. MaxObject, empty : BOOLEAN]]
    BY DEF QueueTypeOK, NodesOfRing
  <1>5. \A s \in {"none", "countIn", "position", "look", "read", "write", "countOut", "object", "flag", "countOther"} : s \in QueueOps
    BY DEF QueueOps
  <1>6. able' \in [Sides -> -Cardinality(Users) .. Size]
    <2>1. able \in [Sides -> Int] /\ Other(side[t]) \in Sides
      <3>1. \A c \in -Cardinality(Users) .. Size : c \in Int
        BY QueueAssumption, FS_CardinalityType DEF Few
      <3> QED
        BY <1>1, <3>1 DEF QueueTypeOK, Other, Sides
    <2>2. able' = able \/ \E s \in Sides : able' = [able EXCEPT ![s] = able[s] - 1] \/ able' = [able EXCEPT ![s] = able[s] + 1]
      BY <1>3, <2>1 DEF QueueStep, Begin, CountIn, TakePosition, LookAtNode, ReadPosition, WritePosition, CountOut,
             UseObject, SetFlag, CountOther
    <2>3. able' \in [Sides -> Int]
      BY <2>1, <2>2
    <2> QED
      BY <1>1, <2>3, AbleWithin
  <1>7. position' \in [Sides -> 0 .. Wrap - 1]
    <2>1. (position[side[t]] + 1) % Wrap \in 0 .. Wrap - 1 /\ (step[t].at - 1) % Wrap \in 0 .. Wrap - 1
      BY <1>2, <1>3, NextPlace, PlaceBefore
    <2>2. \/ position' = position
          \/ position' = [position EXCEPT ![side[t]] = (position[side[t]] + 1) % Wrap]
          \/ position' = [position EXCEPT ![side[t]] = (step[t].at - 1) % Wrap]
      BY DEF QueueStep, Begin, CountIn, TakePosition, LookAtNode, ReadPosition, WritePosition, CountOut,
             UseObject, SetFlag, CountOther
    <2> QED
      BY <1>3, <2>1, <2>2
  <1>8. nodes' \in [NodesOfRing -> [object : 0 .. MaxObject, empty : BOOLEAN]]
    <2>1. \/ nodes' = nodes
          \/ \E x \in 0 .. MaxObject : nodes' = [nodes EXCEPT ![step[t].at].object = x]
          \/ \E x \in BOOLEAN : nodes' = [nodes EXCEPT ![step[t].at].empty = x]
      <3>1. CASE UseObject(t)
        BY <1>2, <3>1 DEF UseObject
      <3>2. CASE SetFlag(t)
        BY <3>2 DEF SetFlag
      <3>3. CASE ~UseObject(t) /\ ~SetFlag(t)
        BY <3>3 DEF QueueStep, Begin, CountIn, TakePosition, LookAtNode, ReadPosition, WritePosition, CountOut, CountOther
      <3> QED
        BY <3>1, <3>2, <3>3
    <2> QED
      BY <1>4, <2>1
  <1>9. StepOK(step')
    <2>1. CASE Begin(t)
      <3>1. Unused # {} => NextObject \in 0 .. MaxObject
        BY NextObjectIs, QueueAssumption DEF Unused
      <3>2. PICK x \in 0 .. MaxObject : Go(t, "countIn", x, 0)
        BY <1>2, <2>1, <3>1 DEF Begin
      <3> QED
        BY <1>2, <1>5, <3>2, StepTyped DEF WithNode
    <2>2. CASE CountIn(t)
      <3>1. PICK op \in {"position", "countOut"} : Go(t, op, step[t].object, 0)
        BY <2>2 DEF CountIn
      <3> QED
        BY <1>2, <1>5, <3>1, StepTyped DEF WithNode
    <2>3. CASE TakePosition(t)
      <3>1. Go(t, "look", step[t].object, position[side[t]] % Size)
        BY <2>3 DEF TakePosition
      <3> QED
        BY <1>2, <1>3, <1>5, <3>1, StepTyped, PlaceFits
    <2>4. CASE LookAtNode(t)
      <3>1. PICK op \in {"object", "read"} : Go(t, op, step[t].object, step[t].at)
        BY <2>4 DEF LookAtNode
      <3>2. step[t].at < Size
        BY <1>2, <2>4 DEF LookAtNode, Holds, WithNode
      <3> QED
        BY <1>2, <1>5, <3>1, <3>2, StepTyped
    <2>5. CASE ReadPosition(t)
      <3>1. Go(t, "write", step[t].object, position[side[t]])
        BY <2>5 DEF ReadPosition
      <3> QED
        BY <1>2, <1>3, <1>5, <3>1, StepTyped DEF WithNode
    <2>6. CASE WritePosition(t) \/ CountOut(t) \/ CountOther(t)
      <3>1. PICK op \in {"none", "countOut"}, x \in 0 .. MaxObject : Go(t, op, x, 0)
        BY <1>2, <2>6 DEF WritePosition, CountOut, CountOther
      <3> QED
        BY <1>2, <1>5, <3>1, StepTyped DEF WithNode
    <2>7. CASE UseObject(t)
      <3>1. step[t].at < Size /\ step[t].at \in NodesOfRing
        BY <1>2, <2>7 DEF UseObject, Holds, WithNode
      <3>2. nodes[step[t].at].object \in 0 .. MaxObject
        BY <1>4, <3>1
      <3>3. PICK x \in 0 .. MaxObject : Go(t, "flag", x, step[t].at)
        BY <1>2, <2>7, <3>2 DEF UseObject
      <3> QED
        BY <1>2, <1>5, <3>1, <3>3, StepTyped
    <2>8. CASE SetFlag(t)
      <3>1. Go(t, "countOther", step[t].object, step[t].at)
        BY <2>8 DEF SetFlag
      <3> QED
        BY <1>2, <1>5, <3>1, StepTyped DEF WithNode
    <2> QED
      BY <2>1, <2>2, <2>3, <2>4, <2>5, <2>6, <2>7, <2>8 DEF QueueStep
  <1> HIDE DEF StepOK
  <1> QED
    BY <1>1, <1>6, <1>7, <1>8, <1>9 DEF QueueTypeOK, StepOK, QueueOps, NodesOfRing
-----------------------------------------------------------------------------
(* Objects.                                                                *)
AtNode == {"object", "flag"}

\* A thread that uses a node finds it ready and uses it alone.
NodesOwned ==
  /\ \A t \in Users : step[t].op \in AtNode =>
       step[t].at \in NodesOfRing /\ (nodes[step[t].at].empty <=> side[t] = "push")
  /\ \A t, u \in Users : step[t].op \in AtNode /\ step[u].op \in AtNode /\ step[t].at = step[u].at => t = u

LEMMA NodesAreOwned ==
  ASSUME Few, QueueTypeOK, NEW o \in Users, AloneAt(o), RingCounts(o), RingPlaces(o), RingHeld(o)
  PROVE  NodesOwned
  <1>1. \A t \in Users : step[t].op \in AtNode => Holds(t) /\ step[t].at \in NodesOfRing
    BY RingFacts DEF AtNode, Holds, WithNode
  <1>2. \A t \in Users : step[t].op \in AtNode => Ready(step[t].at, side[t])
    BY <1>1 DEF RingPlaces, RingHeld, AtNode
  <1>3. \A t, u \in Users \ {o} : step[t].op \in AtNode /\ step[u].op \in AtNode /\ step[t].at = step[u].at => t = u
    BY <1>1 DEF RingHeld
  <1>4. \A i : \A u \in Users \ {o} : ~(Ready(i, side[o]) /\ Ready(i, side[u]))
    BY SideIs DEF Ready, Sides
  <1>5. \A u \in Users \ {o} : step[o].op \in AtNode /\ step[u].op \in AtNode => step[o].at # step[u].at
    BY <1>2, <1>4
  <1>6. \A t, u \in Users : step[t].op \in AtNode /\ step[u].op \in AtNode /\ step[t].at = step[u].at => t = u
    BY <1>3, <1>5
  <1> QED
    BY <1>1, <1>2, <1>6 DEF NodesOwned, Ready

LEMMA AcceptedAppend ==
  ASSUME NEW x \in 1 .. MaxObject, pushed \in Seq(1 .. MaxObject), pushed' = Append(pushed, x)
  PROVE  Accepted' = Accepted \union {x} /\ pushed' \in Seq(1 .. MaxObject)
  <1>1. /\ Len(pushed) \in Nat /\ DOMAIN pushed = 1 .. Len(pushed)
        /\ pushed' \in Seq(1 .. MaxObject) /\ DOMAIN pushed' = 1 .. Len(pushed) + 1
        /\ \A i \in 1 .. Len(pushed) + 1 : pushed'[i] = IF i = Len(pushed) + 1 THEN x ELSE pushed[i]
    BY AppendProperties
  <1> DEFINE n == Len(pushed)
  <1>2. \A i : i \in 1 .. n + 1 <=> i \in 1 .. n \/ i = n + 1
    BY <1>1
  <1>3. n + 1 \notin 1 .. n
    BY <1>1
  <1> HIDE DEF n
  <1>4. Accepted' = {pushed'[i] : i \in 1 .. n + 1}
    BY <1>1 DEF Accepted, n
  <1>5. Accepted = {pushed[i] : i \in 1 .. n}
    BY <1>1 DEF Accepted, n
  <1>6. \A i \in 1 .. n + 1 : pushed'[i] = IF i = n + 1 THEN x ELSE pushed[i]
    BY <1>1 DEF n
  <1>7. Accepted' = Accepted \union {x}
    BY <1>2, <1>3, <1>4, <1>5, <1>6
  <1> QED
    BY <1>1, <1>7

\* Who is in Half and in Poppers after a step of t.
LEMMA HandsAre ==
  ASSUME NEW t \in Users, NEW op, NEW x, NEW i, GoesOn(t, op, x, i), side' = side
  PROVE  /\ \A u \in Users : u # t => (u \in Poppers' <=> u \in Poppers)
         /\ t \in Poppers' <=> side[t] = "pop" /\ op \in {"flag", "countOther"}
         /\ t \in Poppers <=> side[t] = "pop" /\ step[t].op \in {"flag", "countOther"}
         /\ \A y : y \in Half <=> \E u \in Users : side[u] = "push" /\ step[u].op = "flag" /\ step[u].object = y
         /\ \A y : y \in Half' <=> \/ side[t] = "push" /\ op = "flag" /\ x = y
                                   \/ \E u \in Users : u # t /\ side[u] = "push" /\ step[u].op = "flag" /\ step[u].object = y
         /\ Poppers' \subseteq Users /\ Poppers \subseteq Users
  <1>1. \A y : y \in Half <=> \E u \in Users : side[u] = "push" /\ step[u].op = "flag" /\ step[u].object = y
    BY DEF Half
  <1>2. \A y : y \in Half' <=> \E u \in Users : side[u] = "push" /\ step'[u].op = "flag" /\ step'[u].object = y
    BY DEF Half
  <1>3. \A y : y \in Half' <=> \/ side[t] = "push" /\ op = "flag" /\ x = y
                               \/ \E u \in Users : u # t /\ side[u] = "push" /\ step[u].op = "flag" /\ step[u].object = y
    BY <1>2 DEF GoesOn
  <1>4. /\ \A u \in Users : u # t => (u \in Poppers' <=> u \in Poppers)
        /\ t \in Poppers' <=> side[t] = "pop" /\ op \in {"flag", "countOther"}
        /\ t \in Poppers <=> side[t] = "pop" /\ step[t].op \in {"flag", "countOther"}
        /\ Poppers' \subseteq Users /\ Poppers \subseteq Users
    BY DEF Poppers, GoesOn
  <1> QED
    BY <1>1, <1>3, <1>4

LEMMA PoppersStay ==
  ASSUME NEW t \in Users, NEW op, NEW x, NEW i, GoesOn(t, op, x, i), side' = side,
         t \in Poppers' <=> t \in Poppers
  PROVE  Poppers' = Poppers /\ Poppers \subseteq Users
  <1>1. Poppers' \subseteq Users /\ Poppers \subseteq Users
    BY HandsAre
  <1>2. \A u \in Users : u # t => (u \in Poppers' <=> u \in Poppers)
    BY HandsAre
  <1>3. \A u : u \in Poppers' <=> u \in Poppers
    BY <1>1, <1>2
  <1> QED
    BY <1>1, <1>3

\* Steps that leave the objects where they are.
LEMMA ObjectsStay ==
  ASSUME RingObjects, RingOnce, NEW t \in Users, NEW op, NEW x, NEW i, GoesOn(t, op, x, i), side[t] \in Sides,
         side' = side, nodes' = nodes, pushed' = pushed, popped' = popped,
         op # "flag", step[t].op # "flag",
         side[t] = "pop" => op # "countOther" /\ step[t].op # "countOther",
         side[t] = "push" =>
           \/ op = "none" /\ x = 0
           \/ /\ op # "countOther" /\ x # 0 /\ x \notin Accepted
              /\ \A u \in Users : u # t /\ side[u] = "push" => step[u].object # x
  PROVE  RingObjects' /\ RingOnce'
  <1>1. Accepted' = Accepted
    BY DEF Accepted
  <1>2. Half' = Half
    <2>1. \A y : y \in Half' <=> y \in Half
      BY HandsAre
    <2> QED
      BY <2>1
  <1>3. Poppers' = Poppers /\ Poppers \subseteq Users /\ t \notin Poppers
    <2>1. t \notin Poppers /\ t \notin Poppers'
      BY HandsAre
    <2> QED
      BY <2>1, PoppersStay
  <1>4. \A u \in Users : u # t => step'[u] = step[u]
    BY DEF GoesOn
  <1>5. step'[t].op = op /\ step'[t].object = x
    BY DEF GoesOn
  <1>6. \A u \in Users : (step'[u].op = "flag" <=> step[u].op = "flag") /\ (step[u].op = "flag" => step'[u].at = step[u].at)
    BY <1>4, <1>5
  <1>7. \A u \in Poppers : step'[u].object = step[u].object
    BY <1>3, <1>4
  <1>8. \A u \in Users : side[u] = "push" =>
               /\ step'[u].op # "none" => step'[u].object # 0
               /\ step'[u].op # "countOther" /\ step'[u].object # 0 => step'[u].object \notin Accepted
               /\ step'[u].op = "flag" => nodes[step'[u].at].object = step'[u].object
    BY <1>4, <1>5 DEF RingObjects
  <1>9. \A u, v \in Users : side[u] = "push" /\ side[v] = "push" /\ step'[u].object = step'[v].object /\ step'[u].object # 0
               => u = v
    BY <1>4, <1>5 DEF RingObjects
  <1>10. \A u \in Poppers : step'[u].object # 0
    BY <1>7 DEF RingObjects
  <1>11. \A j \in NodesOfRing : nodes[j].object = 0 <=>
             IF nodes[j].empty THEN \A u \in Users : side[u] = "push" /\ step'[u].op = "flag" => step'[u].at # j
             ELSE \E u \in Users : side[u] = "pop" /\ step'[u].op = "flag" /\ step'[u].at = j
    <2> TAKE j \in NodesOfRing
    <2>1. CASE nodes[j].empty
      BY <1>6, <2>1 DEF RingObjects
    <2>2. CASE ~nodes[j].empty
      BY <1>6, <2>2 DEF RingObjects
    <2> QED
      BY <2>1, <2>2
  <1>12. RingObjects'
    BY <1>1, <1>3, <1>8, <1>9, <1>10, <1>11 DEF RingObjects, NodesOfRing
  <1>13. RingOnce'
    BY <1>1, <1>2, <1>3, <1>7 DEF RingOnce, NodesOfRing
  <1> QED
    BY <1>12, <1>13

\* A thread that pushes puts its object into the node.
LEMMA ObjectPut ==
  ASSUME QueueTypeOK, NodesOwned, RingObjects, RingOnce, NEW t \in Users, NEW i \in NodesOfRing, NEW x,
         step[t].op = "object", step[t].at = i, side[t] = "push", x = step[t].object,
         GoesOn(t, "flag", x, i), side' = side, pushed' = pushed, popped' = popped,
         \A j \in NodesOfRing : /\ nodes'[j].empty = nodes[j].empty
                                /\ nodes'[j].object = IF j = i THEN x ELSE nodes[j].object
  PROVE  RingObjects' /\ RingOnce'
  <1>1. Accepted' = Accepted
    BY DEF Accepted
  <1>2. x # 0 /\ x \notin Accepted
    BY DEF RingObjects
  <1>3. nodes[i].empty /\ \A u \in Users : u # t /\ step[u].op \in AtNode => step[u].at # i
    BY DEF NodesOwned, AtNode
  <1>4. \A u \in Users : step[u].op = "flag" => step[u].at # i
    BY <1>3 DEF AtNode
  <1>5. nodes[i].object = 0
    BY <1>3, <1>4 DEF RingObjects
  <1>6. \A u \in Users : u # t /\ side[u] = "push" => step[u].object # x
    BY <1>2 DEF RingObjects
  <1>7. x \notin Half /\ \A y : y \in Half' <=> y \in Half \/ y = x
    BY <1>6, HandsAre
  <1>8. Poppers' = Poppers /\ Poppers \subseteq Users /\ t \notin Poppers
    <2>1. t \notin Poppers /\ t \notin Poppers'
      BY HandsAre
    <2> QED
      BY <2>1, PoppersStay
  <1>9. \A u \in Users : u # t => step'[u] = step[u]
    BY DEF GoesOn
  <1>10. step'[t].op = "flag" /\ step'[t].object = x /\ step'[t].at = i
    BY DEF GoesOn
  <1>11. x \in 1 .. MaxObject
    BY <1>2, QueueAssumption DEF QueueTypeOK
  <1>12. x \notin popped /\ (\A j \in NodesOfRing : nodes[j].object # x) /\ \A u \in Poppers : step[u].object # x
    BY <1>2, <1>7, <1>11 DEF RingOnce
  <1>13. \A u \in Users : side[u] = "push" =>
               /\ step'[u].op # "none" => step'[u].object # 0
               /\ step'[u].op # "countOther" /\ step'[u].object # 0 => step'[u].object \notin Accepted
               /\ step'[u].op = "flag" => nodes'[step'[u].at].object = step'[u].object
    <2> TAKE u \in Users
    <2>1. CASE u = t
      BY <1>2, <1>10, <2>1
    <2>2. CASE u # t
      <3>1. step[u].op = "flag" => step[u].at \in NodesOfRing /\ step[u].at # i
        BY <1>4 DEF NodesOwned, AtNode
      <3> QED
        BY <1>9, <2>2, <3>1 DEF RingObjects
    <2> QED
      BY <2>1, <2>2
  <1>14. \A u, v \in Users : side[u] = "push" /\ side[v] = "push" /\ step'[u].object = step'[v].object /\ step'[u].object # 0
               => u = v
    BY <1>9, <1>10 DEF RingObjects
  <1>15. \A u \in Poppers : step'[u] = step[u] /\ step'[u].object # 0
    BY <1>8, <1>9 DEF RingObjects
  <1>16. \A j \in NodesOfRing : nodes'[j].object = 0 <=>
             IF nodes'[j].empty THEN \A u \in Users : side[u] = "push" /\ step'[u].op = "flag" => step'[u].at # j
             ELSE \E u \in Users : side[u] = "pop" /\ step'[u].op = "flag" /\ step'[u].at = j
    <2> TAKE j \in NodesOfRing
    <2>1. CASE j = i
      BY <1>2, <1>3, <1>10, <2>1
    <2>2. CASE j # i
      <3>1. nodes'[j].object = nodes[j].object /\ nodes'[j].empty = nodes[j].empty
        BY <2>2
      <3>2. \A u \in Users : (step'[u].op = "flag" /\ step'[u].at = j) <=> (step[u].op = "flag" /\ step[u].at = j)
        BY <1>9, <1>10, <2>2
      <3>3. CASE nodes[j].empty
        BY <3>1, <3>2, <3>3 DEF RingObjects
      <3>4. CASE ~nodes[j].empty
        BY <3>1, <3>2, <3>4 DEF RingObjects
      <3> QED
        BY <3>3, <3>4
    <2> QED
      BY <2>1, <2>2
  <1>17. RingObjects'
    BY <1>1, <1>8, <1>13, <1>14, <1>15, <1>16 DEF RingObjects, NodesOfRing
  <1>18. \A j, k \in NodesOfRing : nodes'[j].object = nodes'[k].object /\ nodes'[j].object # 0 => j = k
    BY <1>12 DEF RingOnce
  <1>19. \A u \in Poppers : step'[u].object \notin popped /\ \A j \in NodesOfRing : nodes'[j].object # step'[u].object
    BY <1>12, <1>15 DEF RingOnce
  <1>20. \A j \in NodesOfRing : nodes'[j].object \notin popped
    BY <1>12 DEF RingOnce
  <1>21. \A u, v \in Poppers : step'[u].object = step'[v].object => u = v
    BY <1>15 DEF RingOnce
  <1>22. \A y \in 1 .. MaxObject :
             y \in Accepted \/ y \in Half' <=>
               \/ y \in popped
               \/ \E j \in NodesOfRing : nodes'[j].object = y
               \/ \E u \in Poppers : step'[u].object = y
    <2> TAKE y \in 1 .. MaxObject
    <2>1. CASE y = x
      BY <1>7, <2>1
    <2>2. CASE y # x
      <3>1. (\E j \in NodesOfRing : nodes'[j].object = y) <=> (\E j \in NodesOfRing : nodes[j].object = y)
        <4>1. 0 \notin 1 .. MaxObject
          OBVIOUS
        <4> QED
          BY <1>5, <2>2, <4>1
      <3>2. (\E u \in Poppers : step'[u].object = y) <=> (\E u \in Poppers : step[u].object = y)
        BY <1>15
      <3>3. y \in Half' <=> y \in Half
        BY <1>7, <2>2
      <3> QED
        BY <3>1, <3>2, <3>3 DEF RingOnce
    <2> QED
      BY <2>1, <2>2
  <1>23. RingOnce'
    BY <1>1, <1>8, <1>18, <1>19, <1>20, <1>21, <1>22 DEF RingOnce, NodesOfRing
  <1> QED
    BY <1>17, <1>23

\* A thread that pops takes the object out of the node.
LEMMA ObjectGot ==
  ASSUME QueueTypeOK, NodesOwned, RingObjects, RingOnce, NEW t \in Users, NEW i \in NodesOfRing, NEW x,
         step[t].op = "object", step[t].at = i, side[t] = "pop", x = nodes[i].object,
         GoesOn(t, "flag", x, i), side' = side, pushed' = pushed, popped' = popped,
         \A j \in NodesOfRing : /\ nodes'[j].empty = nodes[j].empty
                                /\ nodes'[j].object = IF j = i THEN 0 ELSE nodes[j].object
  PROVE  RingObjects' /\ RingOnce'
  <1>0. "pop" # "push"
    OBVIOUS
  <1>1. Accepted' = Accepted
    BY DEF Accepted
  <1>3. ~nodes[i].empty /\ \A u \in Users : u # t /\ step[u].op \in AtNode => step[u].at # i
    BY <1>0 DEF NodesOwned, AtNode
  <1>4. \A u \in Users : step[u].op = "flag" => step[u].at # i
    BY <1>3 DEF AtNode
  <1>5. x # 0
    BY <1>3, <1>4 DEF RingObjects
  <1>7. Half' = Half
    <2>1. \A y : y \in Half' <=> y \in Half
      BY <1>0, HandsAre
    <2> QED
      BY <2>1
  <1>8. Poppers' = Poppers \union {t} /\ Poppers \subseteq Users /\ t \notin Poppers
    <2>1. \A u : u \in Poppers' <=> u \in Poppers \/ u = t
      BY HandsAre
    <2> QED
      BY <2>1, HandsAre
  <1>9. \A u \in Users : u # t => step'[u] = step[u]
    BY DEF GoesOn
  <1>10. step'[t].op = "flag" /\ step'[t].object = x /\ step'[t].at = i
    BY DEF GoesOn
  <1>11. x \in 1 .. MaxObject
    BY <1>5, QueueAssumption DEF QueueTypeOK, NodesOfRing
  <1>12. /\ x \notin popped /\ (\A j \in NodesOfRing : j # i => nodes[j].object # x) /\ \A u \in Poppers : step[u].object # x
    BY <1>5 DEF RingOnce
  <1>13. \A u \in Users : side[u] = "push" =>
               /\ step'[u].op # "none" => step'[u].object # 0
               /\ step'[u].op # "countOther" /\ step'[u].object # 0 => step'[u].object \notin Accepted
               /\ step'[u].op = "flag" => nodes'[step'[u].at].object = step'[u].object
    <2> SUFFICES ASSUME NEW u \in Users, side[u] = "push"
                 PROVE  /\ step'[u].op # "none" => step'[u].object # 0
                        /\ step'[u].op # "countOther" /\ step'[u].object # 0 => step'[u].object \notin Accepted
                        /\ step'[u].op = "flag" => nodes'[step'[u].at].object = step'[u].object
      OBVIOUS
    <2>1. u # t
      BY <1>0
    <2>2. step[u].op = "flag" => step[u].at \in NodesOfRing /\ step[u].at # i
      BY <1>4 DEF NodesOwned, AtNode
    <2> QED
      BY <1>9, <2>1, <2>2 DEF RingObjects
  <1>14. \A u, v \in Users : side[u] = "push" /\ side[v] = "push" /\ step'[u].object = step'[v].object /\ step'[u].object # 0
               => u = v
    BY <1>0, <1>9 DEF RingObjects
  <1>15. \A u \in Poppers : step'[u] = step[u] /\ step'[u].object # 0
    BY <1>8, <1>9 DEF RingObjects
  <1>16. \A j \in NodesOfRing : nodes'[j].object = 0 <=>
             IF nodes'[j].empty THEN \A u \in Users : side[u] = "push" /\ step'[u].op = "flag" => step'[u].at # j
             ELSE \E u \in Users : side[u] = "pop" /\ step'[u].op = "flag" /\ step'[u].at = j
    <2> TAKE j \in NodesOfRing
    <2>1. CASE j = i
      BY <1>3, <1>10, <2>1
    <2>2. CASE j # i
      <3>1. nodes'[j].object = nodes[j].object /\ nodes'[j].empty = nodes[j].empty
        BY <2>2
      <3>2. \A u \in Users : (step'[u].op = "flag" /\ step'[u].at = j) <=> (step[u].op = "flag" /\ step[u].at = j)
        BY <1>9, <1>10, <2>2
      <3>3. CASE nodes[j].empty
        BY <3>1, <3>2, <3>3 DEF RingObjects
      <3>4. CASE ~nodes[j].empty
        BY <3>1, <3>2, <3>4 DEF RingObjects
      <3> QED
        BY <3>3, <3>4
    <2> QED
      BY <2>1, <2>2
  <1>17. RingObjects'
    BY <1>1, <1>5, <1>8, <1>10, <1>13, <1>14, <1>15, <1>16 DEF RingObjects, NodesOfRing
  <1>18. \A j, k \in NodesOfRing : nodes'[j].object = nodes'[k].object /\ nodes'[j].object # 0 => j = k
    BY DEF RingOnce
  <1>19. \A u \in Poppers' : step'[u].object \notin popped /\ \A j \in NodesOfRing : nodes'[j].object # step'[u].object
    <2> TAKE u \in Poppers'
    <2>1. CASE u = t
      BY <1>5, <1>10, <1>12, <2>1
    <2>2. CASE u # t
      BY <1>8, <1>15, <2>2 DEF RingOnce
    <2> QED
      BY <2>1, <2>2
  <1>20. \A j \in NodesOfRing : nodes'[j].object \notin popped
    <2>1. 0 \notin popped
      <3>1. 0 \notin 1 .. MaxObject
        OBVIOUS
      <3> QED
        BY <3>1 DEF RingObjects
    <2> QED
      BY <2>1 DEF RingOnce
  <1>21. \A u, v \in Poppers' : step'[u].object = step'[v].object => u = v
    BY <1>8, <1>10, <1>12, <1>15 DEF RingOnce
  <1>22. \A y \in 1 .. MaxObject :
             y \in Accepted \/ y \in Half <=>
               \/ y \in popped
               \/ \E j \in NodesOfRing : nodes'[j].object = y
               \/ \E u \in Poppers' : step'[u].object = y
    <2> TAKE y \in 1 .. MaxObject
    <2>1. CASE y = x
      <3>1. y \in Accepted \/ y \in Half
        BY <2>1 DEF RingOnce
      <3> QED
        BY <1>8, <1>10, <2>1, <3>1
    <2>2. CASE y # x
      <3>1. (\E j \in NodesOfRing : nodes'[j].object = y) <=> (\E j \in NodesOfRing : nodes[j].object = y)
        <4>1. 0 \notin 1 .. MaxObject
          OBVIOUS
        <4> QED
          BY <2>2, <4>1
      <3>2. (\E u \in Poppers' : step'[u].object = y) <=> (\E u \in Poppers : step[u].object = y)
        BY <1>8, <1>10, <1>15, <2>2
      <3> QED
        BY <3>1, <3>2 DEF RingOnce
    <2> QED
      BY <2>1, <2>2
  <1>23. RingOnce'
    BY <1>1, <1>7, <1>18, <1>19, <1>20, <1>21, <1>22 DEF RingOnce, NodesOfRing
  <1> QED
    BY <1>17, <1>23

\* A thread that pushes passes the node on: its object is accepted.
LEMMA ObjectAccepted ==
  ASSUME QueueTypeOK, NodesOwned, RingObjects, RingOnce, NEW t \in Users, NEW i \in NodesOfRing, NEW x,
         step[t].op = "flag", step[t].at = i, side[t] = "push", x = step[t].object,
         GoesOn(t, "countOther", x, i), side' = side, pushed' = Append(pushed, x), popped' = popped,
         \A j \in NodesOfRing : /\ nodes'[j].object = nodes[j].object
                                /\ nodes'[j].empty = IF j = i THEN FALSE ELSE nodes[j].empty
  PROVE  RingObjects' /\ RingOnce'
  <1>2. x # 0 /\ x \notin Accepted /\ nodes[i].object = x
    BY DEF RingObjects
  <1>11. x \in 1 .. MaxObject
    BY <1>2, QueueAssumption DEF QueueTypeOK
  <1>1. Accepted' = Accepted \union {x} /\ pushed' \in Seq(1 .. MaxObject)
    BY <1>11, AcceptedAppend DEF RingObjects
  <1>3. \A u \in Users : u # t /\ step[u].op \in AtNode => step[u].at # i
    BY DEF NodesOwned, AtNode
  <1>6. \A u \in Users : u # t /\ side[u] = "push" => step[u].object # x
    BY <1>2 DEF RingObjects
  <1>7. x \in Half /\ \A y : y \in Half' <=> y \in Half /\ y # x
    BY <1>6, HandsAre
  <1>8. Poppers' = Poppers /\ Poppers \subseteq Users /\ t \notin Poppers
    <2>1. t \notin Poppers /\ t \notin Poppers'
      BY HandsAre
    <2> QED
      BY <2>1, PoppersStay
  <1>9. \A u \in Users : u # t => step'[u] = step[u]
    BY DEF GoesOn
  <1>10. step'[t].op = "countOther" /\ step'[t].object = x /\ step'[t].at = i
    BY DEF GoesOn
  <1>13. \A u \in Users : side[u] = "push" =>
               /\ step'[u].op # "none" => step'[u].object # 0
               /\ step'[u].op # "countOther" /\ step'[u].object # 0 => step'[u].object \notin Accepted \union {x}
               /\ step'[u].op = "flag" => nodes'[step'[u].at].object = step'[u].object
    <2> TAKE u \in Users
    <2>1. CASE u = t
      BY <1>2, <1>10, <2>1
    <2>2. CASE u # t
      <3>1. step[u].op = "flag" => nodes'[step[u].at].object = nodes[step[u].at].object
        BY DEF NodesOwned, AtNode
      <3>2. step'[u] = step[u] /\ (side[u] = "push" => step[u].object # x)
        BY <1>6, <1>9, <2>2
      <3>3. side[u] = "push" =>
               /\ step[u].op # "none" => step[u].object # 0
               /\ step[u].op # "countOther" /\ step[u].object # 0 => step[u].object \notin Accepted
               /\ step[u].op = "flag" => nodes[step[u].at].object = step[u].object
        BY DEF RingObjects
      <3> QED
        BY <3>1, <3>2, <3>3
    <2> QED
      BY <2>1, <2>2
  <1>14. \A u, v \in Users : side[u] = "push" /\ side[v] = "push" /\ step'[u].object = step'[v].object /\ step'[u].object # 0
               => u = v
    BY <1>9, <1>10 DEF RingObjects
  <1>15. \A u \in Poppers : step'[u] = step[u] /\ step'[u].object # 0
    BY <1>8, <1>9 DEF RingObjects
  <1>16. \A j \in NodesOfRing : nodes'[j].object = 0 <=>
             IF nodes'[j].empty THEN \A u \in Users : side[u] = "push" /\ step'[u].op = "flag" => step'[u].at # j
             ELSE \E u \in Users : side[u] = "pop" /\ step'[u].op = "flag" /\ step'[u].at = j
    <2> TAKE j \in NodesOfRing
    <2>1. CASE j = i
      <3>1. nodes'[j].object # 0 /\ ~nodes'[j].empty
        BY <1>2, <2>1
      <3>2. \A u \in Users : step'[u].op = "flag" => step'[u].at # j
        BY <1>3, <1>9, <1>10, <2>1 DEF AtNode
      <3> QED
        BY <3>1, <3>2
    <2>2. CASE j # i
      <3>1. nodes'[j].object = nodes[j].object /\ nodes'[j].empty = nodes[j].empty
        BY <2>2
      <3>2. \A u \in Users : (step'[u].op = "flag" /\ step'[u].at = j) <=> (step[u].op = "flag" /\ step[u].at = j)
        BY <1>9, <1>10, <2>2
      <3>3. CASE nodes[j].empty
        BY <3>1, <3>2, <3>3 DEF RingObjects
      <3>4. CASE ~nodes[j].empty
        BY <3>1, <3>2, <3>4 DEF RingObjects
      <3> QED
        BY <3>3, <3>4
    <2> QED
      BY <2>1, <2>2
  <1>17. RingObjects'
    <2>1. popped \subseteq 1 .. MaxObject
      BY DEF RingObjects
    <2> QED
      BY <1>1, <1>8, <1>13, <1>14, <1>15, <1>16, <2>1 DEF RingObjects, NodesOfRing
  <1>22. \A y \in 1 .. MaxObject :
             y \in Accepted' \/ y \in Half' <=>
               \/ y \in popped
               \/ \E j \in NodesOfRing : nodes[j].object = y
               \/ \E u \in Poppers : step[u].object = y
    <2>1. \A y : (y \in Accepted' \/ y \in Half') <=> (y \in Accepted \/ y \in Half)
      BY <1>1, <1>7
    <2> QED
      BY <2>1 DEF RingOnce
  <1>23. RingOnce'
    <2>1. /\ \A j, k \in NodesOfRing : nodes'[j].object = nodes'[k].object /\ nodes'[j].object # 0 => j = k
          /\ \A u, v \in Poppers : step'[u].object = step'[v].object => u = v
          /\ \A u \in Poppers : step'[u].object \notin popped /\ \A j \in NodesOfRing : nodes'[j].object # step'[u].object
          /\ \A j \in NodesOfRing : nodes'[j].object \notin popped
      <3>1. /\ \A j, k \in NodesOfRing : nodes[j].object = nodes[k].object /\ nodes[j].object # 0 => j = k
            /\ \A u, v \in Poppers : step[u].object = step[v].object => u = v
            /\ \A u \in Poppers : step[u].object \notin popped /\ \A j \in NodesOfRing : nodes[j].object # step[u].object
            /\ \A j \in NodesOfRing : nodes[j].object \notin popped
        BY DEF RingOnce
      <3>0. \A j \in NodesOfRing : nodes'[j].object = nodes[j].object
        OBVIOUS
      <3>2. /\ \A j, k \in NodesOfRing : nodes'[j].object = nodes'[k].object /\ nodes'[j].object # 0 => j = k
            /\ \A j \in NodesOfRing : nodes'[j].object \notin popped
        <4>1. \A j, k \in NodesOfRing : nodes'[j].object = nodes'[k].object /\ nodes'[j].object # 0 => j = k
          <5> TAKE j, k \in NodesOfRing
          <5>1. nodes'[j].object = nodes[j].object /\ nodes'[k].object = nodes[k].object
            BY <3>0
          <5>2. nodes[j].object = nodes[k].object /\ nodes[j].object # 0 => j = k
            BY DEF RingOnce
          <5> QED
            BY <5>1, <5>2
        <4>2. \A j \in NodesOfRing : nodes'[j].object \notin popped
          <5> TAKE j \in NodesOfRing
          <5>1. nodes'[j].object = nodes[j].object
            BY <3>0
          <5> QED
            BY <3>1, <5>1
        <4> QED
          BY <4>1, <4>2
      <3>3. \A u, v \in Poppers : step'[u].object = step'[v].object => u = v
        BY <1>15, <3>1
      <3>4. \A u \in Poppers : step'[u].object \notin popped /\ \A j \in NodesOfRing : nodes'[j].object # step'[u].object
        <4> TAKE u \in Poppers
        <4>1. step'[u].object = step[u].object /\ step[u].object \notin popped
          BY <1>15, <3>1
        <4>2. \A j \in NodesOfRing : nodes'[j].object # step[u].object
          <5> TAKE j \in NodesOfRing
          <5>1. nodes'[j].object = nodes[j].object
            BY <3>0
          <5> QED
            BY <3>1, <5>1
        <4> QED
          BY <4>1, <4>2
      <3> QED
        BY <3>2, <3>3, <3>4
    <2>2. \A y : /\ (\E j \in NodesOfRing : nodes'[j].object = y) <=> (\E j \in NodesOfRing : nodes[j].object = y)
                 /\ (\E u \in Poppers : step'[u].object = y) <=> (\E u \in Poppers : step[u].object = y)
      BY <1>15
    <2>3. \A y \in 1 .. MaxObject :
             y \in Accepted' \/ y \in Half' <=>
               \/ y \in popped
               \/ \E j \in NodesOfRing : nodes'[j].object = y
               \/ \E u \in Poppers : step'[u].object = y
      BY <1>22, <2>2
    <2> QED
      BY <1>8, <2>1, <2>3 DEF RingOnce, NodesOfRing
  <1> QED
    BY <1>17, <1>23

\* A thread that pops gives the empty node back and keeps its object.
LEMMA ObjectKept ==
  ASSUME QueueTypeOK, NodesOwned, RingObjects, RingOnce, NEW t \in Users, NEW i \in NodesOfRing, NEW x,
         step[t].op = "flag", step[t].at = i, side[t] = "pop", x = step[t].object,
         GoesOn(t, "countOther", x, i), side' = side, pushed' = pushed, popped' = popped,
         \A j \in NodesOfRing : /\ nodes'[j].object = nodes[j].object
                                /\ nodes'[j].empty = IF j = i THEN TRUE ELSE nodes[j].empty
  PROVE  RingObjects' /\ RingOnce'
  <1>0. "pop" # "push"
    OBVIOUS
  <1>1. Accepted' = Accepted
    BY DEF Accepted
  <1>2. ~nodes[i].empty /\ nodes[i].object = 0
    <2>1. ~nodes[i].empty
      BY <1>0 DEF NodesOwned, AtNode
    <2> QED
      BY <2>1 DEF RingObjects
  <1>3. \A u \in Users : u # t /\ step[u].op \in AtNode => step[u].at # i
    BY DEF NodesOwned, AtNode
  <1>7. Half' = Half
    <2>1. \A y : y \in Half' <=> y \in Half
      BY <1>0, HandsAre
    <2> QED
      BY <2>1
  <1>8. Poppers' = Poppers /\ Poppers \subseteq Users
    <2>1. t \in Poppers /\ t \in Poppers'
      BY HandsAre
    <2> QED
      BY <2>1, PoppersStay
  <1>9. \A u \in Users : u # t => step'[u] = step[u]
    BY DEF GoesOn
  <1>10. step'[t].op = "countOther" /\ step'[t].object = x /\ step'[t].at = i
    BY DEF GoesOn
  <1>13. \A u \in Users : side[u] = "push" =>
               /\ step'[u].op # "none" => step'[u].object # 0
               /\ step'[u].op # "countOther" /\ step'[u].object # 0 => step'[u].object \notin Accepted
               /\ step'[u].op = "flag" => nodes'[step'[u].at].object = step'[u].object
    <2> SUFFICES ASSUME NEW u \in Users, side[u] = "push"
                 PROVE  /\ step'[u].op # "none" => step'[u].object # 0
                        /\ step'[u].op # "countOther" /\ step'[u].object # 0 => step'[u].object \notin Accepted
                        /\ step'[u].op = "flag" => nodes'[step'[u].at].object = step'[u].object
      OBVIOUS
    <2>1. u # t
      BY <1>0
    <2>2. step[u].op = "flag" => nodes'[step[u].at].object = nodes[step[u].at].object
      BY DEF NodesOwned, AtNode
    <2>3. step'[u] = step[u]
      BY <1>9, <2>1
    <2>4. /\ step[u].op # "none" => step[u].object # 0
          /\ step[u].op # "countOther" /\ step[u].object # 0 => step[u].object \notin Accepted
          /\ step[u].op = "flag" => nodes[step[u].at].object = step[u].object
      BY DEF RingObjects
    <2> QED
      BY <2>2, <2>3, <2>4
  <1>14. \A u, v \in Users : side[u] = "push" /\ side[v] = "push" /\ step'[u].object = step'[v].object /\ step'[u].object # 0
               => u = v
    BY <1>0, <1>9 DEF RingObjects
  <1>15. \A u \in Poppers : step'[u].object = step[u].object /\ step'[u].object # 0
    BY <1>8, <1>9, <1>10 DEF RingObjects
  <1>16. \A j \in NodesOfRing : nodes'[j].object = 0 <=>
             IF nodes'[j].empty THEN \A u \in Users : side[u] = "push" /\ step'[u].op = "flag" => step'[u].at # j
             ELSE \E u \in Users : side[u] = "pop" /\ step'[u].op = "flag" /\ step'[u].at = j
    <2> TAKE j \in NodesOfRing
    <2>1. CASE j = i
      <3>1. nodes'[j].object = 0 /\ nodes'[j].empty
        BY <1>2, <2>1
      <3>2. \A u \in Users : step'[u].op = "flag" => step'[u].at # j
        BY <1>3, <1>9, <1>10, <2>1 DEF AtNode
      <3> QED
        BY <3>1, <3>2
    <2>2. CASE j # i
      <3>1. nodes'[j].object = nodes[j].object /\ nodes'[j].empty = nodes[j].empty
        BY <2>2
      <3>2. \A u \in Users : (step'[u].op = "flag" /\ step'[u].at = j) <=> (step[u].op = "flag" /\ step[u].at = j)
        BY <1>9, <1>10, <2>2
      <3>3. CASE nodes[j].empty
        BY <3>1, <3>2, <3>3 DEF RingObjects
      <3>4. CASE ~nodes[j].empty
        BY <3>1, <3>2, <3>4 DEF RingObjects
      <3> QED
        BY <3>3, <3>4
    <2> QED
      BY <2>1, <2>2
  <1>17. RingObjects'
    BY <1>1, <1>8, <1>13, <1>14, <1>15, <1>16 DEF RingObjects, NodesOfRing
  <1>23. RingOnce'
    <2>1. /\ \A j, k \in NodesOfRing : nodes'[j].object = nodes'[k].object /\ nodes'[j].object # 0 => j = k
          /\ \A u, v \in Poppers : step'[u].object = step'[v].object => u = v
          /\ \A u \in Poppers : step'[u].object \notin popped /\ \A j \in NodesOfRing : nodes'[j].object # step'[u].object
          /\ \A j \in NodesOfRing : nodes'[j].object \notin popped
      <3>1. /\ \A j, k \in NodesOfRing : nodes[j].object = nodes[k].object /\ nodes[j].object # 0 => j = k
            /\ \A u, v \in Poppers : step[u].object = step[v].object => u = v
            /\ \A u \in Poppers : step[u].object \notin popped /\ \A j \in NodesOfRing : nodes[j].object # step[u].object
            /\ \A j \in NodesOfRing : nodes[j].object \notin popped
        BY DEF RingOnce
      <3>0. \A j \in NodesOfRing : nodes'[j].object = nodes[j].object
        OBVIOUS
      <3>2. /\ \A j, k \in NodesOfRing : nodes'[j].object = nodes'[k].object /\ nodes'[j].object # 0 => j = k
            /\ \A j \in NodesOfRing : nodes'[j].object \notin popped
        <4>1. \A j, k \in NodesOfRing : nodes'[j].object = nodes'[k].object /\ nodes'[j].object # 0 => j = k
          <5> TAKE j, k \in NodesOfRing
          <5>1. nodes'[j].object = nodes[j].object /\ nodes'[k].object = nodes[k].object
            BY <3>0
          <5>2. nodes[j].object = nodes[k].object /\ nodes[j].object # 0 => j = k
            BY DEF RingOnce
          <5> QED
            BY <5>1, <5>2
        <4>2. \A j \in NodesOfRing : nodes'[j].object \notin popped
          <5> TAKE j \in NodesOfRing
          <5>1. nodes'[j].object = nodes[j].object
            BY <3>0
          <5> QED
            BY <3>1, <5>1
        <4> QED
          BY <4>1, <4>2
      <3>3. \A u, v \in Poppers : step'[u].object = step'[v].object => u = v
        BY <1>15, <3>1
      <3>4. \A u \in Poppers : step'[u].object \notin popped /\ \A j \in NodesOfRing : nodes'[j].object # step'[u].object
        <4> TAKE u \in Poppers
        <4>1. step'[u].object = step[u].object /\ step[u].object \notin popped
          BY <1>15, <3>1
        <4>2. \A j \in NodesOfRing : nodes'[j].object # step[u].object
          <5> TAKE j \in NodesOfRing
          <5>1. nodes'[j].object = nodes[j].object
            BY <3>0
          <5> QED
            BY <3>1, <5>1
        <4> QED
          BY <4>1, <4>2
      <3> QED
        BY <3>2, <3>3, <3>4
    <2>2. \A y : /\ (\E j \in NodesOfRing : nodes'[j].object = y) <=> (\E j \in NodesOfRing : nodes[j].object = y)
                 /\ (\E u \in Poppers : step'[u].object = y) <=> (\E u \in Poppers : step[u].object = y)
      BY <1>15
    <2>3. \A y \in 1 .. MaxObject :
             y \in Accepted \/ y \in Half <=>
               \/ y \in popped
               \/ \E j \in NodesOfRing : nodes'[j].object = y
               \/ \E u \in Poppers : step'[u].object = y
      BY <2>2 DEF RingOnce
    <2> QED
      BY <1>1, <1>7, <1>8, <2>1, <2>3 DEF RingOnce, NodesOfRing
  <1> QED
    BY <1>17, <1>23

\* A thread that pops returns its object.
LEMMA ObjectReturned ==
  ASSUME QueueTypeOK, RingObjects, RingOnce, NEW t \in Users, NEW x, NEW i,
         step[t].op = "countOther", side[t] = "pop", x = step[t].object,
         GoesOn(t, "none", 0, i), side' = side, pushed' = pushed, popped' = popped \union {x}, nodes' = nodes
  PROVE  RingObjects' /\ RingOnce'
  <1>0. "pop" # "push"
    OBVIOUS
  <1>1. Accepted' = Accepted
    BY DEF Accepted
  <1>7. Half' = Half
    <2>1. \A y : y \in Half' <=> y \in Half
      BY <1>0, HandsAre
    <2> QED
      BY <2>1
  <1>8. Poppers' = Poppers \ {t} /\ Poppers \subseteq Users /\ t \in Poppers
    <2>1. t \in Poppers /\ t \notin Poppers'
      BY HandsAre
    <2>2. \A u : u \in Poppers' <=> u \in Poppers /\ u # t
      BY <2>1, HandsAre
    <2> QED
      BY <2>1, <2>2, HandsAre
  <1>2. x # 0 /\ x \notin popped /\ \A j \in NodesOfRing : nodes[j].object # x
    BY <1>8 DEF RingObjects, RingOnce
  <1>9. \A u \in Users : u # t => step'[u] = step[u]
    BY DEF GoesOn
  <1>10. step'[t].op = "none"
    BY DEF GoesOn
  <1>11. x \in 1 .. MaxObject /\ popped' \subseteq 1 .. MaxObject
    <2>1. x \in 1 .. MaxObject
      BY <1>2, QueueAssumption DEF QueueTypeOK
    <2> QED
      BY <2>1 DEF RingObjects
  <1>12. \A u \in Poppers' : step'[u] = step[u] /\ u \in Poppers /\ u # t
    BY <1>8, <1>9
  <1>13. \A u \in Users : side[u] = "push" => step'[u] = step[u]
    BY <1>0, <1>9
  <1>14. \A u \in Users : \A j : (step'[u].op = "flag" /\ step'[u].at = j) <=> (step[u].op = "flag" /\ step[u].at = j)
    BY <1>9, <1>10
  <1>15. \A j \in NodesOfRing : nodes[j].object = 0 <=>
             IF nodes[j].empty THEN \A u \in Users : side[u] = "push" /\ step'[u].op = "flag" => step'[u].at # j
             ELSE \E u \in Users : side[u] = "pop" /\ step'[u].op = "flag" /\ step'[u].at = j
    <2> TAKE j \in NodesOfRing
    <2>1. CASE nodes[j].empty
      BY <1>13, <2>1 DEF RingObjects
    <2>2. CASE ~nodes[j].empty
      <3>1. nodes[j].object = 0 <=> \E u \in Users : side[u] = "pop" /\ step[u].op = "flag" /\ step[u].at = j
        BY <2>2 DEF RingObjects
      <3>2. \A u \in Users : (step'[u].op = "flag" /\ step'[u].at = j) <=> (step[u].op = "flag" /\ step[u].at = j)
        BY <1>14
      <3> QED
        BY <2>2, <3>1, <3>2
    <2> QED
      BY <2>1, <2>2
  <1>16. RingObjects'
    <2>1. \A u \in Poppers' : step'[u].object # 0
      BY <1>12 DEF RingObjects
    <2>2. \A u \in Users : side[u] = "push" =>
               /\ step'[u].op # "none" => step'[u].object # 0
               /\ step'[u].op # "countOther" /\ step'[u].object # 0 => step'[u].object \notin Accepted
               /\ step'[u].op = "flag" => nodes[step'[u].at].object = step'[u].object
      BY <1>13 DEF RingObjects
    <2>3. \A u, v \in Users : side[u] = "push" /\ side[v] = "push" /\ step'[u].object = step'[v].object /\ step'[u].object # 0
               => u = v
      BY <1>13 DEF RingObjects
    <2>4. pushed \in Seq(1 .. MaxObject)
      BY DEF RingObjects
    <2> QED
      BY <1>1, <1>11, <1>15, <2>1, <2>2, <2>3, <2>4 DEF RingObjects, NodesOfRing
  <1>17. RingOnce'
    <2>1. /\ \A j, k \in NodesOfRing : nodes[j].object = nodes[k].object /\ nodes[j].object # 0 => j = k
          /\ \A u, v \in Poppers' : step'[u].object = step'[v].object => u = v
          /\ \A j \in NodesOfRing : nodes[j].object \notin popped'
      BY <1>2, <1>12 DEF RingOnce
    <2>2. \A u \in Poppers' : step'[u].object \notin popped' /\ \A j \in NodesOfRing : nodes[j].object # step'[u].object
      <3>1. \A u \in Poppers' : step[u].object # x
        BY <1>8, <1>12 DEF RingOnce
      <3> QED
        BY <1>12, <3>1 DEF RingOnce
    <2>3. \A y : (y \in popped' \/ \E u \in Poppers' : step'[u].object = y)
                 <=> (y \in popped \/ \E u \in Poppers : step[u].object = y)
      BY <1>8, <1>12
    <2>4. \A y \in 1 .. MaxObject :
             y \in Accepted \/ y \in Half <=>
               \/ y \in popped'
               \/ \E j \in NodesOfRing : nodes[j].object = y
               \/ \E u \in Poppers' : step'[u].object = y
      BY <2>3 DEF RingOnce
    <2> QED
      BY <1>1, <1>7, <2>1, <2>2, <2>4 DEF RingOnce, NodesOfRing
  <1> QED
    BY <1>16, <1>17

\* Every step keeps each object in one place.
LEMMA ObjectsKeep ==
  ASSUME QueueTypeOK, NodesOwned, RingObjects, RingOnce, NEW t \in Users, QueueStep(t)
  PROVE  RingObjects' /\ RingOnce'
  <1>1. side' = side /\ side[t] \in Sides
    BY DEF QueueTypeOK, QueueStep, Begin, CountIn, TakePosition, LookAtNode, ReadPosition, WritePosition, CountOut,
           UseObject, SetFlag, CountOther
  <1>2. side[t] = "push" /\ step[t].object # 0 /\ step[t].op # "countOther" =>
             /\ step[t].object \notin Accepted
             /\ \A u \in Users : u # t /\ side[u] = "push" => step[u].object # step[t].object
    BY DEF RingObjects
  <1>3. side[t] = "push" /\ step[t].op # "none" => step[t].object # 0
    BY DEF RingObjects
  <1>4. nodes \in [NodesOfRing -> [object : 0 .. MaxObject, empty : BOOLEAN]]
    BY DEF QueueTypeOK, NodesOfRing
  <1>5. side[t] = "push" \/ side[t] = "pop"
    BY <1>1 DEF Sides
  <1>6. CASE Begin(t)
    <2>1. step[t].op = "none" /\ nodes' = nodes /\ pushed' = pushed /\ popped' = popped
      BY <1>6 DEF Begin
    <2>2. CASE side[t] = "pop" /\ Go(t, "countIn", 0, 0)
      <3>1. GoesOn(t, "countIn", 0, 0)
        BY <2>2, GoIs
      <3>2. "countIn" # "flag" /\ "countIn" # "countOther" /\ side[t] # "push"
        BY <2>2
      <3> QED
        BY <1>1, <2>1, <2>2, <3>1, <3>2, ObjectsStay
    <2>3. CASE side[t] = "push" /\ step[t].object # 0 /\ Go(t, "countIn", step[t].object, 0)
      <3>1. GoesOn(t, "countIn", step[t].object, 0)
        BY <2>3, GoIs
      <3>2. "countIn" # "flag" /\ "countIn" # "countOther" /\ side[t] # "pop"
        BY <2>3
      <3> QED
        BY <1>1, <1>2, <2>1, <2>3, <3>1, <3>2, ObjectsStay
    <2>4. CASE side[t] = "push" /\ Unused # {} /\ Go(t, "countIn", NextObject, 0)
      <3>1. GoesOn(t, "countIn", NextObject, 0)
        BY <2>4, GoIs
      <3>2. "countIn" # "flag" /\ "countIn" # "countOther" /\ side[t] # "pop"
        BY <2>4
      <3>3. NextObject \in Unused
        BY <2>4, NextObjectIs
      <3>4. NextObject # 0 /\ NextObject \notin Accepted /\ NextObject \notin InHand
        BY <3>3 DEF Unused
      <3>5. \A u \in Users : u # t /\ side[u] = "push" => step[u].object # NextObject
        BY <3>4 DEF InHand
      <3> QED
        BY <1>1, <2>1, <2>4, <3>1, <3>2, <3>4, <3>5, ObjectsStay
    <2> QED
      BY <1>6, <2>2, <2>3, <2>4 DEF Begin
  <1>7. CASE CountIn(t) \/ TakePosition(t) \/ LookAtNode(t) \/ ReadPosition(t) \/ WritePosition(t) \/ CountOut(t)
    <2>1. /\ step[t].op \notin {"none", "flag", "countOther"}
          /\ nodes' = nodes /\ pushed' = pushed /\ popped' = popped
      BY <1>7 DEF CountIn, TakePosition, LookAtNode, ReadPosition, WritePosition, CountOut
    <2>2. \E op \in {"none", "countOut", "position", "look", "object", "read", "write"} : \E i :
             Go(t, op, step[t].object, i)
      <3>1. CASE CountIn(t) \/ LookAtNode(t)
        BY <3>1 DEF CountIn, LookAtNode
      <3>2. CASE TakePosition(t) \/ ReadPosition(t) \/ WritePosition(t) \/ CountOut(t)
        BY <3>2 DEF TakePosition, ReadPosition, WritePosition, CountOut
      <3> QED
        BY <1>7, <3>1, <3>2
    <2>3. PICK op \in {"none", "countOut", "position", "look", "object", "read", "write"} : \E i : Go(t, op, step[t].object, i)
      BY <2>2
    <2> PICK i : Go(t, op, step[t].object, i)
      BY <2>3
    <2> PICK x : x = step[t].object
      OBVIOUS
    <2>4. GoesOn(t, op, x, i)
      BY GoIs
    <2>5. op # "flag" /\ op # "countOther" /\ step[t].op # "flag" /\ step[t].op # "countOther"
      BY <2>1, <2>3
    <2>6. side[t] = "push" => /\ x # 0 /\ x \notin Accepted
                              /\ \A u \in Users : u # t /\ side[u] = "push" => step[u].object # x
      BY <1>2, <1>3, <2>1
    <2> QED
      BY <1>1, <2>1, <2>4, <2>5, <2>6, ObjectsStay
  <1>8. CASE UseObject(t)
    <2> PICK i : i = step[t].at
      OBVIOUS
    <2>1. step[t].op = "object" /\ pushed' = pushed /\ popped' = popped
      BY <1>8 DEF UseObject
    <2>2. i \in NodesOfRing
      BY <2>1 DEF NodesOwned, AtNode
    <2> PICK x : x = IF side[t] = "push" THEN step[t].object ELSE nodes[i].object
      OBVIOUS
    <2>3. /\ Go(t, "flag", x, i)
          /\ nodes' = [nodes EXCEPT ![i].object = IF side[t] = "push" THEN step[t].object ELSE 0]
      BY <1>8 DEF UseObject
    <2>4. GoesOn(t, "flag", x, i)
      BY <2>3, GoIs
    <2>5. \A j \in NodesOfRing :
             /\ nodes'[j].empty = nodes[j].empty
             /\ nodes'[j].object = IF j = i THEN (IF side[t] = "push" THEN step[t].object ELSE 0) ELSE nodes[j].object
      BY <1>4, <2>2, <2>3
    <2>6. CASE side[t] = "push"
      <3>1. x = step[t].object
        BY <2>6
      <3>2. \A j \in NodesOfRing : /\ nodes'[j].empty = nodes[j].empty
                                   /\ nodes'[j].object = IF j = i THEN x ELSE nodes[j].object
        BY <2>5, <2>6, <3>1
      <3> QED
        BY <1>1, <2>1, <2>2, <2>4, <2>6, <3>1, <3>2, ObjectPut
    <2>7. CASE side[t] = "pop"
      <3>1. x = nodes[i].object
        BY <2>7
      <3>2. \A j \in NodesOfRing : /\ nodes'[j].empty = nodes[j].empty
                                   /\ nodes'[j].object = IF j = i THEN 0 ELSE nodes[j].object
        BY <2>5, <2>7
      <3> QED
        BY <1>1, <2>1, <2>2, <2>4, <2>7, <3>1, <3>2, ObjectGot
    <2> QED
      BY <1>5, <2>6, <2>7
  <1>9. CASE SetFlag(t)
    <2> PICK i : i = step[t].at
      OBVIOUS
    <2> PICK x : x = step[t].object
      OBVIOUS
    <2>1. step[t].op = "flag" /\ popped' = popped
      BY <1>9 DEF SetFlag
    <2>2. i \in NodesOfRing
      BY <2>1 DEF NodesOwned, AtNode
    <2>3. /\ Go(t, "countOther", x, i)
          /\ nodes' = [nodes EXCEPT ![i].empty = (side[t] = "pop")]
          /\ pushed' = IF side[t] = "push" THEN Append(pushed, x) ELSE pushed
      BY <1>9 DEF SetFlag
    <2>4. GoesOn(t, "countOther", x, i)
      BY <2>3, GoIs
    <2>5. \A j \in NodesOfRing :
             /\ nodes'[j].object = nodes[j].object
             /\ nodes'[j].empty = IF j = i THEN (side[t] = "pop") ELSE nodes[j].empty
      BY <1>4, <2>2, <2>3
    <2>6. CASE side[t] = "push"
      <3>1. pushed' = Append(pushed, x) /\ (side[t] = "pop") = FALSE
        BY <2>3, <2>6
      <3>2. \A j \in NodesOfRing : /\ nodes'[j].object = nodes[j].object
                                   /\ nodes'[j].empty = IF j = i THEN FALSE ELSE nodes[j].empty
        BY <2>5, <3>1
      <3> QED
        BY <1>1, <2>1, <2>2, <2>4, <2>6, <3>1, <3>2, ObjectAccepted
    <2>7. CASE side[t] = "pop"
      <3>1. pushed' = pushed /\ (side[t] = "pop") = TRUE
        BY <2>3, <2>7
      <3>2. \A j \in NodesOfRing : /\ nodes'[j].object = nodes[j].object
                                   /\ nodes'[j].empty = IF j = i THEN TRUE ELSE nodes[j].empty
        BY <2>5, <3>1
      <3> QED
        BY <1>1, <2>1, <2>2, <2>4, <2>7, <3>1, <3>2, ObjectKept
    <2> QED
      BY <1>5, <2>6, <2>7
  <1>10. CASE CountOther(t)
    <2>1. /\ step[t].op = "countOther" /\ nodes' = nodes /\ pushed' = pushed
          /\ popped' = IF side[t] = "pop" THEN popped \union {step[t].object} ELSE popped
      BY <1>10 DEF CountOther
    <2>2. GoesOn(t, "none", 0, 0)
      BY <1>10, GoIs DEF CountOther
    <2>3. CASE side[t] = "push"
      <3>1. popped' = popped /\ side[t] # "pop" /\ "none" # "flag" /\ step[t].op # "flag"
        BY <2>1, <2>3
      <3> QED
        BY <1>1, <2>1, <2>2, <2>3, <3>1, ObjectsStay
    <2>4. CASE side[t] = "pop"
      <3>1. popped' = popped \union {step[t].object}
        BY <2>1, <2>4
      <3> QED
        BY <1>1, <2>1, <2>2, <2>4, <3>1, ObjectReturned
    <2> QED
      BY <1>5, <2>3, <2>4
  <1> QED
    BY <1>6, <1>7, <1>8, <1>9, <1>10 DEF QueueStep

-----------------------------------------------------------------------------
(* The invariant of the ring.                                              *)
LEMMA RingBegins ==
  ASSUME Few, QueueInit
  PROVE  RingIInv
  <1>1. PICK s \in Sides : Cardinality({t \in Users : side[t] = s}) = 1
    BY DEF QueueInit
  <1>2. side \in [Users -> Sides]
    BY DEF QueueInit
  <1>3. PICK o : {t \in Users : side[t] = s} = {o}
    <2>1. IsFiniteSet({t \in Users : side[t] = s})
      BY FS_Subset DEF Few
    <2> QED
      BY <1>1, <2>1, FS_Singleton
  <1>4. o \in Users /\ AloneAt(o)
    BY <1>3 DEF AloneAt
  <1>5. Size \in Nat /\ Size >= 1 /\ Wrap \in Nat /\ Wrap >= 1 /\ MaxObject \in Nat /\ Cardinality(Users) \in Nat
    BY QueueAssumption, FS_CardinalityType DEF Few
  <1>6. \A t \in Users : step[t] = Resting
    BY DEF QueueInit
  <1>7. QueueTypeOK
    <2>1. Resting \in [op : {"none", "countIn", "position", "look", "read", "write", "countOut",
                             "object", "flag", "countOther"}, object : 0 .. MaxObject, at : 0 .. Wrap - 1]
      BY <1>5 DEF Resting
    <2>2. step \in [Users -> [op : {"none", "countIn", "position", "look", "read", "write", "countOut",
                             "object", "flag", "countOther"}, object : 0 .. MaxObject, at : 0 .. Wrap - 1]]
      BY <2>1 DEF QueueInit
    <2>3. \A t \in Users : step[t].op \notin {"look", "object", "flag"}
      BY <1>6 DEF Resting
    <2>4. able \in [Sides -> -Cardinality(Users) .. Size]
      <3>1. Size \in -Cardinality(Users) .. Size /\ 0 \in -Cardinality(Users) .. Size
        BY <1>5
      <3> QED
        BY <3>1 DEF QueueInit, Sides
    <2>5. position \in [Sides -> 0 .. Wrap - 1]
      BY <1>5 DEF QueueInit
    <2>6. nodes \in [0 .. Size - 1 -> [object : 0 .. MaxObject, empty : BOOLEAN]]
      BY <1>5 DEF QueueInit
    <2> QED
      BY <1>2, <2>2, <2>3, <2>4, <2>5, <2>6 DEF QueueTypeOK
  <1>8. \A t \in Users : step[t].op = "none" /\ step[t].object = 0 /\ step[t].at = 0 /\ ~Holds(t)
    BY <1>6 DEF Resting, Holds, WithNode
  <1>9. \A i \in NodesOfRing : nodes[i].object = 0 /\ nodes[i].empty
    BY DEF QueueInit, NodesOfRing
  <1>10. pushed = <<>> /\ popped = {} /\ Accepted = {} /\ Half = {} /\ Poppers = {}
    <2>1. pushed = <<>> /\ popped = {}
      BY DEF QueueInit
    <2>2. Accepted = {}
      BY <2>1 DEF Accepted
    <2>3. Half = {} /\ Poppers = {}
      BY <1>8 DEF Half, Poppers
    <2> QED
      BY <2>1, <2>2, <2>3
  <1>11. RingObjects
    BY <1>8, <1>9, <1>10 DEF RingObjects
  <1>12. RingOnce
    <2>1. \A y \in 1 .. MaxObject : y # 0
      OBVIOUS
    <2> QED
      BY <1>9, <1>10, <2>1 DEF RingOnce
  <1>13. Entered = {} /\ Reserved(o) = {}
    BY <1>8 DEF Entered, Reserved, Reserves
  <1>14. Cardinality(Entered) = 0 /\ Cardinality(Reserved(o)) = 0
    BY <1>13, FS_EmptySet
  <1>15. able["push"] = Size /\ able["pop"] = 0
    BY DEF QueueInit
  <1>16. (side[o] = "push" /\ Many(o) = "pop") \/ (side[o] = "pop" /\ Many(o) = "push")
    BY <1>2, <1>4 DEF Sides, Many, Other
  <1>17. RingCounts(o)
    <2>1. able["push"] + able["pop"] + Cardinality(Entered) = Size
      BY <1>5, <1>14, <1>15
    <2>2. able[side[o]] >= 0 /\ able[Many(o)] >= 0
      BY <1>5, <1>15, <1>16
    <2>3. \A t \in Users : step[t].op # "countIn"
      BY <1>8
    <2> QED
      BY <1>4, <2>1, <2>2, <2>3 DEF RingCounts
  <1>18. Untaken(o) = IF side[o] = "push" THEN 0 ELSE Size
    BY <1>5, <1>14, <1>15, <1>16 DEF Untaken
  <1>19. Place(o) = 0 /\ Base(o) = 0
    <2>1. 0 % Size = 0
      BY <1>5
    <2>2. \A r \in Sides : position[r] = 0
      BY DEF QueueInit
    <2>3. side[o] \in Sides /\ Many(o) \in Sides
      BY <1>16 DEF Sides
    <2> QED
      BY <1>4, <1>8, <2>1, <2>2, <2>3 DEF Place, Base
  <1>20. RingPlaces(o)
    <2>1. Onward(0, 0) = 0 /\ Onward(0, Size) = 0
      BY <1>5 DEF Onward
    <2>2. ~HasPosition(o)
      BY <1>4, <1>8 DEF HasPosition
    <2> QED
      BY <1>4, <1>8, <1>18, <1>19, <2>1, <2>2 DEF RingPlaces
  <1>21. RingHeld(o)
    <2>1. \A i \in NodesOfRing : Ready(i, side[o]) <=> side[o] = "push"
      BY <1>9, <1>16 DEF Ready
    <2>2. \A i \in NodesOfRing : (Ahead(i, 0) >= Untaken(o)) <=> side[o] = "push"
      BY <1>5, <1>18 DEF Ahead, NodesOfRing
    <2> QED
      BY <1>8, <1>19, <2>1, <2>2 DEF RingHeld
  <1> QED
    BY <1>4, <1>7, <1>11, <1>12, <1>17, <1>20, <1>21 DEF RingIInv

LEMMA RingIsKept ==
  ASSUME Few, RingIInv, [QueueNext]_queueVars
  PROVE  RingIInv'
  <1>1. CASE UNCHANGED queueVars
    <2>1. side' = side /\ nodes' = nodes /\ position' = position /\ able' = able /\ step' = step
          /\ pushed' = pushed /\ popped' = popped
      BY <1>1 DEF queueVars
    <2>2. QueueTypeOK'
      BY <2>1 DEF RingIInv, QueueTypeOK
    <2>3. Accepted' = Accepted /\ Half' = Half /\ Poppers' = Poppers
      BY <2>1 DEF Accepted, Half, Poppers
    <2>4. RingObjects' /\ RingOnce'
      BY <2>1, <2>3 DEF RingIInv, RingObjects, RingOnce
    <2>5. PICK o \in Users : AloneAt(o) /\ RingCounts(o) /\ RingPlaces(o) /\ RingHeld(o)
      BY DEF RingIInv
    <2>6. Entered' = Entered /\ Reserved(o)' = Reserved(o) /\ Many(o)' = Many(o)
      BY <2>1 DEF Entered, Reserved, Many
    <2>7. Untaken(o)' = Untaken(o) /\ Place(o)' = Place(o)
      BY <2>1, <2>6 DEF Untaken, Place
    <2>8. \A u : Holds(u)' <=> Holds(u)
      BY <2>1 DEF Holds
    <2>9. Base(o)' = Base(o) /\ (HasPosition(o)' <=> HasPosition(o))
      BY <2>1, <2>8 DEF Base, HasPosition
    <2>10. AloneAt(o)' /\ RingCounts(o)'
      BY <2>1, <2>5, <2>6 DEF AloneAt, RingCounts
    <2>11. RingPlaces(o)'
      BY <2>1, <2>5, <2>7, <2>9 DEF RingPlaces, Ready
    <2>12. RingHeld(o)'
      BY <2>1, <2>5, <2>7, <2>8 DEF RingHeld, Ready
    <2> QED
      BY <2>2, <2>4, <2>10, <2>11, <2>12 DEF RingIInv
  <1>2. ASSUME NEW t \in Users, QueueStep(t) PROVE RingIInv'
    <2>1. QueueTypeOK /\ RingObjects /\ RingOnce
      BY DEF RingIInv
    <2>2. PICK o \in Users : AloneAt(o) /\ RingCounts(o) /\ RingPlaces(o) /\ RingHeld(o)
      BY DEF RingIInv
    <2>3. AloneAt(o)' /\ RingCounts(o)' /\ RingPlaces(o)' /\ RingHeld(o)'
      BY <1>2, <2>1, <2>2, RingKeeps
    <2>4. QueueTypeOK'
      BY <1>2, <2>1, <2>2, <2>3, QueueTypesKeep
    <2>5. NodesOwned
      BY <2>1, <2>2, NodesAreOwned
    <2>6. RingObjects' /\ RingOnce'
      BY <1>2, <2>1, <2>5, ObjectsKeep
    <2> QED
      BY <2>3, <2>4, <2>6 DEF RingIInv
  <1> QED
    BY <1>1, <1>2 DEF QueueNext

-----------------------------------------------------------------------------
(* What the invariant says of the ring.                                    *)
\* An image under a function that keeps different elements apart.
LEMMA ImageCount ==
  ASSUME NEW S, NEW T, NEW f, IsFiniteSet(S), f \in [S -> T], \A y \in T : \E x \in S : f[x] = y,
         \A x, y \in S : f[x] = f[y] => x = y
  PROVE  IsFiniteSet(T) /\ Cardinality(T) = Cardinality(S)
  <1>1. f \in Injection(S, T)
    BY DEF Injection, IsInjective
  <1>2. f \in Surjection(S, T)
    BY DEF Surjection
  <1> QED
    BY <1>1, <1>2, FS_Surjection

\* Different places have different objects, so there are as many objects as places.
LEMMA RingIsOnce ==
  ASSUME Few, QueueTypeOK, RingObjects, RingOnce
  PROVE  EachOnce
  <1> DEFINE Ring  == {i \in NodesOfRing : nodes[i].object # 0}
             Held  == {nodes[i].object : i \in Ring}
             Taken == {step[t].object : t \in Poppers}
             All   == Accepted \union Half
  <1>1. MaxObject \in Nat /\ Size \in Nat
    BY QueueAssumption
  <1>2. nodes \in [NodesOfRing -> [object : 0 .. MaxObject, empty : BOOLEAN]]
    BY DEF QueueTypeOK, NodesOfRing
  <1>3. \A t \in Users : step[t].object \in 0 .. MaxObject
    BY DEF QueueTypeOK
  <1>4. Poppers \subseteq Users /\ \A t \in Poppers : step[t].object # 0
    BY DEF RingObjects, Poppers
  <1>5. \A y \in 0 .. MaxObject : y # 0 => y \in 1 .. MaxObject
    BY <1>1
  <1>6. Accepted \subseteq 1 .. MaxObject
    <2>1. pushed \in Seq(1 .. MaxObject)
      BY DEF RingObjects
    <2>2. \A i \in DOMAIN pushed : pushed[i] \in 1 .. MaxObject
      BY <2>1, LenProperties, ElementOfSeq
    <2> QED
      BY <2>2 DEF Accepted
  <1>7. Half \subseteq 1 .. MaxObject
    <2> SUFFICES ASSUME NEW t \in Users, side[t] = "push", step[t].op = "flag" PROVE step[t].object \in 1 .. MaxObject
      BY DEF Half
    <2>1. step[t].object # 0
      BY DEF RingObjects
    <2> QED
      BY <1>3, <1>5, <2>1
  <1>8. Held \subseteq 1 .. MaxObject
    BY <1>2, <1>5
  <1>9. Taken \subseteq 1 .. MaxObject
    BY <1>3, <1>4, <1>5
  <1>10. popped \subseteq 1 .. MaxObject
    BY DEF RingObjects
  <1>11. \A y : y \in Held <=> y # 0 /\ \E i \in NodesOfRing : nodes[i].object = y
    OBVIOUS
  <1>12. \A y : y \in Taken <=> \E t \in Poppers : step[t].object = y
    OBVIOUS
  <1>13. 0 \notin 1 .. MaxObject
    OBVIOUS
  <1>14. \A y \in 1 .. MaxObject : y \in Accepted \/ y \in Half <=> y \in popped \/ y \in Held \/ y \in Taken
    <2> HIDE DEF Held, Taken
    <2> QED
      BY <1>11, <1>12, <1>13 DEF RingOnce
  <1>15. All = Held \union Taken \union popped
    <2> HIDE DEF Held, Taken
    <2> QED
      BY <1>6, <1>7, <1>8, <1>9, <1>10, <1>14
  <1>16. Held \cap Taken = {} /\ (Held \union Taken) \cap popped = {}
    BY DEF RingOnce
  <1>17. IsFiniteSet(Ring) /\ IsFiniteSet(Poppers) /\ IsFiniteSet(popped)
    <2>1. IsFiniteSet(NodesOfRing)
      BY <1>1, FS_Interval DEF NodesOfRing
    <2>2. IsFiniteSet(1 .. MaxObject)
      BY <1>1, FS_Interval
    <2> QED
      BY <1>4, <1>10, <2>1, <2>2, FS_Subset DEF Few
  <1>18. IsFiniteSet(Held) /\ Cardinality(Held) = Cardinality(Ring)
    <2> DEFINE f == [i \in Ring |-> nodes[i].object]
    <2>1. f \in [Ring -> Held] /\ \A y \in Held : \E i \in Ring : f[i] = y
      OBVIOUS
    <2>2. \A i, j \in Ring : f[i] = f[j] => i = j
      BY DEF RingOnce
    <2> HIDE DEF f, Ring, Held
    <2> QED
      BY <1>17, <2>1, <2>2, ImageCount
  <1>19. IsFiniteSet(Taken) /\ Cardinality(Taken) = Cardinality(Poppers)
    <2> DEFINE f == [t \in Poppers |-> step[t].object]
    <2>1. f \in [Poppers -> Taken] /\ \A y \in Taken : \E t \in Poppers : f[t] = y
      OBVIOUS
    <2>2. \A t, u \in Poppers : f[t] = f[u] => t = u
      BY DEF RingOnce
    <2> HIDE DEF f, Taken
    <2> QED
      BY <1>17, <2>1, <2>2, ImageCount
  <1> HIDE DEF Ring, Held, Taken, All
  <1>20. Cardinality(All) = Cardinality(Ring) + Cardinality(Poppers) + Cardinality(popped)
    <2>1. IsFiniteSet(Held \union Taken) /\ Cardinality(Held \union Taken) = Cardinality(Held) + Cardinality(Taken) - Cardinality({})
      <3>1. IsFiniteSet(Held) /\ IsFiniteSet(Taken) /\ Held \cap Taken = {}
        BY <1>16, <1>18, <1>19
      <3> QED
        BY <3>1, FS_Union
    <2>2. Cardinality(All) = Cardinality(Held \union Taken) + Cardinality(popped) - Cardinality({})
      BY <1>15, <1>16, <1>17, <2>1, FS_Union
    <2>3. Cardinality({}) = 0
      BY FS_EmptySet
    <2>4. Cardinality(Held) \in Nat /\ Cardinality(Taken) \in Nat /\ Cardinality(popped) \in Nat
      BY <1>17, <1>18, <1>19, FS_CardinalityType
    <2> QED
      BY <1>18, <1>19, <2>1, <2>2, <2>3, <2>4
  <1> QED
    BY <1>4, <1>15, <1>20 DEF EachOnce, Ring, Held, Taken, All, NodesOfRing, Poppers, Half

\* As many nodes are ready for the many as are within Untaken of the next one.
LEMMA AheadCount ==
  ASSUME NEW m \in NodesOfRing, NEW k \in 0 .. Size
  PROVE  LET T == {i \in NodesOfRing : Ahead(i, m) < k}
         IN  IsFiniteSet(T) /\ Cardinality(T) = k
  <1> DEFINE T == {i \in NodesOfRing : Ahead(i, m) < k}
             S == 0 .. k - 1
             f == [j \in S |-> Onward(m, j)]
  <1>1. Size \in Nat /\ k \in Nat /\ k <= Size
    BY QueueAssumption
  <1>2. IsFiniteSet(S) /\ Cardinality(S) = k
    BY <1>1, FS_Interval
  <1>3. \A j \in S : j \in 0 .. Size /\ j < Size /\ j \in NodesOfRing /\ j < k
    BY <1>1 DEF NodesOfRing
  <1>4. \A j \in S : Onward(m, j) \in NodesOfRing /\ Ahead(Onward(m, j), m) = j
    BY <1>3, OnwardIs
  <1>5. f \in [S -> T]
    BY <1>3, <1>4
  <1>6. \A x, y \in S : f[x] = f[y] => x = y
    BY <1>4
  <1>7. \A i \in T : \E j \in S : f[j] = i
    <2> TAKE i \in T
    <2>1. Ahead(i, m) \in NodesOfRing /\ Ahead(i, m) < k /\ i = Onward(m, Ahead(i, m))
      BY AheadIs
    <2>2. Ahead(i, m) \in S
      BY <1>1, <2>1 DEF NodesOfRing
    <2> QED
      BY <2>1, <2>2
  <1> HIDE DEF S, T, f
  <1>8. IsFiniteSet(T) /\ Cardinality(T) = Cardinality(S)
    BY <1>2, <1>5, <1>6, <1>7, ImageCount
  <1> QED
    BY <1>2, <1>8 DEF T

\* When nobody is counted in, the nodes ready for the many are just those Untaken.
LEMMA RingIsCounted ==
  ASSUME Few, QueueTypeOK, NEW o \in Users, AloneAt(o), RingCounts(o), RingPlaces(o), RingHeld(o)
  PROVE  CountsRight
  <1> SUFFICES ASSUME \A t \in Users : step[t].op = "none"
               PROVE  /\ able["pop"]  = Cardinality({i \in 0 .. Size - 1 : ~nodes[i].empty})
                      /\ able["push"] = Cardinality({i \in 0 .. Size - 1 : nodes[i].empty})
    BY DEF CountsRight
  <1> DEFINE m == Place(o)
             k == Untaken(o)
             T == {i \in NodesOfRing : Ahead(i, m) < k}
             E == {i \in NodesOfRing : nodes[i].empty}
             F == {i \in NodesOfRing : ~nodes[i].empty}
  <1>1. Entered = {} /\ Reserved(o) = {} /\ \A t \in Users : ~Holds(t)
    BY DEF Entered, Reserved, Reserves, Holds, WithNode
  <1>2. Cardinality(Entered) = 0 /\ Cardinality(Reserved(o)) = 0
    BY <1>1, FS_EmptySet
  <1>3. Size \in Nat
    BY QueueAssumption
  <1>4. k \in 0 .. Size /\ m \in NodesOfRing
    BY UntakenIs, RingFacts
  <1>5. able[Many(o)] = k
    BY <1>2, SideIs DEF Untaken
  <1>6. able[side[o]] = Size - k
    BY <1>2, <1>3, <1>4, <1>5, SideIs DEF RingCounts
  <1>7. \A i \in NodesOfRing : nodes[i].empty \in BOOLEAN
    BY RingFacts
  <1>8. \A i \in NodesOfRing : Ready(i, side[o]) <=> ~(Ahead(i, m) < k)
    <2>1. \A i \in NodesOfRing : Ahead(i, m) \in Int
      BY <1>4, AheadIs DEF NodesOfRing
    <2>2. \A i \in NodesOfRing : Ready(i, side[o]) <=> Ahead(i, m) >= k
      BY <1>1 DEF RingHeld
    <2> QED
      BY <1>4, <2>1, <2>2
  <1>9. IsFiniteSet(T) /\ Cardinality(T) = k
    BY <1>4, AheadCount
  <1>10. IsFiniteSet(NodesOfRing) /\ Cardinality(NodesOfRing) = Size
    <2>1. 0 \in Int /\ Size - 1 \in Int /\ (IF 0 > Size - 1 THEN 0 ELSE Size - 1 - 0 + 1) = Size
      BY <1>3
    <2>2. IsFiniteSet(0 .. Size - 1) /\ Cardinality(0 .. Size - 1) = IF 0 > Size - 1 THEN 0 ELSE Size - 1 - 0 + 1
      BY <2>1, FS_Interval
    <2> QED
      BY <2>1, <2>2 DEF NodesOfRing
  <1>11. Cardinality(NodesOfRing \ T) = Size - k
    <2>1. NodesOfRing \cap T = T
      OBVIOUS
    <2> HIDE DEF T
    <2>2. Cardinality(NodesOfRing \ T) = Cardinality(NodesOfRing) - Cardinality(NodesOfRing \cap T)
      BY <1>10, FS_Difference
    <2> QED
      BY <1>9, <1>10, <2>1, <2>2
  <1>12. CASE side[o] = "push"
    <2>1. Many(o) = "pop"
      BY <1>12 DEF Many, Other
    <2>2. F = T /\ E = NodesOfRing \ T
      BY <1>7, <1>8, <1>12 DEF Ready
    <2> QED
      BY <1>5, <1>6, <1>9, <1>11, <1>12, <2>1, <2>2 DEF NodesOfRing
  <1>13. CASE side[o] = "pop"
    <2>1. Many(o) = "push"
      BY <1>13 DEF Many, Other
    <2>2. E = T /\ F = NodesOfRing \ T
      BY <1>7, <1>8, <1>13 DEF Ready
    <2> QED
      BY <1>5, <1>6, <1>9, <1>11, <1>13, <2>1, <2>2 DEF NodesOfRing
  <1> QED
    BY <1>12, <1>13, SideIs DEF Sides

LEMMA RingIs ==
  ASSUME Few, RingIInv
  PROVE  QueueInv
  <1>1. QueueTypeOK /\ EachOnce
    BY RingIsOnce DEF RingIInv
  <1>2. CountsRight
    BY RingIsCounted DEF RingIInv
  <1> QED
    BY <1>1, <1>2 DEF QueueInv

(* Of at most three threads, one of them alone at its side, no object is   *)
(* lost or returned twice in the ring, and between calls its counts are    *)
(* right.                                                                  *)
THEOREM QueueInvHolds ==
  ASSUME Few
  PROVE  QueueInit /\ [][QueueNext]_queueVars => []QueueInv
  <1>1. QueueInit => RingIInv
    BY RingBegins
  <1>2. RingIInv /\ [QueueNext]_queueVars => RingIInv'
    BY RingIsKept
  <1>3. RingIInv => QueueInv
    BY RingIs
  <1> QED
    BY <1>1, <1>2, <1>3, PTL

(* A block has one user, the thread pool leaves nobody at work, and the    *)
(* ring loses nothing: whatever is exercised, the rest stays as it was.    *)
THEOREM ThreadsInvHolds ==
  ASSUME Few
  PROVE  MCSpec => []ThreadsInv
  <1>1. MCInit => PoolInit /\ QueueInit /\ TaskInit
    BY DEF MCInit
  <1>2. [MCNext]_<<what, poolVars, queueVars, taskVars, vars>> =>
          [PoolNext]_poolVars /\ [QueueNext]_queueVars /\ [TaskNext]_taskVars
    BY DEF MCNext
  <1>3. PoolInit /\ [][PoolNext]_poolVars => []PoolInv
    BY PoolInvHolds DEF PoolSpec
  <1>4. QueueInit /\ [][QueueNext]_queueVars => []QueueInv
    BY QueueInvHolds
  <1>5. TaskIInv => TaskInv
    BY TaskImplies
  <1>6. TaskInit => TaskIInv
    BY TaskInitKeeps
  <1>7. TaskIInv /\ [TaskNext]_taskVars => TaskIInv'
    BY TaskStepKeeps
  <1>8. PoolInv /\ QueueInv /\ TaskInv => ThreadsInv
    BY DEF ThreadsInv
  <1> QED
    BY <1>1, <1>2, <1>3, <1>4, <1>5, <1>6, <1>7, <1>8, PTL DEF MCSpec
=============================================================================
