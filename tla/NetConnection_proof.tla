------------------------- MODULE NetConnection_proof -------------------------
(***************************************************************************)
(* The order of the callbacks, the use count and that no data is passed    *)
(* over, for any number of workers and pollers.                            *)
(***************************************************************************)
EXTENDS NetConnection, FiniteSetTheorems, TLAPS

-----------------------------------------------------------------------------
(* The inductive invariant.                                                *)

(* A thread in CloseConnect holds the lock; as long as the connection is   *)
(* not cut it is listed, or about to be cut.                               *)
ClosingSteps == {"cut", "notify", "claim", "postClose", "release"}

LockInv ==
  /\ closing # None => pc[closing.by] \in ClosingSteps /\ ~listed
  /\ connected => listed \/ (closing # None /\ pc[closing.by] = "cut")
  /\ pc[Acceptor] = "accept" =>
       /\ ~listed /\ closing = None /\ ~armed /\ ~unseen /\ \A task \in DOMAIN queue : queue[task] = 0
       /\ readCount = 0 /\ closeCount = 0 /\ copies = 0
       /\ \A t \in Threads \ {Acceptor} : pc[t] = "idle"
  /\ \A t \in Threads :
       /\ pc[t] = "cut" => closing # None /\ closing.by = t
       /\ pc[t] \in {"notify", "claim", "postClose", "reset"} => ~connected

(* The task that calls OnConnect exists once, and nothing is received      *)
(* before it has watched the socket for data.                              *)
ConnectSteps == {"addSendable", "onConnect", "connected", "addData", "failed"}

DataSteps ==
  {"lookup", "receive", "count", "postMsg", "check", "reset", "arm", "onMsg", "readable", "disarm"}

ConnectInv ==
  /\ pc[Acceptor] \in {"accept", "posting"} \/ queue.connect > 0 =>
       connect = "no" /\ ~leaked /\ \A t \in Threads : At(t) \notin ConnectSteps
  /\ queue.connect <= (IF pc[Acceptor] \in {"accept", "posting"} THEN 0 ELSE 1)
  /\ \A t, u \in Threads : At(t) \in ConnectSteps /\ At(u) \in ConnectSteps => t = u
  /\ \A t \in Threads :
       /\ At(t) \in ConnectSteps => ~leaked
       /\ At(t) = "addSendable" => connect = "no"
       /\ At(t) = "onConnect" => connect = "running"
       /\ At(t) \in {"connected", "addData"} \union DataSteps => connect = "done"
  /\ armed \/ queue.msg > 0 => connect = "done"

(* Who has raised m_nReadCount from 0 owns the right to call OnMsg or      *)
(* OnCloseConnect, until he sets it back; for a close nobody does.         *)
MsgSteps == {"postMsg", "check", "reset", "arm", "onMsg", "readable", "disarm"}

CloseSteps == {"closeWorker", "onClose", "closeSocket"}

MsgOwner(t) == At(t) \in MsgSteps

CloseOwner(t) == pc[t] \in {"claim", "postClose"} \/ At(t) \in CloseSteps

Owner(t) == MsgOwner(t) \/ CloseOwner(t)

OwnerInv ==
  /\ \A t, u \in Threads : Owner(t) /\ Owner(u) => t = u
  /\ \A t \in Threads : ~(MsgOwner(t) /\ CloseOwner(t))
  /\ queue.msg + queue.close <= 1
  /\ queue.msg + queue.close > 0 => readCount > 0 /\ \A t \in Threads : ~Owner(t)
  /\ \A t \in Threads : Owner(t) => readCount > 0
  /\ readCount > 0 /\ connected => queue.msg > 0 \/ \E t \in Threads : MsgOwner(t)

ClaimInv ==
  /\ closeCount = 0 => close = "no" /\ queue.close = 0
  /\ closeCount > 0 => readCount > 0 /\ queue.msg = 0
  /\ queue.close > 0 => close = "no"
  /\ \A t \in Threads :
       /\ closeCount > 0 => ~MsgOwner(t) /\ pc[t] # "claim"
       /\ closeCount = 0 => pc[t] # "postClose" /\ At(t) \notin CloseSteps
       /\ pc[t] = "postClose" \/ At(t) = "closeWorker" => close = "no"
       /\ At(t) = "onClose" => close = "running"

IInv == TypeOK /\ LockInv /\ ConnectInv /\ OwnerInv /\ ClaimInv /\ UseCounted /\ NoneMissed

-----------------------------------------------------------------------------
(* Where threads are after a step.                                         *)
Steady(t) == \A u \in Threads \ {t} : At(u)' = At(u) /\ pc'[u] = pc[u]

Moves(t, from, to) ==
  /\ pc[t] = from /\ At(t) = from /\ pc'[t] = to /\ At(t)' = to
  /\ closing' = closing /\ Steady(t)

Goes(t, from, to) ==
  /\ pc[t] = from /\ pc'[t] = to
  /\ (At(t)' = At(t)) \/ (At(t) = from /\ At(t)' = to)
  /\ closing' = closing /\ Steady(t)

Enters(t, back) ==
  /\ At(t) = pc[t] /\ pc'[t] = "cut" /\ At(t)' = back
  /\ closing = None /\ closing' # None /\ closing'.by = t /\ Steady(t)
  /\ listed /\ ~listed' /\ UNCHANGED <<state, useCount, queue, copies, history>>

Leaves(t) ==
  /\ closing # None /\ closing.by = t /\ closing' = None
  /\ pc[t] = "release" /\ At(t)' = At(t) /\ pc'[t] = At(t) /\ At(t) \in Backs
  /\ Steady(t)

LEMMA Locked ==
  ASSUME TypeOK, LockInv
  PROVE  /\ closing = None => \A t \in Threads : At(t) = pc[t]
         /\ closing # None =>
              /\ closing.by \in Threads /\ pc[closing.by] \in ClosingSteps
              /\ closing.back \in Backs /\ At(closing.by) = closing.back
              /\ \A t \in Threads \ {closing.by} : At(t) = pc[t]
BY NetAssumption DEF TypeOK, LockInv, At

LEMMA GoMoves ==
  ASSUME TypeOK, LockInv, NEW t \in Threads, NEW from, NEW to,
         from \notin ClosingSteps, Go(t, from, to), closing' = closing
  PROVE  Moves(t, from, to)
BY NetAssumption DEF TypeOK, LockInv, Go, At, Moves, Steady

LEMMA GoCloses ==
  ASSUME TypeOK, LockInv, NEW t \in Threads, NEW from, NEW to,
         from \in ClosingSteps, Go(t, from, to), closing' = closing
  PROVE  Goes(t, from, to)
BY NetAssumption DEF TypeOK, LockInv, Go, At, Goes, Steady

LEMMA CloseEnters ==
  ASSUME TypeOK, LockInv, NEW t \in Threads, NEW back \in Backs, CloseConnect(t, back)
  PROVE  Enters(t, back)
<1>1. [by |-> t, back |-> back] # None
  BY NetAssumption
<1>2. /\ closing = None /\ closing' = [by |-> t, back |-> back]
      /\ pc' = [pc EXCEPT ![t] = "cut"]
      /\ listed /\ ~listed' /\ UNCHANGED <<state, useCount, queue, copies, history>>
  BY DEF CloseConnect, Unlocked
<1> QED BY <1>1, <1>2 DEF TypeOK, At, Enters, Steady

LEMMA ReleaseLeaves ==
  ASSUME TypeOK, LockInv, NEW t \in Threads, Release(t)
  PROVE  Leaves(t) \/ Moves(t, "release", "idle")
<1>1. CASE closing # None /\ closing.by = t
  BY <1>1, Locked, NetAssumption DEF TypeOK, Release, At, Leaves, Steady
<1>2. CASE ~(closing # None /\ closing.by = t)
  BY <1>2, NetAssumption DEF TypeOK, Release, At, Moves, Steady
<1> QED BY <1>1, <1>2

-----------------------------------------------------------------------------
(* The number of threads that hold a reference.                            *)
LEMMA HoldersFinite ==
  IsFiniteSet(Threads) /\ IsFiniteSet(Holders) /\ Cardinality(Holders) \in Nat
<1>1. IsFiniteSet({Acceptor, Main})
  <2>1. {Acceptor, Main} = {Acceptor} \union {Main} /\ IsFiniteSet({Acceptor})
    BY FS_Singleton
  <2> QED BY <2>1, FS_AddElement
<1>2. IsFiniteSet(Threads)
  BY <1>1, FS_Union, NetAssumption DEF Threads
<1> QED BY <1>2, FS_Subset, FS_CardinalityType DEF Holders

LEMMA HoldersSame ==
  ASSUME NEW t \in Threads, Steady(t), At(t) \in Away <=> At(t)' \in Away
  PROVE  Cardinality(Holders)' = Cardinality(Holders)
<1>1. Holders' = Holders
  BY DEF Steady, Holders
<1> QED BY <1>1

LEMMA HoldersMore ==
  ASSUME NEW t \in Threads, Steady(t), At(t) \in Away, At(t)' \notin Away
  PROVE  Cardinality(Holders)' = Cardinality(Holders) + 1
<1>1. Holders' = Holders \union {t} /\ t \notin Holders
  BY DEF Steady, Holders
<1> QED BY <1>1, HoldersFinite, FS_AddElement

LEMMA HoldersLess ==
  ASSUME NEW t \in Threads, Steady(t), At(t) \notin Away, At(t)' \in Away
  PROVE  Cardinality(Holders)' = Cardinality(Holders) - 1 /\ Cardinality(Holders) > 0
<1>1. Holders' = Holders \ {t} /\ t \in Holders
  BY DEF Steady, Holders
<1>2. Cardinality(Holders) # 0
  BY <1>1, HoldersFinite, FS_EmptySet
<1>3. Cardinality(Holders \ {t}) = Cardinality(Holders) - 1
  BY <1>1, HoldersFinite, FS_RemoveElement
<1> QED BY <1>1, <1>2, <1>3, HoldersFinite

-----------------------------------------------------------------------------
(* Every step of the engine keeps the invariant and is a step of Callbacks *)
(* or none.                                                                *)
LEMMA Preserved ==
  ASSUME IInv, Next
  PROVE  IInv' /\ [Promise!Next]_(Promise!vars)
<1> DEFINE Kept == IInv' /\ [Promise!Next]_(Promise!vars)
<1> SUFFICES ASSUME TypeOK, LockInv, ConnectInv, OwnerInv, ClaimInv, UseCounted, NoneMissed
             PROVE  Kept
  BY DEF IInv
<1> USE NetAssumption DEF state, history, Threads, Moves, Goes, Enters, Leaves, Steady, Unlocked, Post,
    ClosingSteps, ConnectSteps, DataSteps, MsgSteps, CloseSteps, Steps, Phases, Backs, Handlers, Away,
    MsgOwner, CloseOwner, Owner, Beginning, ReadingOn, One, NotifyStep, FirstStep, Disarmed
<1>1. ASSUME Accept PROVE Kept
  <2>1. Moves(Acceptor, "accept", "posting")
    BY <1>1, GoMoves DEF Accept
  <2>2. TypeOK'
    BY <1>1, <2>1 DEF Accept, Go, TypeOK
  <2>3. LockInv'
    BY <1>1, <2>1 DEF Accept, TypeOK, LockInv
  <2>4. ConnectInv'
    BY <1>1, <2>1 DEF Accept, TypeOK, LockInv, ConnectInv
  <2>5. OwnerInv'
    BY <1>1, <2>1 DEF Accept, TypeOK, LockInv, OwnerInv, ClaimInv
  <2>6. ClaimInv'
    BY <1>1, <2>1 DEF Accept, TypeOK, LockInv, OwnerInv, ClaimInv
  <2>7. UseCounted'
    <3>1. Holders = {} /\ ~leaked
      BY <1>1, <2>1, Locked DEF Holders, LockInv, ConnectInv, TypeOK
    <3>2. Cardinality(Holders)' = 1
      BY <1>1, <2>1, <3>1, HoldersMore, FS_EmptySet
    <3>3. queue.connect = 0 /\ queue.msg = 0 /\ queue.close = 0 /\ copies = 0
      BY <1>1, <2>1 DEF LockInv, TypeOK
    <3> QED BY <1>1, <2>1, <3>1, <3>2, <3>3 DEF Accept, UseCounted, TypeOK
  <2>8. NoneMissed'
    BY <1>1, <2>1 DEF Accept, TypeOK, LockInv, OwnerInv, NoneMissed
  <2>9. UNCHANGED Promise!vars
    BY <1>1, <2>1 DEF Accept, Promise!vars
  <2> QED BY <2>2, <2>3, <2>4, <2>5, <2>6, <2>7, <2>8, <2>9 DEF IInv
<1>2. ASSUME PostConnect PROVE Kept
  <2>1. Moves(Acceptor, "posting", "done")
    BY <1>2, GoMoves DEF PostConnect
  <2>2. TypeOK'
    BY <1>2, <2>1 DEF PostConnect, Go, TypeOK
  <2>3. LockInv'
    BY <1>2, <2>1 DEF PostConnect, TypeOK, LockInv
  <2>4. ConnectInv'
    BY <1>2, <2>1 DEF PostConnect, TypeOK, LockInv, ConnectInv
  <2>5. OwnerInv'
    BY <1>2, <2>1 DEF PostConnect, TypeOK, LockInv, OwnerInv, ClaimInv
  <2>6. ClaimInv'
    BY <1>2, <2>1 DEF PostConnect, TypeOK, LockInv, OwnerInv, ClaimInv
  <2>7. UseCounted'
    BY <1>2, <2>1, HoldersFinite, HoldersLess
    DEF PostConnect, TypeOK, LockInv, ConnectInv, UseCounted
  <2>8. NoneMissed'
    BY <1>2, <2>1 DEF PostConnect, TypeOK, LockInv, OwnerInv, NoneMissed
  <2>9. UNCHANGED Promise!vars
    BY <1>2, <2>1 DEF PostConnect, Promise!vars
  <2> QED BY <2>2, <2>3, <2>4, <2>5, <2>6, <2>7, <2>8, <2>9 DEF IInv
<1>3. ASSUME NEW w \in Workers, NEW task \in DOMAIN queue, TakeTask(w, task) PROVE Kept
  <2>1. Moves(w, "idle", FirstStep[task])
    <3>1. Go(w, "idle", FirstStep[task]) /\ closing' = closing
      BY <1>3 DEF TakeTask
    <3>2. "idle" \notin ClosingSteps
      OBVIOUS
    <3> QED BY <3>1, <3>2, GoMoves
  <2>2. TypeOK'
    BY <1>3, <2>1 DEF TakeTask, Go, TypeOK
  <2>3. LockInv'
    BY <1>3, <2>1 DEF TakeTask, TypeOK, LockInv
  <2>4. ConnectInv'
    BY <1>3, <2>1 DEF TakeTask, TypeOK, LockInv, ConnectInv
  <2>5. OwnerInv'
    BY <1>3, <2>1 DEF TakeTask, TypeOK, LockInv, OwnerInv, ClaimInv
  <2>6. ClaimInv'
    BY <1>3, <2>1 DEF TakeTask, TypeOK, LockInv, OwnerInv, ClaimInv
  <2>7. UseCounted'
    BY <1>3, <2>1, HoldersFinite, HoldersMore
    DEF TakeTask, TypeOK, LockInv, ConnectInv, UseCounted
  <2>8. NoneMissed'
    BY <1>3, <2>1 DEF TakeTask, TypeOK, LockInv, OwnerInv, NoneMissed
  <2>9. UNCHANGED Promise!vars
    BY <1>3, <2>1 DEF TakeTask, TypeOK, Promise!vars
  <2> QED BY <2>2, <2>3, <2>4, <2>5, <2>6, <2>7, <2>8, <2>9 DEF IInv
<1>4. ASSUME NEW w \in Workers, AddSendableMonitor(w) PROVE Kept
  <2>1. Moves(w, "addSendable", "onConnect")
    BY <1>4, GoMoves DEF AddSendableMonitor
  <2>2. TypeOK'
    BY <1>4, <2>1 DEF AddSendableMonitor, Go, TypeOK
  <2>3. LockInv'
    BY <1>4, <2>1 DEF AddSendableMonitor, TypeOK, LockInv
  <2>4. ConnectInv'
    BY <1>4, <2>1 DEF AddSendableMonitor, TypeOK, LockInv, ConnectInv
  <2>5. OwnerInv'
    BY <1>4, <2>1 DEF AddSendableMonitor, TypeOK, LockInv, OwnerInv, ClaimInv
  <2>6. ClaimInv'
    BY <1>4, <2>1 DEF AddSendableMonitor, TypeOK, LockInv, OwnerInv, ClaimInv
  <2>7. UseCounted'
    BY <1>4, <2>1, HoldersFinite, HoldersSame
    DEF AddSendableMonitor, TypeOK, LockInv, ConnectInv, UseCounted
  <2>8. NoneMissed'
    BY <1>4, <2>1 DEF AddSendableMonitor, TypeOK, LockInv, OwnerInv, NoneMissed
  <2>9. Promise!BeginConnect
    BY <1>4, <2>1 DEF AddSendableMonitor, Promise!BeginConnect, ConnectInv
  <2> QED BY <2>2, <2>3, <2>4, <2>5, <2>6, <2>7, <2>8, <2>9 DEF IInv, Promise!Next
<1>5. ASSUME NEW w \in Workers, AfterConnect(w) PROVE Kept
  <2>1. Moves(w, "onConnect", "connected")
    BY <1>5, GoMoves DEF AfterConnect
  <2>2. TypeOK'
    BY <1>5, <2>1 DEF AfterConnect, Go, TypeOK
  <2>3. LockInv'
    BY <1>5, <2>1 DEF AfterConnect, TypeOK, LockInv
  <2>4. ConnectInv'
    BY <1>5, <2>1 DEF AfterConnect, TypeOK, LockInv, ConnectInv
  <2>5. OwnerInv'
    BY <1>5, <2>1 DEF AfterConnect, TypeOK, LockInv, OwnerInv, ClaimInv
  <2>6. ClaimInv'
    BY <1>5, <2>1 DEF AfterConnect, TypeOK, LockInv, OwnerInv, ClaimInv
  <2>7. UseCounted'
    BY <1>5, <2>1, HoldersFinite, HoldersSame
    DEF AfterConnect, TypeOK, LockInv, ConnectInv, UseCounted
  <2>8. NoneMissed'
    BY <1>5, <2>1 DEF AfterConnect, TypeOK, LockInv, OwnerInv, NoneMissed
  <2>9. Promise!EndConnect
    BY <1>5, <2>1 DEF AfterConnect, Promise!EndConnect, ConnectInv
  <2> QED BY <2>2, <2>3, <2>4, <2>5, <2>6, <2>7, <2>8, <2>9 DEF IInv, Promise!Next
<1>6. ASSUME NEW w \in Workers, CheckConnected(w) PROVE Kept
  <2>1. Moves(w, "connected", IF connected THEN "addData" ELSE "release")
    <3>1. Go(w, "connected", IF connected THEN "addData" ELSE "release") /\ closing' = closing
      BY <1>6 DEF CheckConnected
    <3>2. "connected" \notin ClosingSteps
      OBVIOUS
    <3> QED BY <3>1, <3>2, GoMoves
  <2>2. TypeOK'
    BY <1>6, <2>1 DEF CheckConnected, Go, TypeOK
  <2>3. LockInv'
    BY <1>6, <2>1 DEF CheckConnected, TypeOK, LockInv
  <2>4. ConnectInv'
    BY <1>6, <2>1 DEF CheckConnected, TypeOK, LockInv, ConnectInv
  <2>5. OwnerInv'
    BY <1>6, <2>1 DEF CheckConnected, TypeOK, LockInv, OwnerInv, ClaimInv
  <2>6. ClaimInv'
    BY <1>6, <2>1 DEF CheckConnected, TypeOK, LockInv, OwnerInv, ClaimInv
  <2>7. UseCounted'
    BY <1>6, <2>1, HoldersFinite, HoldersSame
    DEF CheckConnected, TypeOK, LockInv, ConnectInv, UseCounted
  <2>8. NoneMissed'
    BY <1>6, <2>1 DEF CheckConnected, TypeOK, LockInv, OwnerInv, NoneMissed
  <2>9. UNCHANGED Promise!vars
    BY <1>6, <2>1 DEF CheckConnected, Promise!vars
  <2> QED BY <2>2, <2>3, <2>4, <2>5, <2>6, <2>7, <2>8, <2>9 DEF IInv
<1>7. ASSUME NEW w \in Workers, AddDataMonitor(w) PROVE Kept
  <2>1. Moves(w, "addData", "release")
    BY <1>7, GoMoves DEF AddDataMonitor
  <2>2. TypeOK'
    BY <1>7, <2>1 DEF AddDataMonitor, Go, TypeOK
  <2>3. LockInv'
    BY <1>7, <2>1 DEF AddDataMonitor, TypeOK, LockInv
  <2>4. ConnectInv'
    BY <1>7, <2>1 DEF AddDataMonitor, TypeOK, LockInv, ConnectInv
  <2>5. OwnerInv'
    BY <1>7, <2>1 DEF AddDataMonitor, TypeOK, LockInv, OwnerInv, ClaimInv
  <2>6. ClaimInv'
    BY <1>7, <2>1 DEF AddDataMonitor, TypeOK, LockInv, OwnerInv, ClaimInv
  <2>7. UseCounted'
    BY <1>7, <2>1, HoldersFinite, HoldersSame
    DEF AddDataMonitor, TypeOK, LockInv, ConnectInv, UseCounted
  <2>8. NoneMissed'
    BY <1>7, <2>1 DEF AddDataMonitor, TypeOK, LockInv, OwnerInv, NoneMissed
  <2>9. UNCHANGED Promise!vars
    BY <1>7, <2>1 DEF AddDataMonitor, Promise!vars
  <2> QED BY <2>2, <2>3, <2>4, <2>5, <2>6, <2>7, <2>8, <2>9 DEF IInv
<1>8. ASSUME NEW w \in Workers, MonitorFails(w) PROVE Kept
  <2>1. Moves(w, "addSendable", "failed") \/ Moves(w, "addData", "failed")
    BY <1>8, GoMoves DEF MonitorFails
  <2>2. TypeOK'
    BY <1>8, <2>1 DEF MonitorFails, Go, TypeOK
  <2>3. LockInv'
    BY <1>8, <2>1 DEF MonitorFails, TypeOK, LockInv
  <2>4. ConnectInv'
    BY <1>8, <2>1 DEF MonitorFails, TypeOK, LockInv, ConnectInv
  <2>5. OwnerInv'
    <3>1. CASE Moves(w, "addSendable", "failed")
      BY <1>8, <2>1, <3>1 DEF MonitorFails, TypeOK, LockInv, OwnerInv, ClaimInv
    <3>2. CASE Moves(w, "addData", "failed")
      BY <1>8, <2>1, <3>2 DEF MonitorFails, TypeOK, LockInv, OwnerInv, ClaimInv
    <3> QED BY <2>1, <3>1, <3>2
  <2>6. ClaimInv'
    <3>1. CASE Moves(w, "addSendable", "failed")
      BY <1>8, <2>1, <3>1 DEF MonitorFails, TypeOK, LockInv, OwnerInv, ClaimInv
    <3>2. CASE Moves(w, "addData", "failed")
      BY <1>8, <2>1, <3>2 DEF MonitorFails, TypeOK, LockInv, OwnerInv, ClaimInv
    <3> QED BY <2>1, <3>1, <3>2
  <2>7. UseCounted'
    BY <1>8, <2>1, HoldersFinite, HoldersSame
    DEF MonitorFails, TypeOK, LockInv, ConnectInv, UseCounted
  <2>8. NoneMissed'
    BY <1>8, <2>1 DEF MonitorFails, TypeOK, LockInv, OwnerInv, NoneMissed
  <2>9. UNCHANGED Promise!vars
    BY <1>8, <2>1 DEF MonitorFails, Promise!vars
  <2> QED BY <2>2, <2>3, <2>4, <2>5, <2>6, <2>7, <2>8, <2>9 DEF IInv
<1>9. ASSUME NEW w \in Workers, ReturnFailed(w) PROVE Kept
  <2>1. Moves(w, "failed", "idle")
    BY <1>9, GoMoves DEF ReturnFailed
  <2>2. TypeOK'
    BY <1>9, <2>1 DEF ReturnFailed, Go, TypeOK
  <2>3. LockInv'
    BY <1>9, <2>1 DEF ReturnFailed, TypeOK, LockInv
  <2>4. ConnectInv'
    BY <1>9, <2>1 DEF ReturnFailed, TypeOK, LockInv, ConnectInv
  <2>5. OwnerInv'
    BY <1>9, <2>1 DEF ReturnFailed, TypeOK, LockInv, OwnerInv, ClaimInv
  <2>6. ClaimInv'
    BY <1>9, <2>1 DEF ReturnFailed, TypeOK, LockInv, OwnerInv, ClaimInv
  <2>7. UseCounted'
    BY <1>9, <2>1, HoldersFinite, HoldersLess
    DEF ReturnFailed, TypeOK, LockInv, ConnectInv, UseCounted
  <2>8. NoneMissed'
    BY <1>9, <2>1 DEF ReturnFailed, TypeOK, LockInv, OwnerInv, NoneMissed
  <2>9. UNCHANGED Promise!vars
    BY <1>9, <2>1 DEF ReturnFailed, Promise!vars
  <2> QED BY <2>2, <2>3, <2>4, <2>5, <2>6, <2>7, <2>8, <2>9 DEF IInv
<1>10. ASSUME NEW w \in Workers, CheckConnect(w) PROVE Kept
  <2>1. Moves(w, "check", IF connected THEN "arm" ELSE "reset")
    <3>1. Go(w, "check", IF connected THEN "arm" ELSE "reset") /\ closing' = closing
      BY <1>10 DEF CheckConnect
    <3>2. "check" \notin ClosingSteps
      OBVIOUS
    <3> QED BY <3>1, <3>2, GoMoves
  <2>2. TypeOK'
    BY <1>10, <2>1 DEF CheckConnect, Go, TypeOK
  <2>3. LockInv'
    BY <1>10, <2>1 DEF CheckConnect, TypeOK, LockInv
  <2>4. ConnectInv'
    BY <1>10, <2>1 DEF CheckConnect, TypeOK, LockInv, ConnectInv
  <2>5. OwnerInv'
    BY <1>10, <2>1 DEF CheckConnect, TypeOK, LockInv, OwnerInv, ClaimInv
  <2>6. ClaimInv'
    BY <1>10, <2>1 DEF CheckConnect, TypeOK, LockInv, OwnerInv, ClaimInv
  <2>7. UseCounted'
    BY <1>10, <2>1, HoldersFinite, HoldersSame
    DEF CheckConnect, TypeOK, LockInv, ConnectInv, UseCounted
  <2>8. NoneMissed'
    BY <1>10, <2>1 DEF CheckConnect, TypeOK, LockInv, OwnerInv, NoneMissed
  <2>9. UNCHANGED Promise!vars
    BY <1>10, <2>1 DEF CheckConnect, Promise!vars
  <2> QED BY <2>2, <2>3, <2>4, <2>5, <2>6, <2>7, <2>8, <2>9 DEF IInv
<1>11. ASSUME NEW w \in Workers, ResetReads(w) PROVE Kept
  <2>1. Moves(w, "reset", "leave")
    BY <1>11, GoMoves DEF ResetReads
  <2>2. TypeOK'
    BY <1>11, <2>1 DEF ResetReads, Go, TypeOK
  <2>3. LockInv'
    BY <1>11, <2>1 DEF ResetReads, TypeOK, LockInv
  <2>4. ConnectInv'
    BY <1>11, <2>1 DEF ResetReads, TypeOK, LockInv, ConnectInv
  <2>5. OwnerInv'
    BY <1>11, <2>1 DEF ResetReads, TypeOK, LockInv, OwnerInv, ClaimInv
  <2>6. ClaimInv'
    BY <1>11, <2>1 DEF ResetReads, TypeOK, LockInv, OwnerInv, ClaimInv
  <2>7. UseCounted'
    BY <1>11, <2>1, HoldersFinite, HoldersSame
    DEF ResetReads, TypeOK, LockInv, ConnectInv, UseCounted
  <2>8. NoneMissed'
    BY <1>11, <2>1 DEF ResetReads, TypeOK, LockInv, OwnerInv, NoneMissed
  <2>9. UNCHANGED Promise!vars
    BY <1>11, <2>1 DEF ResetReads, Promise!vars
  <2> QED BY <2>2, <2>3, <2>4, <2>5, <2>6, <2>7, <2>8, <2>9 DEF IInv
<1>12. ASSUME NEW w \in Workers, BeginMsg(w) PROVE Kept
  <2>1. Moves(w, "arm", "onMsg")
    BY <1>12, GoMoves DEF BeginMsg
  <2>2. TypeOK'
    BY <1>12, <2>1 DEF BeginMsg, Go, TypeOK
  <2>3. LockInv'
    BY <1>12, <2>1 DEF BeginMsg, TypeOK, LockInv
  <2>4. ConnectInv'
    BY <1>12, <2>1 DEF BeginMsg, TypeOK, LockInv, ConnectInv
  <2>5. OwnerInv'
    BY <1>12, <2>1 DEF BeginMsg, TypeOK, LockInv, OwnerInv, ClaimInv
  <2>6. ClaimInv'
    BY <1>12, <2>1 DEF BeginMsg, TypeOK, LockInv, OwnerInv, ClaimInv
  <2>7. UseCounted'
    BY <1>12, <2>1, HoldersFinite, HoldersSame
    DEF BeginMsg, TypeOK, LockInv, ConnectInv, UseCounted
  <2>8. NoneMissed'
    BY <1>12, <2>1 DEF BeginMsg, TypeOK, LockInv, OwnerInv, NoneMissed
  <2>9. Promise!BeginMsg(w)
    BY <1>12, <2>1 DEF BeginMsg, Promise!BeginMsg, ConnectInv, OwnerInv, ClaimInv, TypeOK
  <2> QED BY <2>2, <2>3, <2>4, <2>5, <2>6, <2>7, <2>8, <2>9 DEF IInv, Promise!Next
<1>13. ASSUME NEW w \in Workers, EndMsg(w) PROVE Kept
  <2>1. Moves(w, "onMsg", "readable")
    BY <1>13, GoMoves DEF EndMsg
  <2>2. TypeOK'
    BY <1>13, <2>1 DEF EndMsg, Go, TypeOK
  <2>3. LockInv'
    BY <1>13, <2>1 DEF EndMsg, TypeOK, LockInv
  <2>4. ConnectInv'
    BY <1>13, <2>1 DEF EndMsg, TypeOK, LockInv, ConnectInv
  <2>5. OwnerInv'
    BY <1>13, <2>1 DEF EndMsg, TypeOK, LockInv, OwnerInv, ClaimInv
  <2>6. ClaimInv'
    BY <1>13, <2>1 DEF EndMsg, TypeOK, LockInv, OwnerInv, ClaimInv
  <2>7. UseCounted'
    BY <1>13, <2>1, HoldersFinite, HoldersSame
    DEF EndMsg, TypeOK, LockInv, ConnectInv, UseCounted
  <2>8. NoneMissed'
    BY <1>13, <2>1 DEF EndMsg, TypeOK, LockInv, OwnerInv, NoneMissed
  <2>9. Promise!EndMsg
    BY <1>13, <2>1 DEF EndMsg, Promise!EndMsg, OwnerInv
  <2> QED BY <2>2, <2>3, <2>4, <2>5, <2>6, <2>7, <2>8, <2>9 DEF IInv, Promise!Next
<1>14. ASSUME NEW w \in Workers, IsReadAble(w) PROVE Kept
  <2>1. Moves(w, "readable", "check") \/ Moves(w, "readable", "disarm")
    BY <1>14, GoMoves DEF IsReadAble
  <2>2. TypeOK'
    BY <1>14, <2>1 DEF IsReadAble, Go, TypeOK
  <2>3. LockInv'
    BY <1>14, <2>1 DEF IsReadAble, TypeOK, LockInv
  <2>4. ConnectInv'
    BY <1>14, <2>1 DEF IsReadAble, TypeOK, LockInv, ConnectInv
  <2>5. OwnerInv'
    BY <1>14, <2>1 DEF IsReadAble, TypeOK, LockInv, OwnerInv, ClaimInv
  <2>6. ClaimInv'
    BY <1>14, <2>1 DEF IsReadAble, TypeOK, LockInv, OwnerInv, ClaimInv
  <2>7. UseCounted'
    BY <1>14, <2>1, HoldersFinite, HoldersSame
    DEF IsReadAble, TypeOK, LockInv, ConnectInv, UseCounted
  <2>8. NoneMissed'
    BY <1>14, <2>1 DEF IsReadAble, TypeOK, LockInv, OwnerInv, NoneMissed
  <2>9. UNCHANGED Promise!vars
    BY <1>14, <2>1 DEF IsReadAble, Promise!vars
  <2> QED BY <2>2, <2>3, <2>4, <2>5, <2>6, <2>7, <2>8, <2>9 DEF IInv
<1>15. ASSUME NEW w \in Workers, Disarm(w) PROVE Kept
  <2>1. Moves(w, "disarm", Disarmed(readCount))
    <3>1. Go(w, "disarm", Disarmed(readCount)) /\ closing' = closing
      BY <1>15 DEF Disarm
    <3>2. "disarm" \notin ClosingSteps
      OBVIOUS
    <3> QED BY <3>1, <3>2, GoMoves
  <2>2. TypeOK'
    BY <1>15, <2>1 DEF Disarm, Go, TypeOK, OwnerInv
  <2>3. LockInv'
    BY <1>15, <2>1 DEF Disarm, TypeOK, LockInv
  <2>4. ConnectInv'
    BY <1>15, <2>1 DEF Disarm, TypeOK, LockInv, ConnectInv
  <2>5. OwnerInv'
    BY <1>15, <2>1 DEF Disarm, TypeOK, LockInv, OwnerInv, ClaimInv
  <2>6. ClaimInv'
    BY <1>15, <2>1 DEF Disarm, TypeOK, LockInv, OwnerInv, ClaimInv
  <2>7. UseCounted'
    BY <1>15, <2>1, HoldersFinite, HoldersSame
    DEF Disarm, TypeOK, LockInv, ConnectInv, UseCounted
  <2>8. NoneMissed'
    BY <1>15, <2>1 DEF Disarm, TypeOK, LockInv, OwnerInv, NoneMissed
  <2>9. UNCHANGED Promise!vars
    BY <1>15, <2>1 DEF Disarm, Promise!vars
  <2> QED BY <2>2, <2>3, <2>4, <2>5, <2>6, <2>7, <2>8, <2>9 DEF IInv
<1>16. ASSUME NEW w \in Workers, Leave(w) PROVE Kept
  <2>1. Moves(w, "leave", IF connected THEN "release" ELSE "notify")
    <3>1. Go(w, "leave", IF connected THEN "release" ELSE "notify") /\ closing' = closing
      BY <1>16 DEF Leave
    <3>2. "leave" \notin ClosingSteps
      OBVIOUS
    <3> QED BY <3>1, <3>2, GoMoves
  <2>2. TypeOK'
    BY <1>16, <2>1 DEF Leave, Go, TypeOK
  <2>3. LockInv'
    BY <1>16, <2>1 DEF Leave, TypeOK, LockInv
  <2>4. ConnectInv'
    BY <1>16, <2>1 DEF Leave, TypeOK, LockInv, ConnectInv
  <2>5. OwnerInv'
    BY <1>16, <2>1 DEF Leave, TypeOK, LockInv, OwnerInv, ClaimInv
  <2>6. ClaimInv'
    BY <1>16, <2>1 DEF Leave, TypeOK, LockInv, OwnerInv, ClaimInv
  <2>7. UseCounted'
    BY <1>16, <2>1, HoldersFinite, HoldersSame
    DEF Leave, TypeOK, LockInv, ConnectInv, UseCounted
  <2>8. NoneMissed'
    BY <1>16, <2>1 DEF Leave, TypeOK, LockInv, OwnerInv, NoneMissed
  <2>9. UNCHANGED Promise!vars
    BY <1>16, <2>1 DEF Leave, Promise!vars
  <2> QED BY <2>2, <2>3, <2>4, <2>5, <2>6, <2>7, <2>8, <2>9 DEF IInv
<1>17. ASSUME NEW w \in Workers, BeginClose(w) PROVE Kept
  <2>1. Moves(w, "closeWorker", "onClose")
    BY <1>17, GoMoves DEF BeginClose
  <2>2. TypeOK'
    BY <1>17, <2>1 DEF BeginClose, Go, TypeOK
  <2>3. LockInv'
    BY <1>17, <2>1 DEF BeginClose, TypeOK, LockInv
  <2>4. ConnectInv'
    BY <1>17, <2>1 DEF BeginClose, TypeOK, LockInv, ConnectInv
  <2>5. OwnerInv'
    BY <1>17, <2>1 DEF BeginClose, TypeOK, LockInv, OwnerInv, ClaimInv
  <2>6. ClaimInv'
    BY <1>17, <2>1 DEF BeginClose, TypeOK, LockInv, OwnerInv, ClaimInv
  <2>7. UseCounted'
    BY <1>17, <2>1, HoldersFinite, HoldersSame
    DEF BeginClose, TypeOK, LockInv, ConnectInv, UseCounted
  <2>8. NoneMissed'
    BY <1>17, <2>1 DEF BeginClose, TypeOK, LockInv, OwnerInv, NoneMissed
  <2>9. Promise!BeginClose
    BY <1>17, <2>1 DEF BeginClose, Promise!BeginClose, OwnerInv, ClaimInv
  <2> QED BY <2>2, <2>3, <2>4, <2>5, <2>6, <2>7, <2>8, <2>9 DEF IInv, Promise!Next
<1>18. ASSUME NEW w \in Workers, EndClose(w) PROVE Kept
  <2>1. Moves(w, "onClose", "closeSocket")
    BY <1>18, GoMoves DEF EndClose
  <2>2. TypeOK'
    BY <1>18, <2>1 DEF EndClose, Go, TypeOK
  <2>3. LockInv'
    BY <1>18, <2>1 DEF EndClose, TypeOK, LockInv
  <2>4. ConnectInv'
    BY <1>18, <2>1 DEF EndClose, TypeOK, LockInv, ConnectInv
  <2>5. OwnerInv'
    BY <1>18, <2>1 DEF EndClose, TypeOK, LockInv, OwnerInv, ClaimInv
  <2>6. ClaimInv'
    BY <1>18, <2>1 DEF EndClose, TypeOK, LockInv, OwnerInv, ClaimInv
  <2>7. UseCounted'
    BY <1>18, <2>1, HoldersFinite, HoldersSame
    DEF EndClose, TypeOK, LockInv, ConnectInv, UseCounted
  <2>8. NoneMissed'
    BY <1>18, <2>1 DEF EndClose, TypeOK, LockInv, OwnerInv, NoneMissed
  <2>9. Promise!EndClose
    BY <1>18, <2>1 DEF EndClose, Promise!EndClose, ClaimInv
  <2> QED BY <2>2, <2>3, <2>4, <2>5, <2>6, <2>7, <2>8, <2>9 DEF IInv, Promise!Next
<1>19. ASSUME NEW w \in Workers, CloseSocket(w) PROVE Kept
  <2>1. Moves(w, "closeSocket", "release")
    BY <1>19, GoMoves DEF CloseSocket
  <2>2. TypeOK'
    BY <1>19, <2>1 DEF CloseSocket, Go, TypeOK
  <2>3. LockInv'
    BY <1>19, <2>1 DEF CloseSocket, TypeOK, LockInv
  <2>4. ConnectInv'
    BY <1>19, <2>1 DEF CloseSocket, TypeOK, LockInv, ConnectInv
  <2>5. OwnerInv'
    BY <1>19, <2>1 DEF CloseSocket, TypeOK, LockInv, OwnerInv, ClaimInv
  <2>6. ClaimInv'
    BY <1>19, <2>1 DEF CloseSocket, TypeOK, LockInv, OwnerInv, ClaimInv
  <2>7. UseCounted'
    BY <1>19, <2>1, HoldersFinite, HoldersSame
    DEF CloseSocket, TypeOK, LockInv, ConnectInv, UseCounted
  <2>8. NoneMissed'
    BY <1>19, <2>1 DEF CloseSocket, TypeOK, LockInv, OwnerInv, NoneMissed
  <2>9. UNCHANGED Promise!vars
    BY <1>19, <2>1 DEF CloseSocket, Promise!vars
  <2> QED BY <2>2, <2>3, <2>4, <2>5, <2>6, <2>7, <2>8, <2>9 DEF IInv
<1>20. ASSUME NEW d \in Pollers, DataEvent(d) PROVE Kept
  <2>1. Moves(d, "idle", "lookup")
    BY <1>20, GoMoves DEF DataEvent
  <2>2. TypeOK'
    BY <1>20, <2>1 DEF DataEvent, Go, TypeOK
  <2>3. LockInv'
    BY <1>20, <2>1 DEF DataEvent, TypeOK, LockInv
  <2>4. ConnectInv'
    BY <1>20, <2>1 DEF DataEvent, TypeOK, LockInv, ConnectInv
  <2>5. OwnerInv'
    BY <1>20, <2>1 DEF DataEvent, TypeOK, LockInv, OwnerInv, ClaimInv
  <2>6. ClaimInv'
    BY <1>20, <2>1 DEF DataEvent, TypeOK, LockInv, OwnerInv, ClaimInv
  <2>7. UseCounted'
    BY <1>20, <2>1, HoldersFinite, HoldersSame
    DEF DataEvent, TypeOK, LockInv, ConnectInv, UseCounted
  <2>8. NoneMissed'
    BY <1>20, <2>1 DEF DataEvent, TypeOK, LockInv, OwnerInv, NoneMissed
  <2>9. UNCHANGED Promise!vars
    BY <1>20, <2>1 DEF DataEvent, Promise!vars
  <2> QED BY <2>2, <2>3, <2>4, <2>5, <2>6, <2>7, <2>8, <2>9 DEF IInv
<1>21. ASSUME NEW d \in Pollers, Found(d) PROVE Kept
  <2>1. Moves(d, "lookup", "receive")
    BY <1>21, GoMoves DEF Found
  <2>2. TypeOK'
    BY <1>21, <2>1 DEF Found, Go, TypeOK
  <2>3. LockInv'
    BY <1>21, <2>1 DEF Found, TypeOK, LockInv
  <2>4. ConnectInv'
    BY <1>21, <2>1 DEF Found, TypeOK, LockInv, ConnectInv
  <2>5. OwnerInv'
    BY <1>21, <2>1 DEF Found, TypeOK, LockInv, OwnerInv, ClaimInv
  <2>6. ClaimInv'
    BY <1>21, <2>1 DEF Found, TypeOK, LockInv, OwnerInv, ClaimInv
  <2>7. UseCounted'
    BY <1>21, <2>1, HoldersFinite, HoldersMore
    DEF Found, TypeOK, LockInv, ConnectInv, UseCounted
  <2>8. NoneMissed'
    BY <1>21, <2>1 DEF Found, TypeOK, LockInv, OwnerInv, NoneMissed
  <2>9. UNCHANGED Promise!vars
    BY <1>21, <2>1 DEF Found, Promise!vars
  <2> QED BY <2>2, <2>3, <2>4, <2>5, <2>6, <2>7, <2>8, <2>9 DEF IInv
<1>22. ASSUME NEW d \in Pollers, NotFound(d) PROVE Kept
  <2>1. Moves(d, "lookup", "idle") \/ Moves(d, "close", "idle")
    BY <1>22, GoMoves DEF NotFound
  <2>2. TypeOK'
    BY <1>22, <2>1 DEF NotFound, Go, TypeOK
  <2>3. LockInv'
    BY <1>22, <2>1 DEF NotFound, TypeOK, LockInv
  <2>4. ConnectInv'
    BY <1>22, <2>1 DEF NotFound, TypeOK, LockInv, ConnectInv
  <2>5. OwnerInv'
    BY <1>22, <2>1 DEF NotFound, TypeOK, LockInv, OwnerInv, ClaimInv
  <2>6. ClaimInv'
    BY <1>22, <2>1 DEF NotFound, TypeOK, LockInv, OwnerInv, ClaimInv
  <2>7. UseCounted'
    BY <1>22, <2>1, HoldersFinite, HoldersSame
    DEF NotFound, TypeOK, LockInv, ConnectInv, UseCounted
  <2>8. NoneMissed'
    BY <1>22, <2>1 DEF NotFound, TypeOK, LockInv, OwnerInv, NoneMissed
  <2>9. UNCHANGED Promise!vars
    BY <1>22, <2>1 DEF NotFound, Promise!vars
  <2> QED BY <2>2, <2>3, <2>4, <2>5, <2>6, <2>7, <2>8, <2>9 DEF IInv
<1>23. ASSUME NEW d \in Pollers, RecvData(d) PROVE Kept
  <2>1. Moves(d, "receive", "count")
    BY <1>23, GoMoves DEF RecvData
  <2>2. TypeOK'
    BY <1>23, <2>1 DEF RecvData, Go, TypeOK
  <2>3. LockInv'
    BY <1>23, <2>1 DEF RecvData, TypeOK, LockInv
  <2>4. ConnectInv'
    BY <1>23, <2>1 DEF RecvData, TypeOK, LockInv, ConnectInv
  <2>5. OwnerInv'
    BY <1>23, <2>1 DEF RecvData, TypeOK, LockInv, OwnerInv, ClaimInv
  <2>6. ClaimInv'
    BY <1>23, <2>1 DEF RecvData, TypeOK, LockInv, OwnerInv, ClaimInv
  <2>7. UseCounted'
    BY <1>23, <2>1, HoldersFinite, HoldersSame
    DEF RecvData, TypeOK, LockInv, ConnectInv, UseCounted
  <2>8. NoneMissed'
    BY <1>23, <2>1 DEF RecvData, TypeOK, LockInv, OwnerInv, NoneMissed
  <2>9. UNCHANGED Promise!vars
    BY <1>23, <2>1 DEF RecvData, Promise!vars
  <2> QED BY <2>2, <2>3, <2>4, <2>5, <2>6, <2>7, <2>8, <2>9 DEF IInv
<1>24. ASSUME NEW d \in Pollers, RecvFails(d) PROVE Kept
  <2>1. Moves(d, "receive", "lost")
    BY <1>24, GoMoves DEF RecvFails
  <2>2. TypeOK'
    BY <1>24, <2>1 DEF RecvFails, Go, TypeOK
  <2>3. LockInv'
    BY <1>24, <2>1 DEF RecvFails, TypeOK, LockInv
  <2>4. ConnectInv'
    BY <1>24, <2>1 DEF RecvFails, TypeOK, LockInv, ConnectInv
  <2>5. OwnerInv'
    BY <1>24, <2>1 DEF RecvFails, TypeOK, LockInv, OwnerInv, ClaimInv
  <2>6. ClaimInv'
    BY <1>24, <2>1 DEF RecvFails, TypeOK, LockInv, OwnerInv, ClaimInv
  <2>7. UseCounted'
    BY <1>24, <2>1, HoldersFinite, HoldersSame
    DEF RecvFails, TypeOK, LockInv, ConnectInv, UseCounted
  <2>8. NoneMissed'
    BY <1>24, <2>1 DEF RecvFails, TypeOK, LockInv, OwnerInv, NoneMissed
  <2>9. UNCHANGED Promise!vars
    BY <1>24, <2>1 DEF RecvFails, Promise!vars
  <2> QED BY <2>2, <2>3, <2>4, <2>5, <2>6, <2>7, <2>8, <2>9 DEF IInv
<1>25. ASSUME NEW d \in Pollers, CountData(d) PROVE Kept
  <2>1. Moves(d, "count", IF readCount = 0 THEN "postMsg" ELSE "leaveIt")
    <3>1. Go(d, "count", IF readCount = 0 THEN "postMsg" ELSE "leaveIt") /\ closing' = closing
      BY <1>25 DEF CountData
    <3>2. "count" \notin ClosingSteps
      OBVIOUS
    <3> QED BY <3>1, <3>2, GoMoves
  <2>2. TypeOK'
    BY <1>25, <2>1 DEF CountData, Go, TypeOK
  <2>3. LockInv'
    BY <1>25, <2>1 DEF CountData, TypeOK, LockInv
  <2>4. ConnectInv'
    BY <1>25, <2>1 DEF CountData, TypeOK, LockInv, ConnectInv
  <2>5. OwnerInv'
    BY <1>25, <2>1 DEF CountData, TypeOK, LockInv, OwnerInv, ClaimInv
  <2>6. ClaimInv'
    BY <1>25, <2>1 DEF CountData, TypeOK, LockInv, OwnerInv, ClaimInv
  <2>7. UseCounted'
    BY <1>25, <2>1, HoldersFinite, HoldersSame
    DEF CountData, TypeOK, LockInv, ConnectInv, UseCounted
  <2>8. NoneMissed'
    <3>1. readCount' = readCount + 1 /\ UNCHANGED <<unseen, connected, queue>>
      BY <1>25 DEF CountData
    <3>2. CASE readCount = 0
      BY <2>1, <3>1, <3>2 DEF NoneMissed
    <3>3. CASE readCount > 0 /\ connected
      <4>1. CASE queue.msg > 0
        BY <3>1, <4>1 DEF NoneMissed
      <4>2. ASSUME NEW t \in Threads, MsgOwner(t) PROVE NoneMissed'
        <5>1. t # d /\ At(t)' = At(t) /\ pc'[t] = pc[t]
          BY <2>1, <4>2
        <5>2. At(t) \in {"postMsg", "reset"} => pc[t] = At(t)
          BY Locked
        <5> QED BY <3>1, <3>3, <4>2, <5>1, <5>2 DEF NoneMissed, LockInv, TypeOK
      <4> QED BY <3>3, <4>1, <4>2 DEF OwnerInv
    <3> QED BY <3>1, <3>2, <3>3 DEF NoneMissed, TypeOK
  <2>9. UNCHANGED Promise!vars
    BY <1>25, <2>1 DEF CountData, Promise!vars
  <2> QED BY <2>2, <2>3, <2>4, <2>5, <2>6, <2>7, <2>8, <2>9 DEF IInv
<1>26. ASSUME NEW d \in Pollers, PostMsg(d) PROVE Kept
  <2>1. Moves(d, "postMsg", "idle")
    BY <1>26, GoMoves DEF PostMsg
  <2>2. TypeOK'
    BY <1>26, <2>1 DEF PostMsg, Go, TypeOK
  <2>3. LockInv'
    BY <1>26, <2>1 DEF PostMsg, TypeOK, LockInv
  <2>4. ConnectInv'
    BY <1>26, <2>1 DEF PostMsg, TypeOK, LockInv, ConnectInv
  <2>5. OwnerInv'
    BY <1>26, <2>1 DEF PostMsg, TypeOK, LockInv, OwnerInv, ClaimInv
  <2>6. ClaimInv'
    BY <1>26, <2>1 DEF PostMsg, TypeOK, LockInv, OwnerInv, ClaimInv
  <2>7. UseCounted'
    BY <1>26, <2>1, HoldersFinite, HoldersLess
    DEF PostMsg, TypeOK, LockInv, ConnectInv, UseCounted
  <2>8. NoneMissed'
    BY <1>26, <2>1 DEF PostMsg, TypeOK, LockInv, OwnerInv, NoneMissed
  <2>9. UNCHANGED Promise!vars
    BY <1>26, <2>1 DEF PostMsg, Promise!vars
  <2> QED BY <2>2, <2>3, <2>4, <2>5, <2>6, <2>7, <2>8, <2>9 DEF IInv
<1>27. ASSUME NEW d \in Pollers, OnSend(d) PROVE Kept
  <2>1. Moves(d, "idle", "sending")
    BY <1>27, GoMoves DEF OnSend
  <2>2. TypeOK'
    BY <1>27, <2>1 DEF OnSend, Go, TypeOK
  <2>3. LockInv'
    BY <1>27, <2>1 DEF OnSend, TypeOK, LockInv
  <2>4. ConnectInv'
    BY <1>27, <2>1 DEF OnSend, TypeOK, LockInv, ConnectInv
  <2>5. OwnerInv'
    BY <1>27, <2>1 DEF OnSend, TypeOK, LockInv, OwnerInv, ClaimInv
  <2>6. ClaimInv'
    BY <1>27, <2>1 DEF OnSend, TypeOK, LockInv, OwnerInv, ClaimInv
  <2>7. UseCounted'
    BY <1>27, <2>1, HoldersFinite, HoldersMore
    DEF OnSend, TypeOK, LockInv, ConnectInv, UseCounted
  <2>8. NoneMissed'
    BY <1>27, <2>1 DEF OnSend, TypeOK, LockInv, OwnerInv, NoneMissed
  <2>9. UNCHANGED Promise!vars
    BY <1>27, <2>1 DEF OnSend, Promise!vars
  <2> QED BY <2>2, <2>3, <2>4, <2>5, <2>6, <2>7, <2>8, <2>9 DEF IInv
<1>28. ASSUME NEW d \in Pollers, Drop(d) PROVE Kept
  <2>1. Moves(d, "leaveIt", "idle") \/ Moves(d, "sending", "idle") \/ Moves(d, "lost", "close")
    <3>1. CASE Go(d, "leaveIt", "idle")
      BY <1>28, <3>1, GoMoves DEF Drop
    <3>2. CASE Go(d, "sending", "idle")
      BY <1>28, <3>2, GoMoves DEF Drop
    <3>3. CASE Go(d, "lost", "close")
      BY <1>28, <3>3, GoMoves DEF Drop
    <3> QED BY <1>28, <3>1, <3>2, <3>3 DEF Drop
  <2>2. TypeOK'
    <3>1. Cardinality(Holders) \in Nat /\ Cardinality(Holders) > 0
      BY <1>28, <2>1, HoldersFinite, HoldersLess
    <3>2. useCount > 0
      BY <3>1 DEF UseCounted, TypeOK
    <3> QED BY <1>28, <2>1, <3>2 DEF Drop, Go, TypeOK
  <2>3. LockInv'
    BY <1>28, <2>1 DEF Drop, TypeOK, LockInv
  <2>4. ConnectInv'
    BY <1>28, <2>1 DEF Drop, TypeOK, LockInv, ConnectInv
  <2>5. OwnerInv'
    BY <1>28, <2>1 DEF Drop, TypeOK, LockInv, OwnerInv, ClaimInv
  <2>6. ClaimInv'
    BY <1>28, <2>1 DEF Drop, TypeOK, LockInv, OwnerInv, ClaimInv
  <2>7. UseCounted'
    <3>1. Cardinality(Holders)' = Cardinality(Holders) - 1
      BY <1>28, <2>1, HoldersLess
    <3> QED BY <1>28, <2>1, <3>1, HoldersFinite DEF Drop, UseCounted, TypeOK
  <2>8. NoneMissed'
    BY <1>28, <2>1 DEF Drop, TypeOK, LockInv, OwnerInv, NoneMissed
  <2>9. UNCHANGED Promise!vars
    BY <1>28, <2>1 DEF Drop, Promise!vars
  <2> QED BY <2>2, <2>3, <2>4, <2>5, <2>6, <2>7, <2>8, <2>9 DEF IInv
<1>29. ASSUME NEW t \in Threads, Cut(t) PROVE Kept
  <2>1. Goes(t, "cut", "notify")
    BY <1>29, GoCloses DEF Cut, ClosingSteps
  <2>2. TypeOK'
    BY <1>29, <2>1 DEF Cut, Go, TypeOK
  <2>3. LockInv'
    BY <1>29, <2>1 DEF Cut, TypeOK, LockInv
  <2>4. ConnectInv'
    BY <1>29, <2>1 DEF Cut, TypeOK, LockInv, ConnectInv
  <2>5. OwnerInv'
    BY <1>29, <2>1 DEF Cut, TypeOK, LockInv, OwnerInv, ClaimInv
  <2>6. ClaimInv'
    BY <1>29, <2>1 DEF Cut, TypeOK, LockInv, OwnerInv, ClaimInv
  <2>7. UseCounted'
    BY <1>29, <2>1, HoldersFinite, HoldersSame
    DEF Cut, TypeOK, LockInv, ConnectInv, UseCounted
  <2>8. NoneMissed'
    BY <1>29, <2>1 DEF Cut, TypeOK, LockInv, OwnerInv, NoneMissed
  <2>9. UNCHANGED Promise!vars
    BY <1>29, <2>1 DEF Cut, Promise!vars
  <2> QED BY <2>2, <2>3, <2>4, <2>5, <2>6, <2>7, <2>8, <2>9 DEF IInv
<1>30. ASSUME NEW t \in Threads, NotifyOnClose(t) PROVE Kept
  <2>1. Goes(t, "notify", NotifyStep(readCount))
    BY <1>30, GoCloses DEF NotifyOnClose, ClosingSteps
  <2>2. TypeOK'
    BY <1>30, <2>1 DEF NotifyOnClose, Go, TypeOK
  <2>3. LockInv'
    BY <1>30, <2>1 DEF NotifyOnClose, TypeOK, LockInv
  <2>4. ConnectInv'
    BY <1>30, <2>1 DEF NotifyOnClose, TypeOK, LockInv, ConnectInv
  <2>5. OwnerInv'
    BY <1>30, <2>1 DEF NotifyOnClose, TypeOK, LockInv, OwnerInv, ClaimInv
  <2>6. ClaimInv'
    BY <1>30, <2>1 DEF NotifyOnClose, TypeOK, LockInv, OwnerInv, ClaimInv
  <2>7. UseCounted'
    BY <1>30, <2>1, HoldersFinite, HoldersSame
    DEF NotifyOnClose, TypeOK, LockInv, ConnectInv, UseCounted
  <2>8. NoneMissed'
    BY <1>30, <2>1 DEF NotifyOnClose, TypeOK, LockInv, OwnerInv, NoneMissed
  <2>9. UNCHANGED Promise!vars
    BY <1>30, <2>1 DEF NotifyOnClose, Promise!vars
  <2> QED BY <2>2, <2>3, <2>4, <2>5, <2>6, <2>7, <2>8, <2>9 DEF IInv
<1>31. ASSUME NEW t \in Threads, Claim(t) PROVE Kept
  <2>1. Goes(t, "claim", IF closeCount = 0 THEN "postClose" ELSE "release")
    BY <1>31, GoCloses DEF Claim, ClosingSteps
  <2>2. TypeOK'
    BY <1>31, <2>1 DEF Claim, Go, TypeOK
  <2>3. LockInv'
    BY <1>31, <2>1 DEF Claim, TypeOK, LockInv
  <2>4. ConnectInv'
    BY <1>31, <2>1 DEF Claim, TypeOK, LockInv, ConnectInv
  <2>5. OwnerInv'
    BY <1>31, <2>1 DEF Claim, TypeOK, LockInv, OwnerInv, ClaimInv
  <2>6. ClaimInv'
    BY <1>31, <2>1 DEF Claim, TypeOK, LockInv, OwnerInv, ClaimInv
  <2>7. UseCounted'
    BY <1>31, <2>1, HoldersFinite, HoldersSame
    DEF Claim, TypeOK, LockInv, ConnectInv, UseCounted
  <2>8. NoneMissed'
    BY <1>31, <2>1 DEF Claim, TypeOK, LockInv, OwnerInv, NoneMissed
  <2>9. UNCHANGED Promise!vars
    BY <1>31, <2>1 DEF Claim, Promise!vars
  <2> QED BY <2>2, <2>3, <2>4, <2>5, <2>6, <2>7, <2>8, <2>9 DEF IInv
<1>32. ASSUME NEW t \in Threads, PostClose(t) PROVE Kept
  <2>1. Goes(t, "postClose", "release")
    BY <1>32, GoCloses DEF PostClose, ClosingSteps
  <2>2. TypeOK'
    BY <1>32, <2>1 DEF PostClose, Go, TypeOK
  <2>3. LockInv'
    BY <1>32, <2>1 DEF PostClose, TypeOK, LockInv
  <2>4. ConnectInv'
    BY <1>32, <2>1 DEF PostClose, TypeOK, LockInv, ConnectInv
  <2>5. OwnerInv'
    <3>1. /\ queue' = [queue EXCEPT !.close = @ + 1]
          /\ UNCHANGED <<readCount, connected>>
      BY <1>32, <2>1 DEF PostClose
    <3>2. Owner(t) /\ ~MsgOwner(t) /\ readCount > 0 /\ queue.msg + queue.close = 0
      BY <1>32, <2>1 DEF OwnerInv, TypeOK
    <3>3. \A u \in Threads : ~Owner(u)' /\ MsgOwner(u)' = MsgOwner(u)
      BY <1>32, <2>1, <3>2, Locked DEF OwnerInv, ClaimInv
    <3> QED BY <3>1, <3>2, <3>3 DEF OwnerInv, TypeOK, LockInv
  <2>6. ClaimInv'
    BY <1>32, <2>1 DEF PostClose, TypeOK, LockInv, OwnerInv, ClaimInv
  <2>7. UseCounted'
    BY <1>32, <2>1, HoldersFinite, HoldersSame
    DEF PostClose, TypeOK, LockInv, ConnectInv, UseCounted
  <2>8. NoneMissed'
    BY <1>32, <2>1 DEF PostClose, TypeOK, LockInv, OwnerInv, NoneMissed
  <2>9. UNCHANGED Promise!vars
    BY <1>32, <2>1 DEF PostClose, Promise!vars
  <2> QED BY <2>2, <2>3, <2>4, <2>5, <2>6, <2>7, <2>8, <2>9 DEF IInv
<1>33. ASSUME NEW t \in Threads, Release(t) PROVE Kept
  <2>1. Leaves(t) \/ Moves(t, "release", "idle")
    BY <1>33, ReleaseLeaves
  <2>2. TypeOK'
    <3>1. Cardinality(Holders) \in Nat
      BY HoldersFinite
    <3>2. (closing # None /\ closing.by = t) \/ Cardinality(Holders) > 0
      BY <1>33, <2>1, HoldersLess
    <3>3. useCount > 0
      BY <3>1, <3>2 DEF UseCounted, TypeOK
    <3> QED BY <1>33, <2>1, <3>3 DEF Release, TypeOK
  <2>3. LockInv'
    BY <1>33, <2>1 DEF Release, TypeOK, LockInv
  <2>4. ConnectInv'
    BY <1>33, <2>1 DEF Release, TypeOK, LockInv, ConnectInv
  <2>5. OwnerInv'
    BY <1>33, <2>1 DEF Release, TypeOK, LockInv, OwnerInv, ClaimInv
  <2>6. ClaimInv'
    BY <1>33, <2>1 DEF Release, TypeOK, LockInv, OwnerInv, ClaimInv
  <2>7. UseCounted'
    BY <1>33, <2>1, HoldersFinite, HoldersSame, HoldersLess
    DEF Release, TypeOK, LockInv, ConnectInv, UseCounted
  <2>8. NoneMissed'
    BY <1>33, <2>1 DEF Release, TypeOK, LockInv, OwnerInv, NoneMissed
  <2>9. UNCHANGED Promise!vars
    BY <1>33, <2>1 DEF Release, Promise!vars
  <2> QED BY <2>2, <2>3, <2>4, <2>5, <2>6, <2>7, <2>8, <2>9 DEF IInv
<1>34. ASSUME HeartMonitor PROVE Kept
  <2>1. Enters(Main, "idle") /\ "idle" \in Backs
    BY <1>34, CloseEnters DEF HeartMonitor
  <2>2. TypeOK'
    BY <1>34, <2>1 DEF HeartMonitor, CloseConnect, TypeOK
  <2>3. LockInv'
    BY <1>34, <2>1 DEF HeartMonitor, TypeOK, LockInv
  <2>4. ConnectInv'
    BY <1>34, <2>1 DEF HeartMonitor, TypeOK, LockInv, ConnectInv
  <2>5. OwnerInv'
    BY <1>34, <2>1 DEF HeartMonitor, TypeOK, LockInv, OwnerInv, ClaimInv
  <2>6. ClaimInv'
    BY <1>34, <2>1 DEF HeartMonitor, TypeOK, LockInv, OwnerInv, ClaimInv
  <2>7. UseCounted'
    BY <1>34, <2>1, HoldersFinite, HoldersSame
    DEF HeartMonitor, TypeOK, LockInv, ConnectInv, UseCounted
  <2>8. NoneMissed'
    BY <1>34, <2>1 DEF HeartMonitor, TypeOK, LockInv, OwnerInv, NoneMissed
  <2>9. UNCHANGED Promise!vars
    BY <1>34, <2>1 DEF HeartMonitor, Promise!vars
  <2> QED BY <2>2, <2>3, <2>4, <2>5, <2>6, <2>7, <2>8, <2>9 DEF IInv
<1>35. ASSUME NEW w \in Workers, CloseFailed(w) PROVE Kept
  <2>1. Enters(w, "release") /\ "release" \in Backs
    BY <1>35, CloseEnters DEF CloseFailed
  <2>2. TypeOK'
    BY <1>35, <2>1 DEF CloseFailed, CloseConnect, TypeOK
  <2>3. LockInv'
    BY <1>35, <2>1 DEF CloseFailed, TypeOK, LockInv
  <2>4. ConnectInv'
    BY <1>35, <2>1 DEF CloseFailed, TypeOK, LockInv, ConnectInv
  <2>5. OwnerInv'
    BY <1>35, <2>1 DEF CloseFailed, TypeOK, LockInv, OwnerInv, ClaimInv
  <2>6. ClaimInv'
    BY <1>35, <2>1 DEF CloseFailed, TypeOK, LockInv, OwnerInv, ClaimInv
  <2>7. UseCounted'
    BY <1>35, <2>1, HoldersFinite, HoldersSame
    DEF CloseFailed, TypeOK, LockInv, ConnectInv, UseCounted
  <2>8. NoneMissed'
    BY <1>35, <2>1 DEF CloseFailed, TypeOK, LockInv, OwnerInv, NoneMissed
  <2>9. UNCHANGED Promise!vars
    BY <1>35, <2>1 DEF CloseFailed, Promise!vars
  <2> QED BY <2>2, <2>3, <2>4, <2>5, <2>6, <2>7, <2>8, <2>9 DEF IInv
<1>36. ASSUME NEW d \in Pollers, OnClose(d) PROVE Kept
  <2>1. Enters(d, "idle") /\ "idle" \in Backs
    BY <1>36, CloseEnters DEF OnClose
  <2>2. TypeOK'
    BY <1>36, <2>1 DEF OnClose, CloseConnect, TypeOK
  <2>3. LockInv'
    BY <1>36, <2>1 DEF OnClose, TypeOK, LockInv
  <2>4. ConnectInv'
    BY <1>36, <2>1 DEF OnClose, TypeOK, LockInv, ConnectInv
  <2>5. OwnerInv'
    BY <1>36, <2>1 DEF OnClose, TypeOK, LockInv, OwnerInv, ClaimInv
  <2>6. ClaimInv'
    BY <1>36, <2>1 DEF OnClose, TypeOK, LockInv, OwnerInv, ClaimInv
  <2>7. UseCounted'
    BY <1>36, <2>1, HoldersFinite, HoldersSame
    DEF OnClose, TypeOK, LockInv, ConnectInv, UseCounted
  <2>8. NoneMissed'
    BY <1>36, <2>1 DEF OnClose, TypeOK, LockInv, OwnerInv, NoneMissed
  <2>9. UNCHANGED Promise!vars
    BY <1>36, <2>1 DEF OnClose, Promise!vars
  <2> QED BY <2>2, <2>3, <2>4, <2>5, <2>6, <2>7, <2>8, <2>9 DEF IInv
<1>37. ASSUME NEW w \in Workers, HandlerCloses(w) PROVE Kept
  <2>1. Enters(w, pc[w]) /\ pc[w] \in Backs
    BY <1>37, CloseEnters DEF HandlerCloses
  <2>2. TypeOK'
    BY <1>37, <2>1 DEF HandlerCloses, CloseConnect, TypeOK
  <2>3. LockInv'
    BY <1>37, <2>1 DEF HandlerCloses, TypeOK, LockInv
  <2>4. ConnectInv'
    BY <1>37, <2>1 DEF HandlerCloses, TypeOK, LockInv, ConnectInv
  <2>5. OwnerInv'
    BY <1>37, <2>1 DEF HandlerCloses, TypeOK, LockInv, OwnerInv, ClaimInv
  <2>6. ClaimInv'
    BY <1>37, <2>1 DEF HandlerCloses, TypeOK, LockInv, OwnerInv, ClaimInv
  <2>7. UseCounted'
    BY <1>37, <2>1, HoldersFinite, HoldersSame
    DEF HandlerCloses, TypeOK, LockInv, ConnectInv, UseCounted
  <2>8. NoneMissed'
    BY <1>37, <2>1 DEF HandlerCloses, TypeOK, LockInv, OwnerInv, NoneMissed
  <2>9. UNCHANGED Promise!vars
    BY <1>37, <2>1 DEF HandlerCloses, Promise!vars
  <2> QED BY <2>2, <2>3, <2>4, <2>5, <2>6, <2>7, <2>8, <2>9 DEF IInv
<1>38. ASSUME NEW w \in Workers, KeepHost(w) PROVE Kept
  <2>1. pc' = pc /\ closing' = closing /\ \A t \in Threads : At(t)' = At(t)
    BY <1>38 DEF KeepHost, At
  <2>2. TypeOK'
    BY <1>38, <2>1 DEF KeepHost, TypeOK
  <2>3. LockInv'
    BY <1>38, <2>1 DEF KeepHost, TypeOK, LockInv
  <2>4. ConnectInv'
    BY <1>38, <2>1 DEF KeepHost, TypeOK, LockInv, ConnectInv
  <2>5. OwnerInv'
    BY <1>38, <2>1 DEF KeepHost, TypeOK, LockInv, OwnerInv, ClaimInv
  <2>6. ClaimInv'
    BY <1>38, <2>1 DEF KeepHost, TypeOK, LockInv, OwnerInv, ClaimInv
  <2>7. UseCounted'
    BY <1>38, <2>1, HoldersFinite, HoldersSame
    DEF KeepHost, TypeOK, LockInv, ConnectInv, UseCounted
  <2>8. NoneMissed'
    BY <1>38, <2>1 DEF KeepHost, TypeOK, LockInv, OwnerInv, NoneMissed
  <2>9. UNCHANGED Promise!vars
    BY <1>38, <2>1 DEF KeepHost, Promise!vars
  <2> QED BY <2>2, <2>3, <2>4, <2>5, <2>6, <2>7, <2>8, <2>9 DEF IInv
<1>39. ASSUME DropHost PROVE Kept
  <2>1. pc' = pc /\ closing' = closing /\ \A t \in Threads : At(t)' = At(t)
    BY <1>39 DEF DropHost, At
  <2>2. TypeOK'
    <3>1. Cardinality(Holders) \in Nat
      BY HoldersFinite
    <3>2. useCount > 0
      BY <1>39, <2>1, <3>1 DEF DropHost, UseCounted, TypeOK
    <3> QED BY <1>39, <2>1, <3>2 DEF DropHost, TypeOK
  <2>3. LockInv'
    BY <1>39, <2>1 DEF DropHost, TypeOK, LockInv
  <2>4. ConnectInv'
    BY <1>39, <2>1 DEF DropHost, TypeOK, LockInv, ConnectInv
  <2>5. OwnerInv'
    BY <1>39, <2>1 DEF DropHost, TypeOK, LockInv, OwnerInv, ClaimInv
  <2>6. ClaimInv'
    BY <1>39, <2>1 DEF DropHost, TypeOK, LockInv, OwnerInv, ClaimInv
  <2>7. UseCounted'
    BY <1>39, <2>1, HoldersFinite, HoldersSame
    DEF DropHost, TypeOK, LockInv, ConnectInv, UseCounted
  <2>8. NoneMissed'
    BY <1>39, <2>1 DEF DropHost, TypeOK, LockInv, OwnerInv, NoneMissed
  <2>9. UNCHANGED Promise!vars
    BY <1>39, <2>1 DEF DropHost, Promise!vars
  <2> QED BY <2>2, <2>3, <2>4, <2>5, <2>6, <2>7, <2>8, <2>9 DEF IInv
<1> QED BY <1>1, <1>2, <1>3, <1>4, <1>5, <1>6, <1>7, <1>8, <1>9, <1>10, <1>11, <1>12, <1>13, <1>14,
    <1>15, <1>16, <1>17, <1>18, <1>19, <1>20, <1>21, <1>22, <1>23, <1>24, <1>25, <1>26, <1>27,
    <1>28, <1>29, <1>30, <1>31, <1>32, <1>33, <1>34, <1>35, <1>36, <1>37, <1>38, <1>39
  DEF Next, CloseStep, WorkerStep, ConnectStep, MsgStep, PollerStep

LEMMA Initially == Init => IInv /\ Promise!Init
<1> SUFFICES ASSUME Init PROVE IInv /\ Promise!Init
  OBVIOUS
<1>1. \A t \in Threads : At(t) = pc[t] /\ pc[t] \in {"accept", "idle"} /\ (pc[t] = "accept" => t = Acceptor)
  BY DEF Init, At
<1>2. pc[Acceptor] = "accept"
  BY DEF Init, Threads
<1>3. TypeOK
  <2>1. pc \in [Threads -> Steps]
    BY DEF Init, Steps
  <2>2. queue \in [{"connect", "msg", "close"} -> Nat]
    BY DEF Init
  <2>3. copies \in 0 .. MaxCopies
    BY NetAssumption DEF Init
  <2> QED BY <2>1, <2>2, <2>3 DEF Init, TypeOK, Phases
<1>4. LockInv
  BY <1>1, <1>2 DEF Init, LockInv
<1>5. ConnectInv
  BY <1>1, <1>2 DEF Init, ConnectInv, ConnectSteps, DataSteps
<1>6. OwnerInv /\ ClaimInv
  BY <1>1 DEF Init, OwnerInv, ClaimInv, MsgOwner, CloseOwner, Owner, MsgSteps, CloseSteps
<1>7. UseCounted
  <2>1. Holders = {}
    BY <1>1 DEF Holders, Away
  <2> QED BY <2>1, FS_EmptySet DEF Init, UseCounted, One
<1>8. NoneMissed
  BY DEF Init, NoneMissed
<1>9. Promise!Init
  BY <1>1, NetAssumption DEF Init, Promise!Init, Threads
<1> QED BY <1>3, <1>4, <1>5, <1>6, <1>7, <1>8, <1>9 DEF IInv

LEMMA Stutters ==
  ASSUME IInv, UNCHANGED vars
  PROVE  IInv' /\ UNCHANGED Promise!vars
<1> USE DEF vars, state, history
<1>1. \A t \in Threads : At(t)' = At(t)
  BY DEF At
<1>2. Holders' = Holders
  BY <1>1 DEF Holders
<1>3. TypeOK' /\ LockInv'
  BY DEF IInv, TypeOK, LockInv
<1>4. ConnectInv'
  BY <1>1 DEF IInv, ConnectInv
<1>5. OwnerInv' /\ ClaimInv'
  BY <1>1 DEF IInv, OwnerInv, ClaimInv, MsgOwner, CloseOwner, Owner
<1>6. UseCounted'
  BY <1>2 DEF IInv, UseCounted
<1>7. NoneMissed'
  BY <1>1 DEF IInv, NoneMissed, Beginning, ReadingOn
<1>8. UNCHANGED Promise!vars
  BY <1>1, NetAssumption DEF Promise!vars, Threads
<1> QED BY <1>3, <1>4, <1>5, <1>6, <1>7, <1>8 DEF IInv

-----------------------------------------------------------------------------
(* The strengthened invariant holds in every state.                        *)
THEOREM Invariance == Spec => []IInv
<1>1. IInv /\ [Next]_vars => IInv'
  BY Preserved, Stutters
<1> QED BY <1>1, Initially, PTL DEF Spec

(* Every variable keeps its type; m_nReadCount and m_useCount in           *)
(* particular do not fall below 0 (NetEngine.cpp:504, NetConnect.cpp:61).  *)
THEOREM TypeCorrect == Spec => []TypeOK
<1>1. IInv => TypeOK
  BY DEF IInv
<1> QED BY <1>1, Invariance, PTL

(* A connection is freed when nobody uses it any more, and then only       *)
(* (NetConnect.cpp:61).                                                    *)
THEOREM UseCountedHolds == Spec => []UseCounted
<1>1. IInv => UseCounted
  BY DEF IInv
<1> QED BY <1>1, Invariance, PTL

(* Data that has come after OnMsg was called is followed by another OnMsg, *)
(* unless the connection is closed (NetEngine.cpp:472).                    *)
THEOREM NoneMissedHolds == Spec => []NoneMissed
<1>1. IInv => NoneMissed
  BY DEF IInv
<1> QED BY <1>1, Invariance, PTL

(* The callbacks come as Callbacks has it: OnMsg one at a time, after      *)
(* OnConnect and before OnCloseConnect, which comes at most once           *)
(* (NetEngine.cpp:264, :376, :462).                                        *)
THEOREM CallbacksInOrder == Spec => Ordered
<1>1. IInv /\ [Next]_vars => [Promise!Next]_(Promise!vars)
  BY Preserved, Stutters
<1> QED BY <1>1, Initially, Invariance, PTL DEF Spec, Ordered, Promise!Spec

=============================================================================
