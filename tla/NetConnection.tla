--------------------------- MODULE NetConnection ---------------------------
(***************************************************************************)
(* The life of one connection in the multi-threaded network engine         *)
(* (mdk NetEngine, NetConnect, EpollFrame, EpollMonitor).                   *)
(*                                                                         *)
(* The acceptor lists a new connection and has a worker call OnConnect.    *)
(* Then data is waited for; a poller that gets the event receives it and,  *)
(* when no worker is reading, has one call OnMsg until nothing is left.    *)
(* Whoever closes the connection takes it off the list and sees to it that *)
(* a worker calls OnCloseConnect, or leaves that to the worker who is      *)
(* reading.  The object is freed when its use count comes to 0.            *)
(*                                                                         *)
(* Each atomic operation on what threads share is an action.  A connection *)
(* id is never used again, so there is one connection; queued tasks are    *)
(* started in any order, for a worker may be slow to begin; handlers may   *)
(* do anything a server may: read, close, keep copies of the NetHost.      *)
(***************************************************************************)
EXTENDS Naturals, FiniteSets

CONSTANTS
  Workers,    \* threads of m_workThreads
  Pollers,    \* threads of m_ioThreads that wait for data or for sending
  Acceptor,   \* the thread that accepts the connection
  Main,       \* the main thread, with the heart beat
  MaxReads,   \* bound of the model: events do not come while m_nReadCount is this high
  MaxCopies,  \* bound of the model: NetHosts a server keeps
  None

Threads == Workers \union Pollers \union {Acceptor, Main}

(* The handlers of a server, and where CloseConnect can return to.         *)
Handlers == {"onConnect", "onMsg", "onClose"}

Backs == {"idle", "release"} \union Handlers

ASSUME NetAssumption ==
  /\ IsFiniteSet(Workers) /\ IsFiniteSet(Pollers)
  /\ Workers \intersect Pollers = {}
  /\ Acceptor # Main /\ {Acceptor, Main} \intersect (Workers \union Pollers) = {}
  /\ MaxReads \in Nat /\ MaxCopies \in Nat
  /\ None \notin [by : Threads, back : Backs]

VARIABLES
  listed,     \* the connection is in m_connectList
  connected,  \* m_bConnect
  readCount,  \* m_nReadCount
  closeCount, \* m_nDoCloseWorkCount
  useCount,   \* m_useCount; memory is freed when it comes back to 0
  open,       \* the socket is not closed
  armed,      \* epoll reports the next data
  unseen,     \* data has come since OnMsg was called the last time
  queue,      \* tasks of m_workThreads that wait for a worker
  pc,         \* what each thread does next
  closing,    \* who is in CloseConnect and where it goes on, or None
  copies,     \* NetHosts the server keeps
  connect,    \* OnConnect: "no", "running" or "done" (history)
  close,      \* OnCloseConnect: likewise (history)
  leaked      \* ConnectWorker has returned without Release (history)

state   == <<connected, readCount, closeCount, open, armed, unseen>>
history == <<connect, close, leaked>>
vars == <<listed, state, useCount, queue, pc, closing, copies, history>>

-----------------------------------------------------------------------------
Init ==
  /\ listed = FALSE /\ connected = FALSE
  /\ readCount = 0 /\ closeCount = 0 /\ useCount = 0
  /\ open = TRUE /\ armed = FALSE /\ unseen = FALSE
  /\ queue = [connect |-> 0, msg |-> 0, close |-> 0]
  /\ pc = [t \in Threads |-> IF t = Acceptor THEN "accept" ELSE "idle"]
  /\ closing = None
  /\ copies = 0
  /\ connect = "no" /\ close = "no" /\ leaked = FALSE

Go(t, from, to) == pc[t] = from /\ pc' = [pc EXCEPT ![t] = to]

Post(task) == queue' = [queue EXCEPT ![task] = @ + 1]

\* m_connectsMutex: held for more than one step by CloseConnect only.
Unlocked == closing = None

(* NetEngine::OnConnect.                                                   *)
Accept ==
  /\ Go(Acceptor, "accept", "posting")
  /\ listed' = TRUE /\ connected' = TRUE
  /\ useCount' = 2
  /\ UNCHANGED <<readCount, closeCount, open, armed, unseen, queue, closing, copies, history>>

PostConnect ==
  /\ Go(Acceptor, "posting", "done")
  /\ Post("connect")
  /\ UNCHANGED <<listed, state, useCount, closing, copies, history>>

FirstStep == [connect |-> "addSendable", msg |-> "check", close |-> "closeWorker"]

TakeTask(w, task) ==
  /\ queue[task] > 0
  /\ Go(w, "idle", FirstStep[task])
  /\ queue' = [queue EXCEPT ![task] = @ - 1]
  /\ UNCHANGED <<listed, state, useCount, closing, copies, history>>

-----------------------------------------------------------------------------
(* CloseConnect, with the lock held: off the list, then NotifyOnClose and  *)
(* Release.  The thread goes on at back.                                   *)
CloseConnect(t, back) ==
  /\ Unlocked /\ listed
  /\ listed' = FALSE
  /\ closing' = [by |-> t, back |-> back]
  /\ pc' = [pc EXCEPT ![t] = "cut"]
  /\ UNCHANGED <<state, useCount, queue, copies, history>>

Cut(t) ==
  /\ Go(t, "cut", "notify")
  /\ connected' = FALSE
  /\ UNCHANGED <<listed, readCount, closeCount, open, armed, unseen, useCount, queue,
                 closing, copies, history>>

(* NotifyOnClose: when nobody is reading, a worker calls OnCloseConnect.   *)
NotifyAlways(count) == "claim"   \* mutant: although somebody is reading
NotifyStep(count) == IF count = 0 THEN "claim" ELSE "release"

NotifyOnClose(t) ==
  /\ Go(t, "notify", NotifyStep(readCount))
  /\ readCount' = readCount + 1
  /\ UNCHANGED <<listed, connected, closeCount, open, armed, unseen, useCount, queue,
                 closing, copies, history>>

Claim(t) ==
  /\ Go(t, "claim", IF closeCount = 0 THEN "postClose" ELSE "release")
  /\ closeCount' = closeCount + 1
  /\ UNCHANGED <<listed, connected, readCount, open, armed, unseen, useCount, queue,
                 closing, copies, history>>

PostCloseUncounted(t) ==   \* mutant: the task takes no reference
  /\ Go(t, "postClose", "release")
  /\ Post("close")
  /\ UNCHANGED <<listed, state, useCount, closing, copies, history>>

PostClose(t) ==
  /\ Go(t, "postClose", "release")
  /\ useCount' = useCount + 1
  /\ Post("close")
  /\ UNCHANGED <<listed, state, closing, copies, history>>

(* Release at the end of CloseConnect, which unlocks, or of a task.        *)
Release(t) ==
  /\ pc[t] = "release"
  /\ useCount' = useCount - 1
  /\ IF closing # None /\ closing.by = t
     THEN pc' = [pc EXCEPT ![t] = closing.back] /\ closing' = None
     ELSE pc' = [pc EXCEPT ![t] = "idle"] /\ UNCHANGED closing
  /\ UNCHANGED <<listed, state, queue, copies, history>>

(* HeartMonitor, or any thread of the server that knows the id.            *)
HeartMonitor == pc[Main] = "idle" /\ CloseConnect(Main, "idle")

-----------------------------------------------------------------------------
(* ConnectWorker.  The socket is watched for sending, OnConnect is called, *)
(* and then, unless the connection was closed, it is watched for data.     *)
AddSendableMonitor(w) ==
  /\ open
  /\ Go(w, "addSendable", "onConnect")
  /\ connect' = "running"
  /\ UNCHANGED <<listed, state, useCount, queue, closing, copies, close, leaked>>

AfterConnect(w) ==
  /\ Go(w, "onConnect", "connected")
  /\ connect' = "done"
  /\ UNCHANGED <<listed, state, useCount, queue, closing, copies, close, leaked>>

CheckConnected(w) ==
  /\ Go(w, "connected", IF connected THEN "addData" ELSE "release")
  /\ UNCHANGED <<listed, state, useCount, queue, closing, copies, history>>

AddDataMonitor(w) ==
  /\ open
  /\ Go(w, "addData", "release")
  /\ armed' = TRUE
  /\ UNCHANGED <<listed, connected, readCount, closeCount, open, unseen, useCount, queue,
                 closing, copies, history>>

(* Either may fail, because the socket was closed or for any other reason. *)
MonitorFails(w) ==
  /\ Go(w, "addSendable", "failed") \/ Go(w, "addData", "failed")
  /\ UNCHANGED <<listed, state, useCount, queue, closing, copies, history>>

(* The connection is closed then; if somebody else was faster, the worker  *)
(* returns without Release.                                                *)
CloseFailed(w) == pc[w] = "failed" /\ CloseConnect(w, "release")

ReturnFailed(w) ==
  /\ Unlocked /\ ~listed
  /\ Go(w, "failed", "idle")
  /\ leaked' = TRUE
  /\ UNCHANGED <<listed, state, useCount, queue, closing, copies, connect, close>>

-----------------------------------------------------------------------------
(* A poller has the event, OnData looks the connection up and receives.    *)
(* (When it has received 1 MB it calls OnData again at once, which is the  *)
(* same as another event.)                                                 *)
DataEvent(d) ==
  /\ armed /\ readCount < MaxReads
  /\ Go(d, "idle", "lookup")
  /\ armed' = FALSE
  /\ UNCHANGED <<listed, connected, readCount, closeCount, open, unseen, useCount, queue,
                 closing, copies, history>>

Found(d) ==
  /\ Unlocked /\ listed
  /\ Go(d, "lookup", "receive")
  /\ useCount' = useCount + 1
  /\ UNCHANGED <<listed, state, queue, closing, copies, history>>

NotFound(d) ==
  /\ Unlocked /\ ~listed
  /\ Go(d, "lookup", "idle") \/ Go(d, "close", "idle")
  /\ UNCHANGED <<listed, state, useCount, queue, closing, copies, history>>

(* RecvData: some bytes or none, and the next event is asked for.          *)
RecvData(d) ==
  /\ open
  /\ Go(d, "receive", "count")
  /\ armed' = TRUE
  /\ unseen' \in {unseen, TRUE}
  /\ UNCHANGED <<listed, connected, readCount, closeCount, open, useCount, queue,
                 closing, copies, history>>

(* The peer has closed the connection, or it is broken.                    *)
RecvFails(d) ==
  /\ Go(d, "receive", "lost")
  /\ unseen' \in {unseen, TRUE}
  /\ UNCHANGED <<listed, connected, readCount, closeCount, open, armed, useCount, queue,
                 closing, copies, history>>

(* When somebody is reading, he reads once more; else a MsgWorker is       *)
(* posted, which takes over the reference.                                 *)
CountData(d) ==
  /\ Go(d, "count", IF readCount = 0 THEN "postMsg" ELSE "leaveIt")
  /\ readCount' = readCount + 1
  /\ UNCHANGED <<listed, connected, closeCount, open, armed, unseen, useCount, queue,
                 closing, copies, history>>

PostMsg(d) ==
  /\ Go(d, "postMsg", "idle")
  /\ Post("msg")
  /\ UNCHANGED <<listed, state, useCount, closing, copies, history>>

(* OnSend, SendMsg and BroadcastMsg: a reference is held while sending.    *)
OnSend(d) ==
  /\ Unlocked /\ listed
  /\ Go(d, "idle", "sending")
  /\ useCount' = useCount + 1
  /\ UNCHANGED <<listed, state, queue, closing, copies, history>>

Drop(d) ==
  /\ Go(d, "leaveIt", "idle") \/ Go(d, "sending", "idle") \/ Go(d, "lost", "close")
  /\ useCount' = useCount - 1
  /\ UNCHANGED <<listed, state, queue, closing, copies, history>>

OnClose(d) == pc[d] = "close" /\ CloseConnect(d, "idle")

-----------------------------------------------------------------------------
(* MsgWorker.                                                              *)
CheckConnect(w) ==
  /\ Go(w, "check", IF connected THEN "arm" ELSE "reset")
  /\ UNCHANGED <<listed, state, useCount, queue, closing, copies, history>>

ResetReads(w) ==
  /\ Go(w, "reset", "leave")
  /\ readCount' = 0
  /\ UNCHANGED <<listed, connected, closeCount, open, armed, unseen, useCount, queue,
                 closing, copies, history>>

(* OnMsg looks at what is there when it begins, and perhaps not again.     *)
BeginMsg(w) ==
  /\ Go(w, "arm", "onMsg")
  /\ readCount' = 1
  /\ unseen' = FALSE
  /\ UNCHANGED <<listed, connected, closeCount, open, armed, useCount, queue,
                 closing, copies, history>>

EndMsg(w) ==
  /\ Go(w, "onMsg", "readable")
  /\ UNCHANGED <<listed, state, useCount, queue, closing, copies, history>>

(* IsReadAble depends on what OnMsg has left and what has come since.      *)
IsReadAble(w) ==
  /\ Go(w, "readable", "check") \/ Go(w, "readable", "disarm")
  /\ UNCHANGED <<listed, state, useCount, queue, closing, copies, history>>

DisarmedOnce(count) == "leave"   \* mutant: whoever has counted in the meantime
Disarmed(count) == IF count = 1 THEN "leave" ELSE "check"

Disarm(w) ==
  /\ Go(w, "disarm", Disarmed(readCount))
  /\ readCount' = readCount - 1
  /\ UNCHANGED <<listed, connected, closeCount, open, armed, unseen, useCount, queue,
                 closing, copies, history>>

LeaveSilently(w) ==   \* mutant: nobody tells of the close
  /\ Go(w, "leave", "release")
  /\ UNCHANGED <<listed, state, useCount, queue, closing, copies, history>>

Leave(w) ==
  /\ Go(w, "leave", IF connected THEN "release" ELSE "notify")
  /\ UNCHANGED <<listed, state, useCount, queue, closing, copies, history>>

-----------------------------------------------------------------------------
(* CloseWorker.                                                            *)
BeginClose(w) ==
  /\ Go(w, "closeWorker", "onClose")
  /\ close' = "running"
  /\ UNCHANGED <<listed, state, useCount, queue, closing, copies, connect, leaked>>

EndClose(w) ==
  /\ Go(w, "onClose", "closeSocket")
  /\ close' = "done"
  /\ UNCHANGED <<listed, state, useCount, queue, closing, copies, connect, leaked>>

CloseSocket(w) ==
  /\ Go(w, "closeSocket", "release")
  /\ open' = FALSE
  /\ UNCHANGED <<listed, connected, readCount, closeCount, armed, unseen, useCount, queue,
                 closing, copies, history>>

-----------------------------------------------------------------------------
(* What servers do in their handlers.                                      *)
HandlerCloses(w) == pc[w] \in Handlers /\ CloseConnect(w, pc[w])

KeepHost(w) ==
  /\ pc[w] \in Handlers /\ copies < MaxCopies
  /\ copies' = copies + 1
  /\ useCount' = useCount + 1
  /\ UNCHANGED <<listed, state, queue, pc, closing, history>>

DropHost ==
  /\ copies > 0
  /\ copies' = copies - 1
  /\ useCount' = useCount - 1
  /\ UNCHANGED <<listed, state, queue, pc, closing, history>>

-----------------------------------------------------------------------------
CloseStep(t) == Cut(t) \/ NotifyOnClose(t) \/ Claim(t) \/ PostClose(t) \/ Release(t)

ConnectStep(w) ==
  \/ AddSendableMonitor(w) \/ AfterConnect(w) \/ CheckConnected(w) \/ AddDataMonitor(w)
  \/ MonitorFails(w) \/ CloseFailed(w) \/ ReturnFailed(w)

MsgStep(w) ==
  \/ CheckConnect(w) \/ ResetReads(w) \/ BeginMsg(w) \/ EndMsg(w) \/ IsReadAble(w)
  \/ Disarm(w) \/ Leave(w)

WorkerStep(w) ==
  \/ \E task \in DOMAIN queue : TakeTask(w, task)
  \/ ConnectStep(w) \/ MsgStep(w) \/ HandlerCloses(w)
  \/ BeginClose(w) \/ EndClose(w) \/ CloseSocket(w)

PollerStep(d) ==
  \/ Found(d) \/ NotFound(d) \/ RecvData(d) \/ RecvFails(d) \/ CountData(d)
  \/ PostMsg(d) \/ Drop(d) \/ OnClose(d)

Next ==
  \/ Accept \/ PostConnect \/ HeartMonitor
  \/ \E t \in Threads : CloseStep(t)
  \/ \E w \in Workers : WorkerStep(w) \/ KeepHost(w)
  \/ \E d \in Pollers : DataEvent(d) \/ OnSend(d) \/ PollerStep(d)
  \/ DropHost

Spec == Init /\ [][Next]_vars

(* Threads go on with what they have begun, and handlers return.           *)
Fairness ==
  /\ WF_vars(PostConnect)
  /\ \A t \in Threads : WF_vars(CloseStep(t))
  /\ \A w \in Workers : WF_vars(WorkerStep(w))
  /\ \A d \in Pollers : WF_vars(PollerStep(d))

LiveSpec == Spec /\ Fairness

-----------------------------------------------------------------------------
Steps ==
  {"accept", "posting", "done", "idle", "addSendable", "onConnect", "connected", "addData",
   "failed", "lookup", "receive", "count", "postMsg", "leaveIt", "lost", "close", "sending",
   "check", "reset", "arm", "onMsg", "readable", "disarm", "leave", "closeWorker", "onClose",
   "closeSocket", "cut", "notify", "claim", "postClose", "release"}

Phases == {"no", "running", "done"}

TypeOK ==
  /\ listed \in BOOLEAN /\ connected \in BOOLEAN
  /\ readCount \in Nat /\ closeCount \in Nat /\ useCount \in Nat
  /\ open \in BOOLEAN /\ armed \in BOOLEAN /\ unseen \in BOOLEAN
  /\ queue \in [{"connect", "msg", "close"} -> Nat]
  /\ pc \in [Threads -> Steps]
  /\ closing \in [by : Threads, back : Backs] \union {None}
  /\ copies \in 0 .. MaxCopies
  /\ connect \in Phases /\ close \in Phases /\ leaked \in BOOLEAN

(* Where a thread is, CloseConnect left aside.                             *)
At(t) == IF closing # None /\ closing.by = t THEN closing.back ELSE pc[t]

(* The callbacks come as Callbacks has it: OnMsg never before OnConnect    *)
(* has returned (NetEngine.cpp:376), never twice at once (:462), never     *)
(* together with or after OnCloseConnect (:264), which comes at most once.  *)
Promise ==
  INSTANCE Callbacks WITH readers <- {w \in Workers : At(w) = "onMsg"}

Ordered == Promise!Spec

(* The use count is the number of those who may still use the object: the  *)
(* list, tasks, threads that have looked it up and copies, and those who   *)
(* have forgotten to release it.  So memory is not freed under a user, nor *)
(* twice.                                                                  *)
Away == {"accept", "done", "idle", "lookup", "close"}

Holders == {t \in Threads : At(t) \notin Away}

One(condition) == IF condition THEN 1 ELSE 0

UseCounted ==
  useCount = One(listed \/ closing # None) + Cardinality(Holders)
             + queue.connect + queue.msg + queue.close + copies + One(leaked)

(* NetEngine.cpp:472: no data is passed over: data that has come after     *)
(* OnMsg was called is followed by another OnMsg, which somebody is about  *)
(* to begin or will begin when he sees that m_nReadCount is above 1, or    *)
(* the one who has received it has still to count or is closing the        *)
(* connection.                                                             *)
Beginning == {t \in Threads : At(t) \in {"check", "arm"}}

ReadingOn == {t \in Threads : At(t) \in {"onMsg", "readable", "disarm"}}

NoneMissed ==
  unseen /\ connected =>
    \/ queue.msg > 0 \/ Beginning # {}
    \/ ReadingOn # {} /\ readCount > 1
    \/ \E t \in Threads : pc[t] \in {"count", "postMsg", "lost", "close", "cut"}

(* NetEngine.cpp:275: OnCloseConnect is not left out: when a connection    *)
(* has been closed, the server is told.                                    *)
Closed == ~listed /\ pc[Acceptor] # "accept"

CloseReported == Closed ~> close = "done"

=============================================================================
