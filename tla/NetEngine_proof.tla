--------------------------- MODULE NetEngine_proof ---------------------------
(***************************************************************************)
(* The multi-threaded engine's sending, and the links of both engines.     *)
(*                                                                         *)
(* m_nSendCount lets one flow at a time send what waits in a connection's  *)
(* buffer, a sender and a monitor never meet on a block of it though they  *)
(* share it without a lock, and bytes reach the socket in the order in     *)
(* which they were sent: for any number of senders and of monitor threads, *)
(* and any messages, block size and room in the socket.                    *)
(*                                                                         *)
(* A socket of a link is neither lost nor shared, what the engines assert  *)
(* of links and epoll holds, and an attempt is answered once: for any      *)
(* number of links and sockets, either engine, and any faults of epoll.    *)
(***************************************************************************)
EXTENDS SendFlow, ServerLinks, SequenceLemmas


-----------------------------------------------------------------------------
(* The inductive invariant.  Before the engine has started the first flow  *)
(* nobody knows of the connection; afterwards a raised count and a single  *)
(* carrier go together: whoever finds 0 finds no carrier, and setting the  *)
(* count back is what the one carrier does last.                           *)
StepsOK ==
  /\ count \in Nat /\ armed \in BOOLEAN
  /\ pc \in [Threads -> SenderSteps \union MonitorSteps \union {"sendStart", "addSendable", "done"}]
  /\ \A s \in Senders : pc[s] \in SenderSteps
  /\ \A m \in Monitors : pc[m] \in MonitorSteps

NotStarted ==
  pc[Connector] = "sendStart" =>
    count = 0 /\ \A t \in Senders \union Monitors : pc[t] = "idle"

FlowInv == StepsOK /\ NotStarted /\ OneFlow

(* Who carries a flow, as sets of threads do not show.                     *)
Carries(t) ==
  \/ t \in Monitors /\ pc[t] \in FlowSteps
  \/ t \in Senders /\ pc[t] = "add"
  \/ t = Connector /\ pc[t] = "addSendable"
  \/ t = None /\ armed

LEMMA CarriersAre == \A t : t \in Carriers <=> Carries(t)
  BY DEF Carriers, Carries

LEMMA InitFlow == Init => FlowInv
  <1> SUFFICES ASSUME Init PROVE FlowInv
    OBVIOUS
  <1>1. \A t : ~Carries(t)
    BY SendAssumption DEF Init, Carries, Threads, FlowSteps, MonitorSteps
  <1>2. OneFlow
    BY <1>1, CarriersAre DEF OneFlow
  <1> QED
    BY <1>2, SendAssumption DEF Init, FlowInv, StepsOK, NotStarted, Threads, SenderSteps, MonitorSteps

-----------------------------------------------------------------------------
(* A step after which only those carry who did before, and the count is    *)
(* not lowered.                                                            *)
LEMMA NoneMore ==
  ASSUME FlowInv, StepsOK', NotStarted', \A t : Carries(t)' => Carries(t), count' >= count
  PROVE  FlowInv'
  <1>1. Carriers' \subseteq Carriers
    BY CarriersAre DEF Carriers, Carries
  <1> QED
    BY <1>1 DEF FlowInv, OneFlow, StepsOK

(* A step after which one carries at most, under a raised count.           *)
LEMMA OneMore ==
  ASSUME StepsOK', NotStarted', NEW b, \A t : Carries(t)' => t = b, count' > 0
  PROVE  FlowInv'
  <1>1. \A t \in Carriers' : t = b
    BY CarriersAre DEF Carriers, Carries
  <1> QED
    BY <1>1 DEF FlowInv, OneFlow

LEMMA OnlyOne == ASSUME FlowInv, NEW a, NEW b, Carries(a), Carries(b) PROVE a = b /\ count > 0
  BY CarriersAre DEF FlowInv, OneFlow

(* A thread goes on and takes no flow.                                     *)
LEMMA QuietKeeps ==
  ASSUME FlowInv, NEW t \in Senders \union Monitors, NEW to, pc' = [pc EXCEPT ![t] = to],
         UNCHANGED <<count, armed>>,
         pc[t] = "idle" => pc[Connector] # "sendStart",
         t \in Senders => to \in SenderSteps \ {"add"},
         t \in Monitors => to \in MonitorSteps /\ (to \in FlowSteps => pc[t] \in FlowSteps)
  PROVE  FlowInv'
  <1>1. \A u \in Threads : pc'[u] = IF u = t THEN to ELSE pc[u]
    BY DEF FlowInv, StepsOK, Threads
  <1>2. t # Connector /\ t \in Threads /\ Connector \in Threads /\ ~(t \in Senders /\ t \in Monitors)
    BY SendAssumption DEF Threads
  <1>3. StepsOK'
    BY <1>1, <1>2 DEF FlowInv, StepsOK, Threads
  <1>4. NotStarted'
    BY <1>1, <1>2 DEF FlowInv, NotStarted
  <1>5. \A u : Carries(u)' => Carries(u)
    BY <1>1, <1>2 DEF Carries, Threads
  <1> QED
    BY <1>3, <1>4, <1>5, NoneMore DEF FlowInv, StepsOK

(* A carrier gives the flow to epoll, or loses it to a closed socket.      *)
LEMMA HandOver ==
  ASSUME FlowInv, NEW t \in Threads, Carries(t), NEW to \in {"idle", "unlock", "done"},
         pc' = [pc EXCEPT ![t] = to], AddSend, UNCHANGED count,
         t \in Senders => to = "unlock", t \in Monitors => to = "idle", t = Connector => to = "done"
  PROVE  FlowInv'
  <1>1. \A u \in Threads : pc'[u] = IF u = t THEN to ELSE pc[u]
    BY DEF FlowInv, StepsOK
  <1>2. StepsOK'
    BY <1>1 DEF FlowInv, StepsOK, Threads, AddSend, SenderSteps, MonitorSteps
  <1>3. count > 0 /\ count' > 0
    BY OnlyOne
  <1>4. NotStarted'
    BY <1>1, <1>3 DEF FlowInv, NotStarted, Threads
  <1>5. \A u : Carries(u) => u = t
    BY OnlyOne
  <1>6. ASSUME NEW u, Carries(u)' PROVE u = None
    BY <1>1, <1>5, <1>6, SendAssumption DEF Carries, Threads, FlowSteps
  <1> QED
    BY <1>2, <1>3, <1>4, <1>6, OneMore

(* SendStart: the one who finds 0 is the only one to carry.                *)
LEMMA SendStartKeeps ==
  ASSUME FlowInv, NEW t \in Threads, NEW from, NEW first, NEW other, SendStart(t, from, first, other),
         UNCHANGED armed,
         \/ t = Connector /\ from = "sendStart" /\ first = "addSendable" /\ other = "addSendable"
         \/ t \in Senders /\ from = "start" /\ first = "add" /\ other = "unlock"
         \/ t \in Monitors /\ from = "restart" /\ first = "again" /\ other = "idle"
  PROVE  FlowInv'
  <1> DEFINE to == IF count = 0 THEN first ELSE other
  <1>1. pc[t] = from /\ pc' = [pc EXCEPT ![t] = to] /\ count' = count + 1
    BY DEF SendStart, Go
  <1>2. \A u \in Threads : pc'[u] = IF u = t THEN to ELSE pc[u]
    BY <1>1 DEF FlowInv, StepsOK
  <1>3. StepsOK'
    BY <1>1, <1>2, SendAssumption DEF FlowInv, StepsOK, Threads, SenderSteps, MonitorSteps
  <1>4. count' > 0 /\ count' >= count
    BY <1>1 DEF FlowInv, StepsOK
  <1>5. NotStarted'
    BY <1>1, <1>2, SendAssumption DEF FlowInv, NotStarted, Threads
  <1>6. CASE count = 0
    <2>1. \A u : ~Carries(u)
      BY <1>6, OnlyOne
    <2>2. \A u : Carries(u)' => u = t
      BY <1>2, <2>1 DEF Carries, Threads
    <2> QED
      BY <1>3, <1>4, <1>5, <2>2, OneMore
  <1>7. CASE count # 0
    <2>1. t # Connector
      BY <1>1, <1>7, SendAssumption DEF FlowInv, NotStarted
    <2>2. \A u : Carries(u)' => Carries(u)
      BY <1>2, <1>7, <2>1, SendAssumption DEF Carries, Threads, FlowSteps
    <2> QED
      BY <1>3, <1>4, <1>5, <2>2, NoneMore
  <1> QED
    BY <1>6, <1>7

(* A monitor takes the event: the flow is his.                             *)
LEMMA WaitSendableKeeps == ASSUME FlowInv, NEW m \in Monitors, WaitSendable(m) PROVE FlowInv'
  <1>1. pc' = [pc EXCEPT ![m] = "find"] /\ armed /\ armed' = FALSE /\ UNCHANGED count
    BY DEF WaitSendable, Writable, Go
  <1>2. \A u \in Threads : pc'[u] = IF u = m THEN "find" ELSE pc[u]
    BY <1>1 DEF FlowInv, StepsOK
  <1>3. Carries(None) /\ m # None /\ m # Connector /\ m \notin Senders
    BY <1>1, SendAssumption DEF Carries, Threads
  <1>4. StepsOK'
    BY <1>1, <1>2, <1>3 DEF FlowInv, StepsOK, Threads, MonitorSteps
  <1>5. count' > 0 /\ count > 0
    BY <1>1, <1>3, OnlyOne
  <1>6. NotStarted'
    BY <1>2, <1>3, <1>5 DEF FlowInv, NotStarted, Threads
  <1>7. \A u : Carries(u) => u = None
    BY <1>3, OnlyOne
  <1>8. \A u : Carries(u)' => u = m
    BY <1>1, <1>2, <1>7, SendAssumption DEF Carries, Threads
  <1> QED
    BY <1>4, <1>5, <1>6, <1>8, OneMore

(* SendEnd sets the count back, and nobody carries.                        *)
LEMMA SendEndKeeps == ASSUME FlowInv, NEW m \in Monitors, SendEnd(m) PROVE FlowInv'
  <1>1. pc[m] = "end" /\ pc' = [pc EXCEPT ![m] = "look"] /\ count' = 0 /\ UNCHANGED armed
    BY DEF SendEnd, Go
  <1>2. \A u \in Threads : pc'[u] = IF u = m THEN "look" ELSE pc[u]
    BY <1>1 DEF FlowInv, StepsOK
  <1>3. Carries(m) /\ m # None /\ m # Connector /\ m \notin Senders
    BY <1>1, SendAssumption DEF Carries, Threads, FlowSteps, MonitorSteps
  <1>4. StepsOK'
    BY <1>1, <1>2, <1>3 DEF FlowInv, StepsOK, Threads, MonitorSteps
  <1>5. NotStarted'
    BY <1>1, <1>2, <1>3 DEF FlowInv, NotStarted, Threads
  <1>6. \A u : Carries(u) => u = m
    BY <1>3, OnlyOne
  <1>7. \A u : ~Carries(u)'
    BY <1>1, <1>2, <1>3, <1>6 DEF Carries, Threads, FlowSteps
  <1>8. Carriers' = {}
    BY <1>7, CarriersAre DEF Carriers, Carries
  <1> QED
    BY <1>4, <1>5, <1>8 DEF FlowInv, OneFlow

-----------------------------------------------------------------------------
LEMMA SenderKeeps == ASSUME FlowInv, NEW s \in Senders, Ask(s) \/ SendData(s) PROVE FlowInv'
  <1>1. s \in Threads /\ s # Connector /\ s \notin Monitors
    BY SendAssumption DEF Threads
  <1>2. CASE Ask(s)
    <2>1. PICK to \in {"lock", "check", "idle"} :
            /\ pc' = [pc EXCEPT ![s] = to] /\ UNCHANGED <<count, armed>>
            /\ pc[s] = "idle" => pc[Connector] = "done"
      BY <1>2 DEF Ask, Send, SendMsg, Say, CheckConnected, Go
    <2> QED
      BY <1>1, <2>1, QuietKeeps DEF SenderSteps
  <1>3. CASE Lock(s) \/ SendDirect(s) \/ SendFails(s) \/ PrepareBuffer(s) \/ Write(s) \/ WriteFinished(s) \/ Return(s)
    <2>1. PICK to \in {"direct", "store", "idle", "write", "count", "start"} :
            pc[s] # "idle" /\ pc' = [pc EXCEPT ![s] = to] /\ UNCHANGED <<count, armed>>
      BY <1>3 DEF Lock, SendDirect, SendFails, PrepareBuffer, Write, WriteFinished, Return, Go
    <2> QED
      BY <1>1, <2>1, QuietKeeps DEF SenderSteps
  <1>4. CASE StartFlow(s)
    BY <1>1, <1>4, SendStartKeeps DEF StartFlow
  <1>5. CASE Add(s)
    <2>1. Carries(s) /\ pc' = [pc EXCEPT ![s] = "unlock"] /\ AddSend /\ UNCHANGED count
      BY <1>5 DEF Add, Go, Carries
    <2> QED
      BY <1>1, <2>1, HandOver
  <1> QED
    BY <1>2, <1>3, <1>4, <1>5 DEF SendData

LEMMA MonitorKeeps == ASSUME FlowInv, NEW m \in Monitors, SendAbleMonitor(m) PROVE FlowInv'
  <1>1. m \in Threads /\ m # Connector /\ m \notin Senders
    BY SendAssumption DEF Threads
  <1>2. CASE OnSend(m) \/ CheckBeforeSend(m) \/ Peek(m) \/ SendPart(m) \/ PartFails(m)
    <2>1. PICK to \in {"connected", "length", "idle", "end", "send", "delete"} :
            /\ pc[m] \in {"find", "connected", "length", "send"}
            /\ pc' = [pc EXCEPT ![m] = to] /\ UNCHANGED <<count, armed>>
      BY <1>2 DEF OnSend, CheckBeforeSend, Peek, SendPart, PartFails, Go
    <2> QED
      BY <1>1, <2>1, QuietKeeps DEF MonitorSteps, FlowSteps
  <1>3. CASE ReadData(m)
    <2>1. PICK to \in {"find", "end", "delete"} :
            pc[m] = "delete" /\ pc' = [pc EXCEPT ![m] = to] /\ UNCHANGED <<count, armed>>
      BY <1>1, <1>3 DEF ReadData, AfterSend, FlowInv, StepsOK
    <2> QED
      BY <1>1, <2>1, QuietKeeps DEF MonitorSteps, FlowSteps
  <1>4. CASE Look(m)
    <2>1. PICK to \in {"idle", "restart"} :
            pc[m] = "look" /\ pc' = [pc EXCEPT ![m] = to] /\ UNCHANGED <<count, armed>>
      BY <1>4 DEF Look, Go
    <2> QED
      BY <1>1, <2>1, QuietKeeps DEF MonitorSteps, FlowSteps
  <1>5. CASE Restart(m)
    BY <1>1, <1>5, SendStartKeeps DEF Restart
  <1>6. CASE AddAgain(m)
    <2>1. Carries(m) /\ pc' = [pc EXCEPT ![m] = "idle"] /\ AddSend /\ UNCHANGED count
      BY <1>6 DEF AddAgain, Go, Carries, FlowSteps, MonitorSteps
    <2> QED
      BY <1>1, <2>1, HandOver
  <1> QED
    BY <1>2, <1>3, <1>4, <1>5, <1>6, WaitSendableKeeps, SendEndKeeps DEF SendAbleMonitor

LEMMA ConnectorKeeps == ASSUME FlowInv, StartFirst \/ AddSendableMonitor PROVE FlowInv'
  <1>1. Connector \in Threads /\ Connector \notin Senders \union Monitors
    BY SendAssumption DEF Threads
  <1>2. CASE StartFirst
    BY <1>1, <1>2, SendStartKeeps DEF StartFirst
  <1>3. CASE AddSendableMonitor
    <2>1. Carries(Connector) /\ pc' = [pc EXCEPT ![Connector] = "done"] /\ AddSend /\ UNCHANGED count
      BY <1>3 DEF AddSendableMonitor, Go, Carries
    <2> QED
      BY <1>1, <2>1, HandOver
  <1> QED
    BY <1>2, <1>3

(* What the peer and those who close do to a flow: it may be lost.         *)
LEMMA OthersKeep ==
  ASSUME FlowInv, UNCHANGED <<pc, count>>, armed' = armed \/ armed' = FALSE
  PROVE  FlowInv'
  <1>1. StepsOK' /\ NotStarted'
    BY DEF FlowInv, StepsOK, NotStarted
  <1>2. \A u : Carries(u)' => Carries(u)
    BY DEF Carries
  <1> QED
    BY <1>1, <1>2, NoneMore DEF FlowInv, StepsOK

LEMMA StepKeeps == FlowInv /\ [Next]_vars => FlowInv'
  <1> SUFFICES ASSUME FlowInv, [Next]_vars PROVE FlowInv'
    OBVIOUS
  <1>1. CASE PeerReads \/ PeerResets \/ CloseConnect \/ SetUnconnected \/ CloseSocket \/ UNCHANGED vars
    <2>1. UNCHANGED <<pc, count>> /\ (armed' = armed \/ armed' = FALSE)
      BY <1>1 DEF PeerReads, PeerResets, CloseConnect, SetUnconnected, CloseSocket, vars
    <2> QED
      BY <2>1, OthersKeep
  <1> QED
    BY <1>1, SenderKeeps, MonitorKeeps, ConnectorKeeps DEF Next

(* At most one carries the flow of a connection, and as long as one does,  *)
(* the count keeps others from beginning (NetConnect::SendStart, SendEnd). *)
THEOREM OneFlowHolds == Spec => []OneFlow
  <1>1. FlowInv => OneFlow
    BY DEF FlowInv
  <1> QED
    BY <1>1, InitFlow, StepKeeps, PTL DEF Spec

-----------------------------------------------------------------------------
(* What blocks of the send buffer hold, and how that changes when a block  *)
(* is added, written to, read from or deleted.                             *)
Lefts(b)  == [i \in DOMAIN b |-> Left(b[i])]
HeldIn(b) == FlattenSeq(Lefts(b))

BlocksOK(b) ==
  /\ b \in Seq(Blocks)
  /\ \A i \in DOMAIN b : Len(b[i].bytes) <= Block /\ b[i].pos <= Len(b[i].bytes)

LEMMA LeftIs ==
  ASSUME NEW x \in Blocks, x.pos <= Len(x.bytes)
  PROVE  Left(x) \in Seq(Bytes) /\ Len(Left(x)) = Len(x.bytes) - x.pos
  <1>1. x.bytes \in Seq(Bytes) /\ x.pos \in Nat /\ Len(x.bytes) \in Nat
    BY DEF Blocks
  <1>2. x.pos \in 0 .. Len(x.bytes)
    BY <1>1
  <1> QED
    BY <1>1, <1>2, CutIs DEF Left, Rest

LEMMA LeftsAre ==
  ASSUME NEW b, BlocksOK(b)
  PROVE  /\ Lefts(b) \in Seq(Seq(Bytes)) /\ Len(Lefts(b)) = Len(b) /\ Len(b) \in Nat /\ DOMAIN b = 1 .. Len(b)
         /\ \A i \in 1 .. Len(b) : Lefts(b)[i] = Left(b[i]) /\ Left(b[i]) \in Seq(Bytes) /\ b[i] \in Blocks
  <1>1. b \in Seq(Blocks) /\ Len(b) \in Nat /\ DOMAIN b = 1 .. Len(b)
    BY DEF BlocksOK
  <1>2. \A i \in 1 .. Len(b) : b[i] \in Blocks /\ b[i].pos <= Len(b[i].bytes)
    BY <1>1 DEF BlocksOK
  <1>3. \A i \in 1 .. Len(b) : Left(b[i]) \in Seq(Bytes)
    BY <1>2, LeftIs
  <1>4. Lefts(b) = [i \in 1 .. Len(b) |-> Left(b[i])]
    BY <1>1 DEF Lefts
  <1>5. Lefts(b) \in Seq(Seq(Bytes)) /\ Len(Lefts(b)) = Len(b)
    BY <1>1, <1>3, <1>4
  <1> QED
    BY <1>1, <1>2, <1>3, <1>4, <1>5

LEMMA HeldType == ASSUME NEW b, BlocksOK(b) PROVE HeldIn(b) \in Seq(Bytes)
  BY LeftsAre, FlattenType DEF HeldIn

(* Of no blocks, of the first and the rest, with one more at the end, with *)
(* more bytes in the last, with bytes taken from the first, without it.    *)
LEMMA HeldNone == HeldIn(<<>>) = <<>>
  <1>1. Lefts(<<>>) = <<>>
    BY DEF Lefts
  <1> QED
    BY <1>1 DEF HeldIn, FlattenSeq

LEMMA HeldFirst ==
  ASSUME NEW b, BlocksOK(b), b # <<>>
  PROVE  /\ HeldIn(b) = Left(Head(b)) \o HeldIn(Tail(b)) /\ BlocksOK(Tail(b))
         /\ Head(b) = b[1] /\ b[1] \in Blocks /\ b[1].pos <= Len(b[1].bytes) /\ Left(b[1]) \in Seq(Bytes)
         /\ Len(Tail(b)) = Len(b) - 1 /\ \A i \in 1 .. Len(b) - 1 : Tail(b)[i] = b[i + 1]
  <1> DEFINE t == Tail(b)
  <1>1. b \in Seq(Blocks) /\ Len(b) \in Nat \ {0} /\ DOMAIN b = 1 .. Len(b)
    BY EmptySeq, LenProperties DEF BlocksOK
  <1>2. /\ t \in Seq(Blocks) /\ Head(b) = b[1] /\ Len(t) = Len(b) - 1
        /\ \A i \in 1 .. Len(b) - 1 : t[i] = b[i + 1]
    BY <1>1, HeadTailProperties
  <1> HIDE DEF t
  <1>3. \A i \in 1 .. Len(b) : Len(b[i].bytes) <= Block /\ b[i].pos <= Len(b[i].bytes)
    BY <1>1 DEF BlocksOK
  <1>4. BlocksOK(t)
    <2>1. DOMAIN t = 1 .. Len(b) - 1
      BY <1>2, LenProperties
    <2> SUFFICES ASSUME NEW i \in DOMAIN t PROVE Len(t[i].bytes) <= Block /\ t[i].pos <= Len(t[i].bytes)
      BY <1>2 DEF BlocksOK
    <2>2. t[i] = b[i + 1] /\ i + 1 \in 1 .. Len(b)
      BY <1>1, <1>2, <2>1
    <2> QED
      BY <1>3, <2>2
  <1>5. /\ Lefts(b) \in Seq(Seq(Bytes)) /\ Len(Lefts(b)) = Len(b)
        /\ \A i \in 1 .. Len(b) : Lefts(b)[i] = Left(b[i]) /\ Left(b[i]) \in Seq(Bytes) /\ b[i] \in Blocks
    BY LeftsAre
  <1>6. /\ Lefts(t) \in Seq(Seq(Bytes)) /\ Len(Lefts(t)) = Len(t)
        /\ \A i \in 1 .. Len(t) : Lefts(t)[i] = Left(t[i])
    BY <1>4, LeftsAre
  <1>7. Lefts(b) # <<>>
    BY <1>1, <1>5, EmptySeq
  <1>8. HeldIn(b) = Head(Lefts(b)) \o FlattenSeq(Tail(Lefts(b)))
    BY <1>5, <1>7, FlattenFront DEF HeldIn
  <1>9. /\ Head(Lefts(b)) = Left(b[1]) /\ Tail(Lefts(b)) \in Seq(Seq(Bytes)) /\ Len(Tail(Lefts(b))) = Len(b) - 1
        /\ \A i \in 1 .. Len(b) - 1 : Tail(Lefts(b))[i] = Lefts(b)[i + 1]
    BY <1>1, <1>5, <1>7, HeadTailProperties
  <1>10. \A i \in 1 .. Len(b) - 1 : Tail(Lefts(b))[i] = Lefts(t)[i]
    <2> SUFFICES ASSUME NEW i \in 1 .. Len(b) - 1 PROVE Tail(Lefts(b))[i] = Lefts(t)[i]
      OBVIOUS
    <2>1. i + 1 \in 1 .. Len(b) /\ i \in 1 .. Len(t)
      BY <1>1, <1>2
    <2> QED
      BY <1>2, <1>5, <1>6, <1>9, <2>1
  <1>11. Tail(Lefts(b)) = Lefts(t)
    BY <1>2, <1>6, <1>9, <1>10, SeqEqual
  <1>12. HeldIn(b) = Left(Head(b)) \o HeldIn(t)
    BY <1>2, <1>8, <1>9, <1>11 DEF HeldIn
  <1>13. 1 \in 1 .. Len(b)
    BY <1>1
  <1> QED
    BY <1>2, <1>3, <1>4, <1>5, <1>12, <1>13 DEF t

LEMMA HeldAppend ==
  ASSUME NEW b, BlocksOK(b), NEW x \in Blocks, x.pos <= Len(x.bytes), Len(x.bytes) <= Block
  PROVE  /\ HeldIn(Append(b, x)) = HeldIn(b) \o Left(x) /\ BlocksOK(Append(b, x))
         /\ Append(b, x) # <<>> /\ Last(Append(b, x)) = x
  <1> DEFINE c == Append(b, x)
  <1>1. /\ b \in Seq(Blocks) /\ c \in Seq(Blocks) /\ Len(b) \in Nat /\ Len(c) = Len(b) + 1 /\ DOMAIN b = 1 .. Len(b)
        /\ \A i \in 1 .. Len(b) : c[i] = b[i]
        /\ c[Len(b) + 1] = x /\ DOMAIN c = 1 .. Len(c)
    BY AppendProperties, LenProperties DEF BlocksOK
  <1> HIDE DEF c
  <1>2. BlocksOK(c)
    <2> SUFFICES ASSUME NEW i \in DOMAIN c PROVE Len(c[i].bytes) <= Block /\ c[i].pos <= Len(c[i].bytes)
      BY <1>1 DEF BlocksOK
    <2>1. i = Len(b) + 1 \/ i \in 1 .. Len(b)
      BY <1>1
    <2> QED
      BY <1>1, <2>1 DEF BlocksOK
  <1>3. /\ Lefts(b) \in Seq(Seq(Bytes)) /\ Len(Lefts(b)) = Len(b)
        /\ \A i \in 1 .. Len(b) : Lefts(b)[i] = Left(b[i])
    BY LeftsAre
  <1>4. /\ Lefts(c) \in Seq(Seq(Bytes)) /\ Len(Lefts(c)) = Len(c)
        /\ \A i \in 1 .. Len(c) : Lefts(c)[i] = Left(c[i])
    BY <1>2, LeftsAre
  <1>5. Left(x) \in Seq(Bytes)
    BY LeftIs
  <1>6. /\ Append(Lefts(b), Left(x)) \in Seq(Seq(Bytes)) /\ Len(Append(Lefts(b), Left(x))) = Len(b) + 1
        /\ \A i \in 1 .. Len(b) : Append(Lefts(b), Left(x))[i] = Lefts(b)[i]
        /\ Append(Lefts(b), Left(x))[Len(b) + 1] = Left(x)
    BY <1>3, <1>5, AppendProperties
  <1>7. \A i \in 1 .. Len(c) : Lefts(c)[i] = Append(Lefts(b), Left(x))[i]
    <2> SUFFICES ASSUME NEW i \in 1 .. Len(c) PROVE Lefts(c)[i] = Append(Lefts(b), Left(x))[i]
      OBVIOUS
    <2>1. i = Len(b) + 1 \/ i \in 1 .. Len(b)
      BY <1>1
    <2> QED
      BY <1>1, <1>3, <1>4, <1>6, <2>1
  <1>8. Lefts(c) = Append(Lefts(b), Left(x))
    BY <1>1, <1>4, <1>6, <1>7, SeqEqual
  <1>9. HeldIn(c) = HeldIn(b) \o Left(x)
    BY <1>3, <1>5, <1>8, FlattenAppend DEF HeldIn
  <1>10. c # <<>> /\ Last(c) = x
    BY <1>1, EmptySeq DEF Last
  <1> QED
    BY <1>2, <1>9, <1>10 DEF c

LEMMA HeldMore ==
  ASSUME NEW b, BlocksOK(b), b # <<>>, NEW w \in Seq(Bytes), Len(Last(b).bytes) + Len(w) <= Block
  PROVE  LET c == [b EXCEPT ![Len(b)].bytes = @ \o w] IN BlocksOK(c) /\ HeldIn(c) = HeldIn(b) \o w
  <1> DEFINE n == Len(b)
             f == SubSeq(b, 1, n - 1)
             x == b[n]
             y == [x EXCEPT !.bytes = @ \o w]
             c == [b EXCEPT ![n].bytes = @ \o w]
  <1>1. b \in Seq(Blocks) /\ n \in Nat \ {0} /\ DOMAIN b = 1 .. n
    BY EmptySeq, LenProperties DEF BlocksOK
  <1>2. n - 1 \in 0 .. Len(b) /\ n \in 1 .. n /\ Last(b) = x
    BY <1>1 DEF Last
  <1>20. x \in Blocks /\ x.pos <= Len(x.bytes) /\ Len(x.bytes) <= Block
    BY <1>1, <1>2 DEF BlocksOK
  <1> HIDE DEF x
  <1>3. x \in Blocks /\ x.pos <= Len(x.bytes) /\ Len(x.bytes) <= Block /\ x.bytes \in Seq(Bytes) /\ x.pos \in Nat
    BY <1>20 DEF Blocks
  <1>4. /\ f \in Seq(Blocks) /\ Len(f) = n - 1 /\ \A i \in 1 .. n - 1 : f[i] = b[i]
    BY <1>1, <1>2, CutIs
  <1> HIDE DEF f
  <1>5. BlocksOK(f)
    <2> SUFFICES ASSUME NEW i \in DOMAIN f PROVE Len(f[i].bytes) <= Block /\ f[i].pos <= Len(f[i].bytes)
      BY <1>4 DEF BlocksOK
    <2>1. i \in 1 .. n - 1
      BY <1>4, LenProperties
    <2>2. i \in 1 .. n /\ f[i] = b[i]
      BY <1>1, <1>4, <2>1
    <2> QED
      BY <1>1, <2>2 DEF BlocksOK
  <1>6. /\ x.bytes \o w \in Seq(Bytes) /\ Len(x.bytes \o w) = Len(x.bytes) + Len(w)
        /\ Len(x.bytes) \in Nat /\ Len(w) \in Nat
    BY <1>3, JoinIs
  <1>24. x = [bytes |-> x.bytes, pos |-> x.pos]
    BY <1>3 DEF Blocks
  <1>25. y = [bytes |-> x.bytes \o w, pos |-> x.pos]
    <2> DEFINE v == x.bytes \o w
    <2> HIDE DEF v
    <2>1. [x EXCEPT !.bytes = v] = [bytes |-> v, pos |-> x.pos]
      BY <1>3 DEF Blocks
    <2> QED
      BY <2>1 DEF v
  <1> HIDE DEF y
  <1>7. y \in Blocks /\ y.bytes = x.bytes \o w /\ y.pos = x.pos
    BY <1>3, <1>6, <1>25 DEF Blocks
  <1>8. y.pos <= Len(y.bytes) /\ Len(y.bytes) <= Block
    BY <1>2, <1>3, <1>6, <1>7, SendAssumption
  <1>9. Left(y) = Left(x) \o w
    <2>1. x.pos \in 0 .. Len(x.bytes)
      BY <1>3, <1>6
    <2>2. SubSeq(x.bytes \o w, x.pos + 1, Len(x.bytes \o w)) = SubSeq(x.bytes, x.pos + 1, Len(x.bytes)) \o w
      BY <1>3, <2>1, CutOfJoin
    <2> QED
      BY <1>7, <2>2 DEF Left, Rest
  <1> DEFINE g == Append(f, x)
             h == Append(f, y)
  <1>22. b[n] = x /\ c = [b EXCEPT ![n] = y] /\ Len(b) = n
    BY DEF x, y
  <1> HIDE DEF n, c
  <1>23. n - 1 + 1 = n
    BY <1>1
  <1>21. \A i \in 1 .. n : i = n \/ i \in 1 .. n - 1
    BY <1>1
  <1>10. /\ g \in Seq(Blocks) /\ Len(g) = n /\ g[n] = x /\ \A i \in 1 .. n - 1 : g[i] = b[i]
    BY <1>1, <1>3, <1>4, <1>23, AppendProperties
  <1>11. /\ h \in Seq(Blocks) /\ Len(h) = n /\ h[n] = y /\ \A i \in 1 .. n - 1 : h[i] = b[i]
    BY <1>1, <1>4, <1>7, <1>23, AppendProperties
  <1>12. /\ c \in Seq(Blocks) /\ Len(c) = n /\ c[n] = y /\ \A i \in 1 .. n - 1 : c[i] = b[i]
    BY <1>1, <1>2, <1>7, <1>22
  <1> HIDE DEF g, h
  <1>13. g = b
    <2>1. \A i \in 1 .. n : g[i] = b[i]
      BY <1>10, <1>21, <1>22
    <2> QED
      BY <1>1, <1>10, <1>22, <2>1, SeqEqual
  <1>14. h = c
    <2>1. \A i \in 1 .. n : h[i] = c[i]
      BY <1>11, <1>12, <1>21
    <2> QED
      BY <1>11, <1>12, <2>1, SeqEqual
  <1>15. HeldIn(g) = HeldIn(f) \o Left(x)
    BY <1>3, <1>5, HeldAppend DEF g
  <1>16. HeldIn(h) = HeldIn(f) \o Left(y) /\ BlocksOK(h)
    BY <1>5, <1>7, <1>8, HeldAppend DEF h
  <1>17. (HeldIn(f) \o Left(x)) \o w = HeldIn(f) \o (Left(x) \o w)
    <2>1. HeldIn(f) \in Seq(Bytes) /\ Left(x) \in Seq(Bytes)
      BY <1>3, <1>5, HeldType, LeftIs
    <2> QED
      BY <2>1, JoinRegroups
  <1>18. BlocksOK(c) /\ HeldIn(c) = HeldIn(b) \o w
    BY <1>9, <1>13, <1>14, <1>15, <1>16, <1>17
  <1> QED
    BY <1>18 DEF c, n

LEMMA HeldTaken ==
  ASSUME NEW b, BlocksOK(b), b # <<>>, NEW k \in Nat, k <= Len(Left(b[1]))
  PROVE  LET c == [b EXCEPT ![1].pos = @ + k] IN
           /\ BlocksOK(c) /\ HeldIn(c) = Rest(HeldIn(b), k) /\ Len(c) = Len(b)
           /\ c # <<>> /\ Last(c).bytes = Last(b).bytes
  <1> DEFINE n == Len(b)
             x == b[1]
             v == x.pos + k
             y == [x EXCEPT !.pos = v]
             c == [b EXCEPT ![1] = y]
             t == Tail(b)
  <1>1. /\ HeldIn(b) = Left(x) \o HeldIn(t) /\ BlocksOK(t)
        /\ x \in Blocks /\ x.pos <= Len(x.bytes) /\ Left(x) \in Seq(Bytes)
        /\ Len(t) = n - 1 /\ \A i \in 1 .. n - 1 : t[i] = b[i + 1]
    BY HeldFirst
  <1>2. b \in Seq(Blocks) /\ n \in Nat \ {0} /\ DOMAIN b = 1 .. n
    BY EmptySeq, LenProperties DEF BlocksOK
  <1>3. Len(x.bytes) <= Block
    BY <1>2 DEF BlocksOK
  <1>4. [b EXCEPT ![1].pos = @ + k] = c
    OBVIOUS
  <1>5. Len(Left(x)) = Len(x.bytes) - x.pos
    BY <1>1, LeftIs
  <1> HIDE DEF x, n, t
  <1>6. x.bytes \in Seq(Bytes) /\ x.pos \in Nat /\ Len(x.bytes) \in Nat
    BY <1>1 DEF Blocks
  <1>7. v \in Nat /\ v <= Len(x.bytes) /\ k \in 0 .. Len(x.bytes) - x.pos /\ x.pos \in 0 .. Len(x.bytes)
    BY <1>1, <1>5, <1>6 DEF x
  <1> HIDE DEF v
  <1>8. y = [bytes |-> x.bytes, pos |-> v]
    <2>1. PICK p, q : x = [bytes |-> p, pos |-> q]
      BY <1>1 DEF Blocks
    <2> QED
      BY <2>1
  <1> HIDE DEF y
  <1>9. y \in Blocks /\ y.bytes = x.bytes /\ y.pos = v
    BY <1>6, <1>7, <1>8 DEF Blocks
  <1>10. Left(y) = Rest(Left(x), k)
    <2>1. SubSeq(Left(x), k + 1, Len(Left(x))) = SubSeq(x.bytes, x.pos + k + 1, Len(x.bytes))
      BY <1>6, <1>7, CutAgain DEF Left, Rest
    <2> QED
      BY <1>9, <2>1 DEF Left, Rest, v
  <1>11. /\ c \in Seq(Blocks) /\ Len(c) = n /\ c[1] = y /\ \A i \in 2 .. n : c[i] = b[i]
         /\ DOMAIN c = 1 .. n
    BY <1>2, <1>9
  <1> HIDE DEF c
  <1>12. BlocksOK(c)
    <2> SUFFICES ASSUME NEW i \in DOMAIN c PROVE Len(c[i].bytes) <= Block /\ c[i].pos <= Len(c[i].bytes)
      BY <1>11 DEF BlocksOK
    <2>1. i = 1 \/ (i \in 2 .. n /\ i \in 1 .. n)
      BY <1>2, <1>11
    <2> QED
      BY <1>2, <1>3, <1>7, <1>9, <1>11, <2>1 DEF BlocksOK
  <1>13. c # <<>>
    BY <1>2, <1>11, EmptySeq
  <1>14. Tail(c) = t
    <2>1. Len(Tail(c)) = n - 1 /\ BlocksOK(Tail(c)) /\ \A i \in 1 .. n - 1 : Tail(c)[i] = c[i + 1]
      BY <1>11, <1>12, <1>13, HeldFirst
    <2>2. \A i \in 1 .. n - 1 : i + 1 \in 2 .. n
      BY <1>2
    <2>3. \A i \in 1 .. n - 1 : Tail(c)[i] = t[i]
      BY <1>1, <1>11, <2>1, <2>2
    <2> QED
      BY <1>1, <2>1, <2>3, SeqEqual DEF BlocksOK
  <1>15. HeldIn(c) = Left(y) \o HeldIn(t)
    BY <1>11, <1>12, <1>13, <1>14, HeldFirst
  <1>16. Rest(Left(x) \o HeldIn(t), k) = Rest(Left(x), k) \o HeldIn(t)
    <2>1. HeldIn(t) \in Seq(Bytes) /\ k \in 0 .. Len(Left(x))
      BY <1>1, <1>5, <1>7, HeldType
    <2> QED
      BY <1>1, <2>1, CutOfJoin DEF Rest
  <1>17. Last(c).bytes = Last(b).bytes
    <2>1. CASE n = 1
      BY <1>9, <1>11, <2>1 DEF Last, n, x
    <2>2. CASE n # 1
      <3>1. n \in 2 .. n
        BY <1>2, <2>2
      <3> QED
        BY <1>11, <3>1 DEF Last, n
    <2> QED
      BY <2>1, <2>2
  <1>18. BlocksOK(c) /\ HeldIn(c) = Rest(HeldIn(b), k) /\ Len(c) = Len(b) /\ c # <<>> /\ Last(c).bytes = Last(b).bytes
    BY <1>1, <1>10, <1>11, <1>12, <1>13, <1>15, <1>16, <1>17 DEF n
  <1> QED
    BY <1>4, <1>18

LEMMA HeldDropped ==
  ASSUME NEW b, BlocksOK(b), b # <<>>
  PROVE  LET n == Len(Left(Head(b))) IN
           /\ HeldIn(Tail(b)) = Rest(HeldIn(b), n) /\ n \in 0 .. Len(HeldIn(b)) /\ BlocksOK(Tail(b))
           /\ n < Len(HeldIn(b)) => Tail(b) # <<>> /\ Last(Tail(b)) = Last(b)
  <1> DEFINE x == Left(Head(b))
             n == Len(x)
             t == Tail(b)
             h == HeldIn(t)
  <1>1. /\ HeldIn(b) = x \o h /\ BlocksOK(t) /\ x \in Seq(Bytes) /\ Len(t) = Len(b) - 1
        /\ \A i \in 1 .. Len(b) - 1 : t[i] = b[i + 1]
    BY HeldFirst
  <1>2. Len(b) \in Nat \ {0}
    BY EmptySeq, LenProperties DEF BlocksOK
  <1>3. h \in Seq(Bytes)
    BY <1>1, HeldType
  <1>4. t = <<>> => h = <<>>
    BY HeldNone
  <1> HIDE DEF x, t, h
  <1>5. Len(x \o h) = n + Len(h) /\ n \in Nat /\ Len(h) \in Nat
    BY <1>1, <1>3, JoinIs
  <1>6. Rest(x \o h, n) = Rest(x, n) \o h
    <2>1. n \in 0 .. Len(x)
      BY <1>5
    <2> QED
      BY <1>1, <1>3, <2>1, CutOfJoin DEF Rest
  <1>7. Rest(x, n) = <<>>
    <2>1. Rest(x, n) \in Seq(Bytes) /\ Len(Rest(x, n)) = 0
      BY <1>1, <1>5, CutIs DEF Rest
    <2> QED
      BY <2>1, EmptySeq
  <1>8. <<>> \o h = h
    BY <1>3, JoinEmpty
  <1>9. ASSUME n < Len(x \o h) PROVE t # <<>> /\ Last(t) = Last(b)
    <2>1. t # <<>>
      <3> SUFFICES ASSUME t = <<>> PROVE FALSE
        OBVIOUS
      <3>1. Len(h) = 0
        BY <1>4
      <3> QED
        BY <1>5, <1>9, <3>1
    <2>2. Len(t) # 0
      BY <1>1, <2>1, EmptySeq DEF BlocksOK
    <2>3. Len(b) - 1 \in 1 .. Len(b) - 1 /\ Len(b) - 1 + 1 = Len(b)
      BY <1>1, <1>2, <2>2
    <2>4. t[Len(b) - 1] = b[Len(b)]
      BY <1>1, <2>3
    <2> QED
      BY <1>1, <2>1, <2>4 DEF Last
  <1>10. n \in 0 .. Len(x \o h)
    BY <1>5
  <1>11. /\ h = Rest(HeldIn(b), n) /\ n \in 0 .. Len(HeldIn(b)) /\ BlocksOK(t)
         /\ n < Len(HeldIn(b)) => t # <<>> /\ Last(t) = Last(b)
    BY <1>1, <1>6, <1>7, <1>8, <1>9, <1>10
  <1> QED
    BY <1>11 DEF x, t, h

-----------------------------------------------------------------------------
(* The inductive invariant of the buffer.  A sender is inside NetConnect::  *)
(* SendData just when he holds the mutex; what he owes is what he said and *)
(* has not put anywhere yet.  m_uDataSize lags behind the buffer by the    *)
(* chunk that is written and not counted, so that a monitor, who reads and *)
(* takes no more than the size, stays within what is written; what he has  *)
(* sent and not taken out yet is the front of the buffer.  So everything   *)
(* said is what the socket took, then what is held and not sent, then what *)
(* is owed.                                                                *)
Inside == {"direct", "store", "write", "count", "start", "add", "unlock"}

MutexInv == \A s \in Senders : pc[s] \in Inside <=> mutex = s

Owed(s) ==
  IF pc[s] \in {"direct", "store", "write"} THEN rest[s]
  ELSE IF pc[s] = "count" THEN Rest(rest[s], Len(Chunk(s))) ELSE <<>>

Late == IF mutex = None THEN <<>> ELSE Owed(mutex)

Uncounted == IF mutex # None /\ pc[mutex] = "count" THEN Len(Chunk(mutex)) ELSE 0

BufferInv ==
  /\ size + Uncounted = Len(Held)
  /\ mutex # None =>
       /\ pc[mutex] = "direct" => size = 0
       /\ pc[mutex] = "write" => HasSpace(Chunk(mutex))

TakenInv ==
  \A m \in Monitors :
    /\ pc[m] = "send" => part[m] # <<>> /\ Len(part[m]) <= size /\ part[m] = First(Held, Len(part[m]))
    /\ pc[m] = "delete" => sent[m] \in 1 .. size
    /\ pc[m] # "delete" => sent[m] = 0

StreamInv ==
  socket = "open" =>
    /\ (\A m \in Monitors : pc[m] # "delete") => said = wire \o (Held \o Late)
    /\ \A m \in Monitors : pc[m] = "delete" => said = wire \o (Rest(Held, sent[m]) \o Late)

IInv == TypeOK /\ MutexInv /\ BufferInv /\ TakenInv /\ StreamInv /\ InOrder

-----------------------------------------------------------------------------
(* Joins of bytes, and what the operators of the model return.             *)
LEMMA BytesJoin ==
  /\ \A x, y, z \in Seq(Bytes) : (x \o y) \o z = x \o (y \o z)
  /\ \A x, y \in Seq(Bytes) : x \o y \in Seq(Bytes)
  /\ \A x \in Seq(Bytes) : x \o <<>> = x /\ <<>> \o x = x
  <1>1. \A x, y, z \in Seq(Bytes) : (x \o y) \o z = x \o (y \o z)
    BY JoinRegroups
  <1>2. \A x, y \in Seq(Bytes) : x \o y \in Seq(Bytes)
    BY JoinIs
  <1>3. \A x \in Seq(Bytes) : x \o <<>> = x /\ <<>> \o x = x
    BY JoinEmpty
  <1> QED
    BY <1>1, <1>2, <1>3

(* Held is the join of what is left in the blocks.                         *)
LEMMA HeldIs ==
  ASSUME TypeOK
  PROVE  Held = HeldIn(blocks) /\ BlocksOK(blocks) /\ Held \in Seq(Bytes) /\ Len(Held) \in Nat
  <1>1. Held = HeldIn(blocks) /\ BlocksOK(blocks)
    BY DEF Held, HeldIn, Lefts, TypeOK, BlocksOK
  <1> QED
    BY <1>1, HeldType, LenProperties

LEMMA HeldNext == Held' = HeldIn(blocks')
  BY DEF Held, HeldIn, Lefts, Left, Rest

LEMMA SmallerIs ==
  ASSUME NEW m \in Nat, NEW n \in Nat
  PROVE  /\ Smaller(m, n) \in 0 .. m /\ Smaller(m, n) \in 0 .. n
         /\ m <= n => Smaller(m, n) = m
         /\ ~(m <= n) => Smaller(m, n) = n
         /\ m > 0 /\ n > 0 => Smaller(m, n) > 0
  BY DEF Smaller

(* A chunk is the front of what a sender has still to put somewhere.       *)
LEMMA ChunkIs ==
  ASSUME TypeOK, NEW s \in Senders
  PROVE  /\ rest[s] \in Seq(Bytes) /\ Len(rest[s]) \in Nat
         /\ Chunk(s) \in Seq(Bytes) /\ Len(Chunk(s)) = Smaller(Len(rest[s]), Block)
         /\ Len(Chunk(s)) \in 0 .. Len(rest[s]) /\ Len(Chunk(s)) \in 0 .. Block
         /\ Rest(rest[s], Len(Chunk(s))) \in Seq(Bytes)
         /\ Chunk(s) \o Rest(rest[s], Len(Chunk(s))) = rest[s]
         /\ ~(Len(rest[s]) > Block) => Rest(rest[s], Len(Chunk(s))) = <<>>
  <1> DEFINE n == Smaller(Len(rest[s]), Block)
  <1>1. rest[s] \in Seq(Bytes) /\ Len(rest[s]) \in Nat /\ Block \in Nat
    BY SendAssumption, LenProperties DEF TypeOK
  <1>2. n \in 0 .. Len(rest[s]) /\ n \in 0 .. Block /\ (Len(rest[s]) <= Block => n = Len(rest[s]))
    BY <1>1, SmallerIs
  <1>3. Chunk(s) = SubSeq(rest[s], 1, n)
    BY DEF Chunk, First
  <1> HIDE DEF n
  <1>4. /\ Chunk(s) \in Seq(Bytes) /\ Len(Chunk(s)) = n
        /\ Rest(rest[s], n) \in Seq(Bytes) /\ Len(Rest(rest[s], n)) = Len(rest[s]) - n
        /\ Chunk(s) \o Rest(rest[s], n) = rest[s]
    <2>1. n \in 0 .. Len(rest[s])
      BY <1>2
    <2>2. SubSeq(rest[s], 1, n) \o SubSeq(rest[s], n + 1, Len(rest[s])) = rest[s]
      BY <1>1, <2>1, CutJoins
    <2>3. /\ SubSeq(rest[s], 1, n) \in Seq(Bytes) /\ SubSeq(rest[s], n + 1, Len(rest[s])) \in Seq(Bytes)
          /\ Len(SubSeq(rest[s], 1, n)) = n /\ Len(SubSeq(rest[s], n + 1, Len(rest[s]))) = Len(rest[s]) - n
      BY <1>1, <2>1, CutIs
    <2> QED
      BY <1>3, <2>2, <2>3 DEF Rest
  <1>5. ~(Len(rest[s]) > Block) => Rest(rest[s], n) = <<>>
    <2> SUFFICES ASSUME ~(Len(rest[s]) > Block) PROVE Rest(rest[s], n) = <<>>
      OBVIOUS
    <2>1. Len(Rest(rest[s], n)) = 0
      BY <1>1, <1>2, <1>4
    <2> QED
      BY <1>4, <2>1, EmptySeq
  <1> QED
    BY <1>1, <1>2, <1>4, <1>5 DEF n

LEMMA LateType == ASSUME TypeOK PROVE Late \in Seq(Bytes)
  <1>1. CASE mutex = None
    BY <1>1 DEF Late
  <1>2. CASE mutex # None
    <2>1. mutex \in Senders
      BY <1>2 DEF TypeOK
    <2>2. rest[mutex] \in Seq(Bytes) /\ Rest(rest[mutex], Len(Chunk(mutex))) \in Seq(Bytes)
      BY <2>1, ChunkIs
    <2> QED
      BY <1>2, <2>2 DEF Late, Owed
  <1> QED
    BY <1>1, <1>2

(* Who carries the flow is alone.                                          *)
LEMMA Alone ==
  ASSUME FlowInv, NEW m \in Monitors, NEW n \in Monitors, pc[m] \in FlowSteps, pc[n] \in FlowSteps
  PROVE  m = n
  BY OnlyOne DEF Carries

(* The size never says more than is held.                                  *)
LEMMA SizeWithin ==
  ASSUME IInv
  PROVE  /\ Held \in Seq(Bytes) /\ Len(Held) \in Nat /\ size \in Nat /\ size <= Len(Held)
         /\ Uncounted \in Nat /\ size + Uncounted = Len(Held)
  <1>1. Held \in Seq(Bytes) /\ Len(Held) \in Nat /\ size \in Nat
    BY HeldIs DEF IInv, TypeOK
  <1>2. Uncounted \in Nat
    <2>1. mutex # None => Len(Chunk(mutex)) \in Nat
      BY ChunkIs DEF IInv, TypeOK
    <2> QED
      BY <2>1 DEF Uncounted
  <1>3. size + Uncounted = Len(Held)
    BY DEF IInv, BufferInv
  <1> QED
    BY <1>1, <1>2, <1>3

LEMMA LateTypeNext == TypeOK' => (Late \in Seq(Bytes))'
  <1>1. TypeOK => Late \in Seq(Bytes)
    BY LateType
  <1> QED
    BY <1>1, PTL

LEMMA ThreadMoves ==
  ASSUME FlowInv, NEW t \in Threads, NEW to, pc' = [pc EXCEPT ![t] = to]
  PROVE  pc'[t] = to /\ \A u \in Threads \ {t} : pc'[u] = pc[u]
  BY DEF FlowInv, StepsOK

LEMMA Apartness ==
  /\ \A s \in Senders : s \in Threads /\ s # Connector /\ s \notin Monitors /\ s # None
  /\ \A m \in Monitors : m \in Threads /\ m # Connector /\ m \notin Senders /\ m # None
  /\ Connector \in Threads
  BY SendAssumption DEF Threads

-----------------------------------------------------------------------------
(* What the steps of senders and monitors leave to show.                   *)
LEMMA SenderTypes ==
  ASSUME TypeOK, FlowInv, FlowInv', NEW s \in Senders, NEW to, pc' = [pc EXCEPT ![s] = to],
         UNCHANGED <<connection, sending>>,
         room' \in 0 .. Room, mutex' \in Senders \union {None}, BlocksOK(blocks'), size' \in Nat,
         rest' \in [Senders -> Seq(Bytes)], said' \in Seq(Bytes), wire' \in Seq(Bytes)
  PROVE  TypeOK'
  <1>1. pc'[Connector] = pc[Connector]
    BY Apartness, ThreadMoves
  <1>2. /\ count' \in Nat /\ armed' \in BOOLEAN
        /\ \A u \in Senders : pc'[u] \in SenderSteps
        /\ \A m \in Monitors : pc'[m] \in MonitorSteps
    BY DEF FlowInv, StepsOK
  <1>3. pc'[Connector] \in {"sendStart", "addSendable", "done"}
    BY <1>1 DEF TypeOK
  <1>4. blocks' \in Seq(Blocks) /\ \A i \in DOMAIN blocks' : Len(blocks'[i].bytes) <= Block /\ blocks'[i].pos <= Len(blocks'[i].bytes)
    BY DEF BlocksOK
  <1>5. /\ listed' \in BOOLEAN /\ connected' \in BOOLEAN /\ socket' \in {"open", "reset", "closed"}
        /\ part' \in [Monitors -> Seq(Bytes)] /\ sent' \in [Monitors -> Nat] /\ more' \in [Monitors -> BOOLEAN]
        /\ \A m \in Monitors : Len(part'[m]) <= Block /\ sent'[m] <= Len(part'[m])
    BY DEF TypeOK, connection, sending
  <1> QED
    BY <1>2, <1>3, <1>4, <1>5 DEF TypeOK

LEMMA MonitorTypes ==
  ASSUME TypeOK, FlowInv, FlowInv', NEW m \in Monitors, NEW to, pc' = [pc EXCEPT ![m] = to],
         UNCHANGED <<connection, mutex, rest, said>>,
         room' \in 0 .. Room, BlocksOK(blocks'), size' \in Nat, wire' \in Seq(Bytes),
         part' \in [Monitors -> Seq(Bytes)], sent' \in [Monitors -> Nat], more' \in [Monitors -> BOOLEAN],
         \A n \in Monitors : Len(part'[n]) <= Block /\ sent'[n] <= Len(part'[n])
  PROVE  TypeOK'
  <1>1. pc'[Connector] = pc[Connector]
    BY Apartness, ThreadMoves
  <1>2. /\ count' \in Nat /\ armed' \in BOOLEAN
        /\ \A u \in Senders : pc'[u] \in SenderSteps
        /\ \A n \in Monitors : pc'[n] \in MonitorSteps
    BY DEF FlowInv, StepsOK
  <1>3. pc'[Connector] \in {"sendStart", "addSendable", "done"}
    BY <1>1 DEF TypeOK
  <1>4. blocks' \in Seq(Blocks) /\ \A i \in DOMAIN blocks' : Len(blocks'[i].bytes) <= Block /\ blocks'[i].pos <= Len(blocks'[i].bytes)
    BY DEF BlocksOK
  <1>5. /\ listed' \in BOOLEAN /\ connected' \in BOOLEAN /\ socket' \in {"open", "reset", "closed"}
        /\ mutex' \in Senders \union {None} /\ rest' \in [Senders -> Seq(Bytes)] /\ said' \in Seq(Bytes)
    BY DEF TypeOK, connection
  <1> QED
    BY <1>2, <1>3, <1>4, <1>5 DEF TypeOK

(* What a monitor has read or sent stays at the front of the buffer when a *)
(* sender adds to its end.                                                 *)
LEMMA SenderTaken ==
  ASSUME IInv, FlowInv, NEW s \in Senders, NEW to, pc' = [pc EXCEPT ![s] = to], UNCHANGED sending,
         NEW w \in Seq(Bytes), Held' = Held \o w, size' \in Nat, size' >= size
  PROVE  TakenInv'
  <1>1. \A m \in Monitors : pc'[m] = pc[m]
    BY Apartness, ThreadMoves
  <1>2. Held \in Seq(Bytes) /\ Len(Held) \in Nat /\ size \in Nat /\ size <= Len(Held)
    BY SizeWithin
  <1>3. ASSUME NEW m \in Monitors
        PROVE  /\ pc'[m] = "send" => part'[m] # <<>> /\ Len(part'[m]) <= size' /\ part'[m] = First(Held', Len(part'[m]))
               /\ pc'[m] = "delete" => sent'[m] \in 1 .. size'
               /\ pc'[m] # "delete" => sent'[m] = 0
    <2>1. part'[m] = part[m] /\ sent'[m] = sent[m] /\ pc'[m] = pc[m] /\ Len(part[m]) \in Nat
      BY <1>1, LenProperties DEF sending, IInv, TypeOK
    <2>2. /\ pc[m] = "send" => part[m] # <<>> /\ Len(part[m]) <= size /\ part[m] = First(Held, Len(part[m]))
          /\ pc[m] = "delete" => sent[m] \in 1 .. size
          /\ pc[m] # "delete" => sent[m] = 0
      BY DEF IInv, TakenInv
    <2>3. Len(part[m]) <= size => First(Held', Len(part[m])) = First(Held, Len(part[m]))
      <3> SUFFICES ASSUME Len(part[m]) <= size PROVE First(Held', Len(part[m])) = First(Held, Len(part[m]))
        OBVIOUS
      <3>1. Len(part[m]) \in 0 .. Len(Held)
        BY <1>2, <2>1
      <3> QED
        BY <1>2, <3>1, CutOfJoin DEF First
    <2>4. pc[m] = "delete" => sent[m] \in 1 .. size'
      BY <1>2, <2>2
    <2>5. pc[m] = "send" => Len(part[m]) <= size'
      BY <1>2, <2>1, <2>2
    <2> QED
      BY <2>1, <2>2, <2>3, <2>4, <2>5
  <1> QED
    BY <1>3 DEF TakenInv

(* A sender moves w from what he holds to the buffer, and a is what he     *)
(* says now.                                                               *)
LEMMA SenderStream ==
  ASSUME IInv, FlowInv, TypeOK', NEW s \in Senders, NEW to, pc' = [pc EXCEPT ![s] = to],
         UNCHANGED <<sending, socket, wire>>,
         NEW w \in Seq(Bytes), Held' = Held \o w,
         NEW a \in Seq(Bytes), said' = said \o a, w \o Late' = Late \o a
  PROVE  StreamInv' /\ InOrder'
  <1>1. \A m \in Monitors : pc'[m] = pc[m]
    BY Apartness, ThreadMoves
  <1>2. Held \in Seq(Bytes) /\ Len(Held) \in Nat /\ size \in Nat /\ size <= Len(Held)
    BY SizeWithin
  <1>3. Late \in Seq(Bytes) /\ Late' \in Seq(Bytes) /\ wire \in Seq(Bytes) /\ said \in Seq(Bytes)
    <2>1. Late \in Seq(Bytes)
      BY LateType DEF IInv
    <2>2. Late' \in Seq(Bytes)
      BY LateTypeNext
    <2> QED
      BY <2>1, <2>2 DEF IInv, TypeOK
  <1>4. ASSUME NEW h \in Seq(Bytes), said = wire \o (h \o Late)
        PROVE  said' = wire' \o ((h \o w) \o Late')
    <2>1. \A x, y, z \in Seq(Bytes) : (x \o y) \o z = x \o (y \o z)
      BY BytesJoin
    <2>5. \A x, y \in Seq(Bytes) : x \o y \in Seq(Bytes)
      BY BytesJoin
    <2>2. (h \o w) \o Late' = h \o (Late \o a)
      <3>1. (h \o w) \o Late' = h \o (w \o Late')
        BY <1>3, <2>1
      <3> QED
        BY <3>1
    <2>3. h \o (Late \o a) = (h \o Late) \o a
      BY <1>3, <2>1
    <2>4. said' = wire \o ((h \o Late) \o a)
      <3>1. PICK v \in Seq(Bytes) : v = h \o Late
        BY <1>3, <2>5
      <3>2. (wire \o v) \o a = wire \o (v \o a)
        <4>1. wire \in Seq(Bytes) /\ v \in Seq(Bytes) /\ a \in Seq(Bytes)
          BY <1>3
        <4> QED
          BY <2>1, <4>1, Zenon
      <3> QED
        BY <1>4, <3>1, <3>2
    <2> QED
      BY <2>2, <2>3, <2>4
  <1>5. ASSUME socket = "open", \A m \in Monitors : pc[m] # "delete"
        PROVE  said' = wire' \o (Held' \o Late')
    <2>1. said = wire \o (Held \o Late)
      BY <1>5 DEF IInv, StreamInv
    <2> QED
      BY <1>2, <1>4, <2>1
  <1>6. ASSUME socket = "open", NEW m \in Monitors, pc[m] = "delete"
        PROVE  said' = wire' \o (Rest(Held', sent'[m]) \o Late')
    <2>1. said = wire \o (Rest(Held, sent[m]) \o Late)
      BY <1>6 DEF IInv, StreamInv
    <2>2. sent[m] \in 0 .. Len(Held)
      <3>1. sent[m] \in 1 .. size
        BY <1>6 DEF IInv, TakenInv
      <3> QED
        BY <1>2, <3>1
    <2>3. Rest(Held, sent[m]) \in Seq(Bytes) /\ Rest(Held', sent[m]) = Rest(Held, sent[m]) \o w
      BY <1>2, <2>2, CutIs, CutOfJoin DEF Rest
    <2>4. sent'[m] = sent[m]
      BY DEF sending
    <2> QED
      BY <1>4, <2>1, <2>3, <2>4
  <1>7. StreamInv'
    BY <1>1, <1>5, <1>6 DEF StreamInv
  <1>8. InOrder'
    BY <1>3, PrefixOfJoin DEF IInv, InOrder
  <1> QED
    BY <1>7, <1>8

(* Who holds the mutex before a step and after it.                         *)
LEMMA OwnerIs ==
  ASSUME IInv, NEW s \in Senders, pc[s] \in Inside
  PROVE  /\ mutex = s /\ mutex # None /\ Late = Owed(s)
         /\ Uncounted = IF pc[s] = "count" THEN Len(Chunk(s)) ELSE 0
  <1>1. mutex = s /\ mutex # None
    BY Apartness DEF IInv, MutexInv
  <1> QED
    BY <1>1 DEF Late, Uncounted

LEMMA OwnerMoves ==
  ASSUME IInv, FlowInv, NEW s \in Senders, pc[s] \in Inside, NEW to \in Inside, pc' = [pc EXCEPT ![s] = to],
         UNCHANGED mutex
  PROVE  /\ MutexInv' /\ mutex' = s /\ mutex' # None /\ pc'[s] = to /\ Late' = Owed(s)'
         /\ Uncounted' = IF to = "count" THEN Len(Chunk(s)') ELSE 0
  <1>1. mutex = s /\ s # None
    BY OwnerIs, Apartness
  <1>2. pc'[s] = to /\ \A u \in Senders \ {s} : pc'[u] = pc[u]
    BY Apartness, ThreadMoves
  <1>3. MutexInv'
    BY <1>1, <1>2 DEF IInv, MutexInv
  <1>4. Late' = Owed(s)'
    BY <1>1 DEF Late
  <1>5. Uncounted' = IF to = "count" THEN Len(Chunk(s)') ELSE 0
    BY <1>1, <1>2 DEF Uncounted
  <1> QED
    BY <1>1, <1>2, <1>3, <1>4, <1>5

LEMMA OwnerLeaves ==
  ASSUME IInv, FlowInv, NEW s \in Senders, pc[s] \in Inside, pc' = [pc EXCEPT ![s] = "idle"], mutex' = None
  PROVE  MutexInv' /\ Late' = <<>> /\ Uncounted' = 0
  <1>1. mutex = s /\ s # None
    BY OwnerIs, Apartness
  <1>2. pc'[s] = "idle" /\ \A u \in Senders \ {s} : pc'[u] = pc[u]
    BY Apartness, ThreadMoves
  <1>3. MutexInv'
    <2> SUFFICES ASSUME NEW u \in Senders PROVE pc'[u] \notin Inside /\ mutex' # u
      BY DEF MutexInv
    <2>1. mutex' # u
      BY Apartness
    <2>2. u # s => pc[u] \notin Inside
      BY <1>1 DEF IInv, MutexInv
    <2> QED
      BY <1>2, <2>1, <2>2 DEF Inside
  <1> QED
    BY <1>3 DEF Late, Uncounted

LEMMA OwnerStays ==
  ASSUME IInv, FlowInv, NEW s \in Senders, pc[s] \notin Inside, NEW to, to \notin Inside,
         pc' = [pc EXCEPT ![s] = to], UNCHANGED mutex, \A u \in Senders \ {s} : rest'[u] = rest[u]
  PROVE  /\ MutexInv' /\ Late' = Late /\ Uncounted' = Uncounted
         /\ mutex # None => pc'[mutex] = pc[mutex] /\ Chunk(mutex)' = Chunk(mutex)
  <1>1. pc'[s] = to /\ \A u \in Senders \ {s} : pc'[u] = pc[u]
    BY Apartness, ThreadMoves
  <1>2. mutex # s /\ mutex \in Senders \union {None}
    BY DEF IInv, MutexInv, TypeOK
  <1>3. MutexInv'
    BY <1>1, <1>2 DEF IInv, MutexInv
  <1>4. mutex # None => pc'[mutex] = pc[mutex] /\ rest'[mutex] = rest[mutex]
    BY <1>1, <1>2
  <1>5. mutex # None => Chunk(mutex)' = Chunk(mutex)
    BY <1>4 DEF Chunk
  <1>6. mutex # None => Owed(mutex)' = Owed(mutex)
    BY <1>4, <1>5 DEF Owed
  <1>7. Late' = Late
    BY <1>6 DEF Late
  <1>8. Uncounted' = Uncounted
    BY <1>4, <1>5 DEF Uncounted
  <1> QED
    BY <1>3, <1>4, <1>5, <1>7, <1>8

(* The buffer and its size as they were, nothing said and nothing sent.    *)
LEMMA SenderQuiet ==
  ASSUME IInv, FlowInv, FlowInv', NEW s \in Senders, NEW to, pc' = [pc EXCEPT ![s] = to],
         UNCHANGED <<connection, room, buffer, sending, said, wire>>,
         mutex' \in Senders \union {None}, rest' \in [Senders -> Seq(Bytes)],
         MutexInv', Late' = Late, Uncounted' = Uncounted,
         mutex' # None =>
           /\ pc'[mutex'] = "direct" => size = 0
           /\ pc'[mutex'] = "write" => HasSpace(Chunk(mutex))'
  PROVE  IInv'
  <1>1. TypeOK /\ BlocksOK(blocks) /\ Held \in Seq(Bytes)
    BY HeldIs DEF IInv
  <1>2. TypeOK'
    BY <1>1, SenderTypes DEF TypeOK, buffer
  <1>3. Held' = Held
    BY HeldNext, <1>1, HeldIs DEF buffer
  <1>4. BufferInv'
    BY <1>3 DEF BufferInv, IInv, buffer
  <1>5. Held' = Held \o <<>> /\ <<>> \in Seq(Bytes)
    BY <1>1, <1>3, BytesJoin
  <1>6. TakenInv'
    <2>1. size' \in Nat /\ size' >= size
      BY <1>1 DEF buffer, TypeOK
    <2> QED
      BY <1>5, <2>1, SenderTaken
  <1>7. said' = said \o <<>> /\ <<>> \o Late' = Late \o <<>>
    BY BytesJoin, LateType DEF IInv, TypeOK
  <1>8. StreamInv' /\ InOrder'
    BY <1>2, <1>5, <1>7, SenderStream DEF connection
  <1> QED
    BY <1>2, <1>4, <1>6, <1>8 DEF IInv

(* What a sender says is made of his own next bytes.                       *)
LEMMA SentIs == ASSUME TypeOK, NEW s PROVE Sent(s) \in Nat
  <1> DEFINE S == {i \in DOMAIN said : said[i][1] = s}
  <1>1. Len(said) \in Nat /\ DOMAIN said = 1 .. Len(said)
    BY LenProperties DEF TypeOK
  <1>2. IsFiniteSet(1 .. Len(said))
    BY <1>1, FS_Interval
  <1>3. IsFiniteSet(S)
    BY <1>1, <1>2, FS_Subset
  <1> QED
    BY <1>3, FS_CardinalityType DEF Sent

LEMMA NewBytesAre ==
  ASSUME TypeOK, NEW s \in Senders, NEW n \in Sizes[s], Sent(s) + n <= MaxSent[s]
  PROVE  NewBytes(s, n) \in Seq(Bytes)
  <1>1. Sent(s) \in Nat /\ n \in Nat /\ MaxSent[s] \in Nat
    BY SentIs, SendAssumption
  <1>2. \A i \in 1 .. n : <<s, Sent(s) + i>> \in Bytes
    BY <1>1 DEF Bytes
  <1> QED
    BY <1>1, <1>2 DEF NewBytes

LEMMA AskKeepsInv == ASSUME IInv, FlowInv, FlowInv', NEW s \in Senders, Ask(s) PROVE IInv'
  <1>1. PICK to \in {"lock", "check", "idle"} :
          pc[s] \in {"idle", "check"} /\ pc' = [pc EXCEPT ![s] = to]
    BY DEF Ask, Send, SendMsg, Say, CheckConnected, Go
  <1>2. UNCHANGED <<connection, room, mutex, buffer, sending, said, wire>>
    BY DEF Ask
  <1>3. rest \in [Senders -> Seq(Bytes)] /\ <<>> \in Seq(Bytes)
    BY DEF IInv, TypeOK
  <1>4. \E v \in Seq(Bytes) : rest' = rest \/ rest' = [rest EXCEPT ![s] = v]
    <2>1. CASE \E to2 : Say(s, to2)
      BY <2>1, NewBytesAre DEF Say, IInv
    <2>2. CASE CheckConnected(s)
      BY <1>3, <2>2 DEF CheckConnected
    <2> QED
      BY <2>1, <2>2 DEF Ask, Send, SendMsg
  <1>5. rest' \in [Senders -> Seq(Bytes)] /\ \A u \in Senders \ {s} : rest'[u] = rest[u]
    BY <1>3, <1>4
  <1>6. /\ MutexInv' /\ Late' = Late /\ Uncounted' = Uncounted
        /\ mutex # None => pc'[mutex] = pc[mutex] /\ Chunk(mutex)' = Chunk(mutex)
    BY <1>1, <1>2, <1>5, OwnerStays DEF Inside
  <1>7. mutex' \in Senders \union {None}
    BY <1>2 DEF IInv, TypeOK
  <1>8. mutex' # None =>
          /\ pc'[mutex'] = "direct" => size = 0
          /\ pc'[mutex'] = "write" => HasSpace(Chunk(mutex))'
    BY <1>2, <1>6 DEF IInv, BufferInv, HasSpace, buffer
  <1> QED
    BY <1>1, <1>2, <1>5, <1>6, <1>7, <1>8, SenderQuiet

LEMMA FlowStepsKeepInv ==
  ASSUME IInv, FlowInv, FlowInv', NEW s \in Senders, StartFlow(s) \/ Add(s) PROVE IInv'
  <1>1. PICK to \in {"add", "unlock"} : pc[s] \in {"start", "add"} /\ pc' = [pc EXCEPT ![s] = to]
    BY DEF StartFlow, SendStart, Add, Go
  <1>2. UNCHANGED <<connection, room, mutex, buffer, rest, sending, said, wire>>
    BY DEF StartFlow, Add
  <1>3. pc[s] \in Inside /\ to \in Inside
    BY <1>1 DEF Inside
  <1>4. Late = Owed(s) /\ Uncounted = IF pc[s] = "count" THEN Len(Chunk(s)) ELSE 0
    BY <1>3, OwnerIs
  <1>5. /\ MutexInv' /\ mutex' = s /\ pc'[s] = to /\ Late' = Owed(s)'
        /\ Uncounted' = IF to = "count" THEN Len(Chunk(s)') ELSE 0
    BY <1>1, <1>2, <1>3, OwnerMoves
  <1>6. Late' = Late /\ Uncounted' = Uncounted
    BY <1>1, <1>4, <1>5 DEF Owed
  <1>7. rest' \in [Senders -> Seq(Bytes)]
    BY <1>2 DEF IInv, TypeOK
  <1>8. pc'[mutex'] # "direct" /\ pc'[mutex'] # "write"
    BY <1>1, <1>5
  <1> QED
    BY <1>1, <1>2, <1>5, <1>6, <1>7, <1>8, SenderQuiet

LEMMA ReturnKeepsInv ==
  ASSUME IInv, FlowInv, FlowInv', NEW s \in Senders, Return(s) PROVE IInv'
  <1>1. pc[s] = "unlock" /\ pc' = [pc EXCEPT ![s] = "idle"] /\ mutex' = None
    BY DEF Return, Go, Unlock
  <1>2. UNCHANGED <<connection, room, buffer, rest, sending, said, wire>>
    BY DEF Return
  <1>3. pc[s] \in Inside
    BY <1>1 DEF Inside
  <1>4. Late = <<>> /\ Uncounted = 0
    BY <1>1, <1>3, OwnerIs DEF Owed
  <1>5. MutexInv' /\ Late' = <<>> /\ Uncounted' = 0
    BY <1>1, <1>3, OwnerLeaves
  <1>6. rest' \in [Senders -> Seq(Bytes)]
    BY <1>2 DEF IInv, TypeOK
  <1> QED
    BY <1>1, <1>2, <1>4, <1>5, <1>6, SenderQuiet

(* A new block holds nothing and has room for a chunk.                     *)
LEMMA PrepareKeepsInv ==
  ASSUME IInv, FlowInv, FlowInv', NEW s \in Senders, PrepareBuffer(s) PROVE IInv'
  <1>1. pc[s] = "store" /\ pc' = [pc EXCEPT ![s] = "write"]
    BY DEF PrepareBuffer, Go
  <1>2. UNCHANGED <<connection, room, mutex, size, rest, sending, said, wire>>
    BY DEF PrepareBuffer
  <1>3. pc[s] \in Inside /\ "write" \in Inside
    BY <1>1 DEF Inside
  <1>4. mutex = s /\ Late = Owed(s) /\ Uncounted = 0
    BY <1>1, <1>3, OwnerIs
  <1>5. MutexInv' /\ mutex' = s /\ pc'[s] = "write" /\ Late' = Owed(s)' /\ Uncounted' = 0
    BY <1>1, <1>2, <1>3, OwnerMoves
  <1>6. Late' = Late
    BY <1>1, <1>2, <1>4, <1>5 DEF Owed
  <1>7. TypeOK /\ BlocksOK(blocks) /\ Held \in Seq(Bytes) /\ Held = HeldIn(blocks) /\ Len(Held) \in Nat
    BY HeldIs DEF IInv
  <1>8. Len(Chunk(s)) \in 0 .. Block /\ Chunk(s)' = Chunk(s)
    BY <1>2, <1>7, ChunkIs DEF Chunk
  <1>9. BlocksOK(blocks') /\ HeldIn(blocks') = HeldIn(blocks) /\ HasSpace(Chunk(s))'
    <2>1. CASE HasSpace(Chunk(s))
      BY <1>7, <1>8, <2>1 DEF PrepareBuffer, HasSpace
    <2>2. CASE ~HasSpace(Chunk(s))
      <3>1. blocks' = Append(blocks, NewBlock)
        BY <2>2 DEF PrepareBuffer
      <3>2. /\ NewBlock \in Blocks /\ NewBlock.bytes = <<>> /\ NewBlock.pos = 0
            /\ NewBlock.pos <= Len(NewBlock.bytes) /\ Len(NewBlock.bytes) <= Block /\ Len(NewBlock.bytes) = 0
        BY SendAssumption DEF NewBlock, Blocks
      <3>3. /\ HeldIn(blocks') = HeldIn(blocks) \o Left(NewBlock) /\ BlocksOK(blocks')
            /\ blocks' # <<>> /\ Last(blocks') = NewBlock
        BY <1>7, <3>1, <3>2, HeldAppend
      <3>4. Left(NewBlock) = <<>>
        <4>1. Left(NewBlock) \in Seq(Bytes) /\ Len(Left(NewBlock)) = 0
          BY <3>2, LeftIs
        <4> QED
          BY <4>1, EmptySeq
      <3>5. HasSpace(Chunk(s))'
        <4>1. Len(Last(blocks').bytes) + Len(Chunk(s)) <= Block
          BY <1>8, <3>2, <3>3
        <4> QED
          BY <1>8, <3>3, <4>1 DEF HasSpace
      <3> QED
        BY <1>7, <3>3, <3>4, <3>5, BytesJoin
    <2> QED
      BY <2>1, <2>2
  <1>10. Held' = Held /\ Held' = Held \o <<>> /\ <<>> \in Seq(Bytes)
    BY <1>7, <1>9, HeldNext, BytesJoin
  <1>11. TypeOK'
    BY <1>1, <1>2, <1>7, <1>9, SenderTypes DEF TypeOK
  <1>12. BufferInv'
    BY <1>2, <1>4, <1>5, <1>9, <1>10 DEF BufferInv, IInv
  <1>13. TakenInv'
    <2>1. size' \in Nat /\ size' >= size
      BY <1>2, <1>7 DEF TypeOK
    <2> QED
      BY <1>1, <1>2, <1>10, <2>1, SenderTaken
  <1>14. said' = said \o <<>> /\ <<>> \o Late' = Late \o <<>>
    BY <1>2, <1>6, <1>7, BytesJoin, LateType DEF TypeOK
  <1>15. StreamInv' /\ InOrder'
    BY <1>1, <1>2, <1>10, <1>11, <1>14, SenderStream DEF connection
  <1> QED
    BY <1>5, <1>11, <1>12, <1>13, <1>15 DEF IInv

(* Who gets the mutex has said his bytes, and owes them.                   *)
LEMMA LockKeepsInv ==
  ASSUME IInv, FlowInv, FlowInv', NEW s \in Senders, Lock(s) PROVE IInv'
  <1>1. PICK to \in {"direct", "store"} : to = IF size = 0 THEN "direct" ELSE "store"
    OBVIOUS
  <1>2. pc[s] = "lock" /\ pc' = [pc EXCEPT ![s] = to] /\ mutex = None /\ mutex' = s /\ said' = said \o rest[s]
    BY <1>1 DEF Lock, Go
  <1>3. UNCHANGED <<connection, room, buffer, rest, sending, wire>>
    BY DEF Lock
  <1>4. TypeOK /\ BlocksOK(blocks) /\ Held \in Seq(Bytes) /\ Held = HeldIn(blocks) /\ rest[s] \in Seq(Bytes)
    BY HeldIs, ChunkIs DEF IInv
  <1>5. s # None /\ pc'[s] = to /\ \A u \in Senders \ {s} : pc'[u] = pc[u]
    BY <1>2, Apartness, ThreadMoves
  <1>6. MutexInv'
    <2> SUFFICES ASSUME NEW u \in Senders PROVE pc'[u] \in Inside <=> mutex' = u
      BY DEF MutexInv
    <2>1. pc[u] \notin Inside
      BY <1>2, Apartness DEF IInv, MutexInv
    <2> QED
      BY <1>1, <1>2, <1>5, <2>1 DEF Inside
  <1>7. Late = <<>> /\ Uncounted = 0
    BY <1>2 DEF Late, Uncounted
  <1>8. Late' = rest[s] /\ Uncounted' = 0
    BY <1>1, <1>2, <1>3, <1>5 DEF Late, Owed, Uncounted
  <1>9. Held' = Held /\ Held' = Held \o <<>> /\ <<>> \in Seq(Bytes)
    BY <1>3, <1>4, HeldNext, BytesJoin DEF buffer
  <1>10. TypeOK'
    <2>1. said' \in Seq(Bytes)
      BY <1>2, <1>4, BytesJoin DEF TypeOK
    <2>2. /\ room' \in 0 .. Room /\ mutex' \in Senders \union {None} /\ BlocksOK(blocks') /\ size' \in Nat
          /\ rest' \in [Senders -> Seq(Bytes)] /\ wire' \in Seq(Bytes)
      BY <1>2, <1>3, <1>4 DEF TypeOK, buffer
    <2> QED
      BY <1>2, <1>3, <1>4, <2>1, <2>2, SenderTypes
  <1>11. BufferInv'
    <2>1. pc'[mutex'] = "direct" => size' = 0
      BY <1>1, <1>2, <1>3, <1>5 DEF buffer
    <2>2. pc'[mutex'] # "write"
      BY <1>1, <1>2, <1>5
    <2> QED
      BY <1>3, <1>7, <1>8, <1>9, <2>1, <2>2 DEF BufferInv, IInv, buffer
  <1>12. TakenInv'
    <2>1. size' \in Nat /\ size' >= size
      BY <1>3, <1>4 DEF TypeOK, buffer
    <2> QED
      BY <1>2, <1>3, <1>9, <2>1, SenderTaken
  <1>13. <<>> \o Late' = Late \o rest[s]
    BY <1>4, <1>7, <1>8
  <1>14. StreamInv' /\ InOrder'
    BY <1>2, <1>3, <1>4, <1>9, <1>10, <1>13, SenderStream DEF connection
  <1> QED
    BY <1>6, <1>10, <1>11, <1>12, <1>14 DEF IInv

(* Null waits in the buffer while a sender sends past it.               *)
LEMMA NothingWaits ==
  ASSUME IInv, NEW s \in Senders, pc[s] = "direct"
  PROVE  /\ size = 0 /\ Held = <<>> /\ Uncounted = 0 /\ mutex = s
         /\ \A m \in Monitors : pc[m] # "send" /\ pc[m] # "delete"
  <1>1. mutex = s /\ mutex # None /\ Uncounted = 0
    BY OwnerIs DEF Inside
  <1>2. size = 0
    BY <1>1 DEF IInv, BufferInv
  <1>3. Held = <<>>
    BY <1>1, <1>2, SizeWithin, EmptySeq
  <1>4. ASSUME NEW m \in Monitors PROVE pc[m] # "send" /\ pc[m] # "delete"
    <2>1. part[m] \in Seq(Bytes) /\ Len(part[m]) \in Nat
      BY LenProperties DEF IInv, TypeOK
    <2>2. Len(part[m]) <= 0 => part[m] = <<>>
      BY <2>1, EmptySeq
    <2> QED
      BY <1>2, <2>2 DEF IInv, TakenInv
  <1> QED
    BY <1>1, <1>2, <1>3, <1>4

LEMMA SendFailsKeepsInv ==
  ASSUME IInv, FlowInv, FlowInv', NEW s \in Senders, SendFails(s) PROVE IInv'
  <1>1. /\ pc[s] = "direct" /\ pc' = [pc EXCEPT ![s] = "idle"] /\ mutex' = None /\ socket # "open"
        /\ rest' = [rest EXCEPT ![s] = <<>>]
    BY DEF SendFails, Go, Unlock
  <1>2. UNCHANGED <<connection, room, buffer, sending, said, wire>>
    BY DEF SendFails
  <1>3. pc[s] \in Inside /\ Uncounted = 0
    BY <1>1, NothingWaits DEF Inside
  <1>4. MutexInv' /\ Late' = <<>> /\ Uncounted' = 0
    BY <1>1, <1>3, OwnerLeaves
  <1>5. TypeOK /\ BlocksOK(blocks) /\ Held \in Seq(Bytes) /\ Held = HeldIn(blocks)
    BY HeldIs DEF IInv
  <1>6. Held' = Held /\ Held' = Held \o <<>> /\ <<>> \in Seq(Bytes)
    BY <1>2, <1>5, HeldNext, BytesJoin DEF buffer
  <1>7. TypeOK'
    <2>1. /\ room' \in 0 .. Room /\ mutex' \in Senders \union {None} /\ BlocksOK(blocks') /\ size' \in Nat
          /\ rest' \in [Senders -> Seq(Bytes)] /\ wire' \in Seq(Bytes) /\ said' \in Seq(Bytes)
      BY <1>1, <1>2, <1>5 DEF TypeOK, buffer
    <2> QED
      BY <1>1, <1>2, <1>5, <2>1, SenderTypes
  <1>8. BufferInv'
    BY <1>1, <1>2, <1>3, <1>4, <1>6 DEF BufferInv, IInv, buffer
  <1>9. TakenInv'
    <2>1. size' \in Nat /\ size' >= size
      BY <1>2, <1>5 DEF TypeOK, buffer
    <2> QED
      BY <1>1, <1>2, <1>6, <2>1, SenderTaken
  <1>10. StreamInv' /\ InOrder'
    BY <1>1, <1>2 DEF StreamInv, InOrder, IInv, connection
  <1> QED
    BY <1>4, <1>7, <1>8, <1>9, <1>10 DEF IInv

(* What Transmit takes of some bytes, and what it leaves.                  *)
LEMMA TransmitIs ==
  ASSUME TypeOK, NEW b \in Seq(Bytes), Transmit(b), NEW n, n = Smaller(Len(b), room)
  PROVE  /\ n \in 0 .. Len(b) /\ Len(b) \in Nat /\ room' \in 0 .. Room
         /\ First(b, n) \in Seq(Bytes) /\ Rest(b, n) \in Seq(Bytes) /\ First(b, n) \o Rest(b, n) = b
         /\ wire' = wire \o First(b, n) /\ wire' \in Seq(Bytes)
         /\ Len(b) <= room => Rest(b, n) = <<>>
         /\ room > 0 /\ b # <<>> => n > 0
         /\ ~(room > 0) => n = 0
  <1>1. Len(b) \in Nat /\ room \in Nat /\ room \in 0 .. Room /\ Room \in Nat
    BY SendAssumption, LenProperties DEF TypeOK
  <1>2. n \in 0 .. Len(b) /\ n \in 0 .. room /\ (Len(b) <= room => n = Len(b)) /\ (Len(b) > 0 /\ room > 0 => n > 0)
    BY <1>1, SmallerIs
  <1>3. wire' = wire \o First(b, n) /\ room' = room - n
    BY DEF Transmit
  <1>4. room' \in 0 .. Room
    BY <1>1, <1>2, <1>3
  <1>5. /\ SubSeq(b, 1, n) \in Seq(Bytes) /\ SubSeq(b, n + 1, Len(b)) \in Seq(Bytes)
        /\ Len(SubSeq(b, n + 1, Len(b))) = Len(b) - n
    BY <1>2, CutIs
  <1>6. SubSeq(b, 1, n) \o SubSeq(b, n + 1, Len(b)) = b
    BY <1>2, CutJoins
  <1>7. ASSUME Len(b) <= room PROVE SubSeq(b, n + 1, Len(b)) = <<>>
    <2>1. Len(SubSeq(b, n + 1, Len(b))) = 0
      BY <1>1, <1>2, <1>5, <1>7
    <2> QED
      BY <1>5, <2>1, EmptySeq
  <1>8. wire' \in Seq(Bytes)
    <2>1. wire \in Seq(Bytes)
      BY DEF TypeOK
    <2> QED
      BY <1>3, <1>5, <2>1, BytesJoin DEF First
  <1>9. room > 0 /\ b # <<>> => n > 0
    <2>1. b # <<>> => Len(b) > 0
      BY <1>1, EmptySeq
    <2> QED
      BY <1>2, <2>1
  <1>10. ~(room > 0) => n = 0
    BY <1>1, <1>2
  <1>11. First(b, n) = SubSeq(b, 1, n) /\ Rest(b, n) = SubSeq(b, n + 1, Len(b))
    BY DEF First, Rest
  <1> QED
    BY <1>1, <1>2, <1>3, <1>4, <1>5, <1>6, <1>7, <1>8, <1>9, <1>10, <1>11

LEMMA SendDirectKeepsInv ==
  ASSUME IInv, FlowInv, FlowInv', NEW s \in Senders, SendDirect(s) PROVE IInv'
  <1> DEFINE n == Smaller(Len(rest[s]), room)
             to == IF Len(rest[s]) <= room THEN "idle" ELSE "store"
  <1>1. /\ pc[s] = "direct" /\ pc' = [pc EXCEPT ![s] = to] /\ Transmit(rest[s]) /\ socket = "open"
        /\ rest' = [rest EXCEPT ![s] = Rest(rest[s], n)]
        /\ mutex' = IF Len(rest[s]) <= room THEN None ELSE mutex
    BY DEF SendDirect, Go, Unlock
  <1>2. UNCHANGED <<connection, buffer, sending, said>>
    BY DEF SendDirect
  <1>3. /\ size = 0 /\ Held = <<>> /\ Uncounted = 0 /\ mutex = s /\ pc[s] \in Inside
        /\ \A m \in Monitors : pc[m] # "send" /\ pc[m] # "delete"
    BY <1>1, NothingWaits DEF Inside
  <1>4. TypeOK /\ BlocksOK(blocks) /\ Held = HeldIn(blocks) /\ rest[s] \in Seq(Bytes)
    BY HeldIs, ChunkIs DEF IInv
  <1>5. /\ room' \in 0 .. Room /\ First(rest[s], n) \in Seq(Bytes) /\ Rest(rest[s], n) \in Seq(Bytes)
        /\ First(rest[s], n) \o Rest(rest[s], n) = rest[s]
        /\ wire' = wire \o First(rest[s], n) /\ wire' \in Seq(Bytes)
        /\ Len(rest[s]) <= room => Rest(rest[s], n) = <<>>
    BY <1>1, <1>4, TransmitIs
  <1> HIDE DEF n
  <1>6. rest' \in [Senders -> Seq(Bytes)] /\ rest'[s] = Rest(rest[s], n)
    BY <1>1, <1>4, <1>5 DEF TypeOK
  <1>7. /\ MutexInv' /\ Late' = Rest(rest[s], n) /\ Uncounted' = 0
        /\ mutex' # None => pc'[mutex'] = "store"
    <2>1. CASE Len(rest[s]) <= room
      BY <1>1, <1>3, <1>5, <2>1, OwnerLeaves
    <2>2. CASE ~(Len(rest[s]) <= room)
      <3>1. pc' = [pc EXCEPT ![s] = "store"] /\ "store" \in Inside /\ mutex' = mutex
        BY <1>1, <2>2 DEF Inside
      <3>2. /\ MutexInv' /\ mutex' = s /\ pc'[s] = "store" /\ Late' = Owed(s)' /\ Uncounted' = 0
        BY <1>3, <3>1, OwnerMoves
      <3> QED
        BY <1>6, <3>2 DEF Owed
    <2> QED
      BY <2>1, <2>2
  <1>8. TypeOK'
    <2>1. mutex' \in Senders \union {None} /\ BlocksOK(blocks') /\ size' \in Nat /\ said' \in Seq(Bytes)
      BY <1>1, <1>2, <1>4 DEF TypeOK, buffer
    <2> HIDE DEF to
    <2> QED
      BY <1>1, <1>2, <1>4, <1>5, <1>6, <2>1, SenderTypes
  <1>9. Held' = <<>>
    BY <1>2, <1>3, <1>4, HeldNext DEF buffer
  <1>10. BufferInv'
    <2>1. Len(Held') = 0 /\ size' = 0
      BY <1>2, <1>3, <1>9 DEF buffer
    <2> QED
      BY <1>7, <2>1 DEF BufferInv
  <1>11. \A m \in Monitors : pc'[m] = pc[m]
    BY <1>1, Apartness, ThreadMoves
  <1>12. TakenInv'
    BY <1>2, <1>3, <1>11 DEF TakenInv, IInv, sending
  <1>13. Late = rest[s]
    BY <1>1, <1>3, OwnerIs DEF Owed
  <1>14. said' = wire' \o (Held' \o Late')
    <2>1. said = wire \o (<<>> \o rest[s])
      BY <1>1, <1>3, <1>13 DEF IInv, StreamInv
    <2>2. wire \in Seq(Bytes)
      BY <1>4 DEF TypeOK
    <2>3. (wire \o First(rest[s], n)) \o Rest(rest[s], n) = wire \o rest[s]
      <3>1. (wire \o First(rest[s], n)) \o Rest(rest[s], n) = wire \o (First(rest[s], n) \o Rest(rest[s], n))
        <4>1. PICK f \in Seq(Bytes), r \in Seq(Bytes) : f = First(rest[s], n) /\ r = Rest(rest[s], n)
          BY <1>5
        <4>2. (wire \o f) \o r = wire \o (f \o r)
          <5>1. wire \in Seq(Bytes) /\ f \in Seq(Bytes) /\ r \in Seq(Bytes)
            BY <2>2
          <5>2. \A x, y, z \in Seq(Bytes) : (x \o y) \o z = x \o (y \o z)
            BY BytesJoin
          <5> QED
            BY <5>1, <5>2, Zenon
        <4> QED
          BY <4>1, <4>2
      <3> QED
        BY <1>5, <3>1
    <2> QED
      BY <1>2, <1>4, <1>5, <1>7, <1>9, <2>1, <2>3, BytesJoin
  <1>15. StreamInv'
    BY <1>3, <1>11, <1>14 DEF StreamInv
  <1>16. InOrder'
    <2>1. Held' \o Late' \in Seq(Bytes)
      BY <1>5, <1>7, <1>9, BytesJoin
    <2> QED
      BY <1>5, <1>14, <2>1, JoinIsPrefix DEF InOrder
  <1> QED
    BY <1>7, <1>8, <1>10, <1>12, <1>15, <1>16 DEF IInv

(* A chunk goes from what is owed to the end of what is held.              *)
LEMMA WriteKeepsInv ==
  ASSUME IInv, FlowInv, FlowInv', NEW s \in Senders, Write(s) PROVE IInv'
  <1>1. /\ pc[s] = "write" /\ pc' = [pc EXCEPT ![s] = "count"]
        /\ blocks' = [blocks EXCEPT ![Len(blocks)].bytes = @ \o Chunk(s)]
    BY DEF Write, Go
  <1>2. UNCHANGED <<connection, room, mutex, size, rest, sending, said, wire>>
    BY DEF Write
  <1>3. pc[s] \in Inside /\ "count" \in Inside
    BY <1>1 DEF Inside
  <1>4. mutex = s /\ mutex # None /\ Late = rest[s] /\ Uncounted = 0
    BY <1>1, <1>3, OwnerIs DEF Owed
  <1>5. /\ MutexInv' /\ mutex' = s /\ pc'[s] = "count" /\ Late' = Owed(s)'
        /\ Uncounted' = Len(Chunk(s)')
    BY <1>1, <1>2, <1>3, OwnerMoves
  <1>6. Chunk(s)' = Chunk(s) /\ rest'[s] = rest[s]
    BY <1>2 DEF Chunk
  <1>7. Late' = Rest(rest[s], Len(Chunk(s))) /\ Uncounted' = Len(Chunk(s))
    BY <1>5, <1>6 DEF Owed
  <1>8. TypeOK /\ BlocksOK(blocks) /\ Held \in Seq(Bytes) /\ Held = HeldIn(blocks) /\ Len(Held) \in Nat
    BY HeldIs DEF IInv
  <1>9. /\ Chunk(s) \in Seq(Bytes) /\ Len(Chunk(s)) \in Nat /\ rest[s] \in Seq(Bytes)
        /\ Chunk(s) \o Rest(rest[s], Len(Chunk(s))) = rest[s]
    BY <1>8, ChunkIs
  <1>10. HasSpace(Chunk(s))
    BY <1>1, <1>4 DEF IInv, BufferInv
  <1>11. BlocksOK(blocks') /\ HeldIn(blocks') = HeldIn(blocks) \o Chunk(s)
    BY <1>1, <1>8, <1>9, <1>10, HeldMore DEF HasSpace
  <1>12. Held' = Held \o Chunk(s) /\ Len(Held') = Len(Held) + Len(Chunk(s))
    <2>1. Held' = Held \o Chunk(s)
      BY <1>8, <1>11, HeldNext
    <2>2. Len(Held \o Chunk(s)) = Len(Held) + Len(Chunk(s))
      BY <1>8, <1>9, JoinIs
    <2> QED
      BY <2>1, <2>2
  <1>13. TypeOK'
    <2>1. /\ room' \in 0 .. Room /\ mutex' \in Senders \union {None} /\ size' \in Nat
          /\ rest' \in [Senders -> Seq(Bytes)] /\ wire' \in Seq(Bytes) /\ said' \in Seq(Bytes)
      BY <1>2, <1>8 DEF TypeOK
    <2> QED
      BY <1>1, <1>2, <1>8, <1>11, <2>1, SenderTypes
  <1>14. BufferInv'
    <2>1. size' + Uncounted' = Len(Held')
      <3>1. size + 0 = Len(Held) /\ size \in Nat
        BY <1>4, <1>8 DEF IInv, BufferInv, TypeOK
      <3> QED
        BY <1>2, <1>7, <1>8, <1>9, <1>12, <3>1
    <2> QED
      BY <1>5, <2>1 DEF BufferInv
  <1>15. size' \in Nat /\ size' >= size
    BY <1>2, <1>8 DEF TypeOK
  <1>16. TakenInv'
    BY <1>1, <1>2, <1>9, <1>12, <1>15, SenderTaken
  <1>17. said' = said \o <<>> /\ <<>> \in Seq(Bytes) /\ Chunk(s) \o Late' = Late \o <<>>
    BY <1>2, <1>4, <1>7, <1>8, <1>9, BytesJoin DEF TypeOK
  <1>18. StreamInv' /\ InOrder'
    BY <1>1, <1>2, <1>9, <1>12, <1>13, <1>17, SenderStream DEF connection
  <1> QED
    BY <1>5, <1>13, <1>14, <1>16, <1>18 DEF IInv

LEMMA WriteFinishedKeepsInv ==
  ASSUME IInv, FlowInv, FlowInv', NEW s \in Senders, WriteFinished(s) PROVE IInv'
  <1>1. PICK to \in {"store", "start"} : to = IF Len(rest[s]) > Block THEN "store" ELSE "start"
    OBVIOUS
  <1>2. /\ pc[s] = "count" /\ pc' = [pc EXCEPT ![s] = to]
        /\ size' = size + Len(Chunk(s)) /\ rest' = [rest EXCEPT ![s] = Rest(rest[s], Len(Chunk(s)))]
    BY <1>1 DEF WriteFinished, Go
  <1>3. UNCHANGED <<connection, room, mutex, blocks, sending, said, wire>>
    BY DEF WriteFinished
  <1>4. pc[s] \in Inside /\ to \in Inside
    BY <1>1, <1>2 DEF Inside
  <1>5. mutex = s /\ Late = Rest(rest[s], Len(Chunk(s))) /\ Uncounted = Len(Chunk(s))
    BY <1>2, <1>4, OwnerIs DEF Owed
  <1>6. /\ MutexInv' /\ mutex' = s /\ pc'[s] = to /\ Late' = Owed(s)' /\ Uncounted' = 0
    BY <1>1, <1>2, <1>3, <1>4, OwnerMoves
  <1>7. TypeOK /\ BlocksOK(blocks) /\ Held \in Seq(Bytes) /\ Held = HeldIn(blocks)
    BY HeldIs DEF IInv
  <1>8. /\ Rest(rest[s], Len(Chunk(s))) \in Seq(Bytes) /\ Len(Chunk(s)) \in Nat
        /\ ~(Len(rest[s]) > Block) => Rest(rest[s], Len(Chunk(s))) = <<>>
    BY <1>7, ChunkIs
  <1>9. rest' \in [Senders -> Seq(Bytes)] /\ rest'[s] = Rest(rest[s], Len(Chunk(s)))
    BY <1>2, <1>7, <1>8 DEF TypeOK
  <1>10. Late' = Late
    BY <1>1, <1>5, <1>6, <1>8, <1>9 DEF Owed
  <1>11. Held' = Held /\ Held' = Held \o <<>> /\ <<>> \in Seq(Bytes)
    BY <1>3, <1>7, HeldNext, BytesJoin
  <1>12. size' \in Nat /\ size' >= size /\ size' = Len(Held)
    <2>1. size + Len(Chunk(s)) = Len(Held) /\ size \in Nat
      BY <1>5, <1>7 DEF IInv, BufferInv, TypeOK
    <2> QED
      BY <1>2, <1>8, <2>1
  <1>13. TypeOK'
    <2>1. /\ room' \in 0 .. Room /\ mutex' \in Senders \union {None} /\ BlocksOK(blocks')
          /\ wire' \in Seq(Bytes) /\ said' \in Seq(Bytes)
      BY <1>3, <1>7 DEF TypeOK
    <2> QED
      BY <1>2, <1>3, <1>7, <1>9, <1>12, <2>1, SenderTypes
  <1>14. BufferInv'
    BY <1>1, <1>6, <1>11, <1>12 DEF BufferInv
  <1>15. TakenInv'
    BY <1>2, <1>3, <1>11, <1>12, SenderTaken
  <1>16. said' = said \o <<>> /\ <<>> \o Late' = Late \o <<>>
    BY <1>3, <1>7, <1>10, BytesJoin, LateType DEF TypeOK
  <1>17. StreamInv' /\ InOrder'
    BY <1>2, <1>3, <1>11, <1>13, <1>16, SenderStream DEF connection
  <1> QED
    BY <1>6, <1>13, <1>14, <1>15, <1>17 DEF IInv

LEMMA SenderKeepsInv ==
  ASSUME IInv, FlowInv, FlowInv', NEW s \in Senders, Ask(s) \/ SendData(s) PROVE IInv'
  BY AskKeepsInv, LockKeepsInv, SendDirectKeepsInv, SendFailsKeepsInv, PrepareKeepsInv, WriteKeepsInv,
     WriteFinishedKeepsInv, FlowStepsKeepInv, ReturnKeepsInv DEF SendData

-----------------------------------------------------------------------------
(* A monitor's steps leave the senders where they are.                     *)
LEMMA MonitorLeaves ==
  ASSUME IInv, FlowInv, NEW m \in Monitors, NEW to, pc' = [pc EXCEPT ![m] = to], UNCHANGED <<mutex, rest>>
  PROVE  /\ MutexInv' /\ Late' = Late /\ Uncounted' = Uncounted
         /\ mutex # None => pc'[mutex] = pc[mutex] /\ Chunk(mutex)' = Chunk(mutex)
  <1>1. \A u \in Senders : pc'[u] = pc[u]
    BY Apartness, ThreadMoves
  <1>2. mutex \in Senders \union {None}
    BY DEF IInv, TypeOK
  <1>3. MutexInv'
    BY <1>1 DEF IInv, MutexInv
  <1>4. mutex # None => pc'[mutex] = pc[mutex] /\ rest'[mutex] = rest[mutex]
    BY <1>1, <1>2
  <1>5. mutex # None => Chunk(mutex)' = Chunk(mutex)
    BY <1>4 DEF Chunk
  <1>6. mutex # None => Owed(mutex)' = Owed(mutex)
    BY <1>4, <1>5 DEF Owed
  <1>7. Late' = Late
    BY <1>6 DEF Late
  <1>8. Uncounted' = Uncounted
    BY <1>4, <1>5 DEF Uncounted
  <1> QED
    BY <1>3, <1>4, <1>5, <1>7, <1>8

(* A monitor goes on and touches neither the buffer nor the socket.        *)
LEMMA MonitorQuiet ==
  ASSUME IInv, FlowInv, FlowInv', NEW m \in Monitors, NEW to, pc' = [pc EXCEPT ![m] = to],
         pc[m] # "delete", to # "delete",
         UNCHANGED <<connection, room, mutex, buffer, rest, sent, said, wire>>,
         NEW p \in Seq(Bytes), part' = [part EXCEPT ![m] = p], Len(p) <= Block,
         to = "send" => p # <<>> /\ Len(p) <= size /\ p = First(Held, Len(p)),
         more' \in [Monitors -> BOOLEAN]
  PROVE  IInv'
  <1>1. TypeOK /\ BlocksOK(blocks) /\ Held = HeldIn(blocks) /\ sent[m] = 0 /\ Len(p) \in Nat
    BY HeldIs, LenProperties DEF IInv, TakenInv
  <1>2. part' \in [Monitors -> Seq(Bytes)] /\ part'[m] = p /\ \A n \in Monitors \ {m} : part'[n] = part[n]
    BY <1>1 DEF TypeOK
  <1>3. pc'[m] = to /\ \A n \in Monitors \ {m} : pc'[n] = pc[n]
    BY Apartness, ThreadMoves
  <1>4. Held' = Held
    BY <1>1, HeldNext DEF buffer
  <1>5. TypeOK'
    <2>1. /\ room' \in 0 .. Room /\ BlocksOK(blocks') /\ size' \in Nat /\ wire' \in Seq(Bytes)
          /\ sent' \in [Monitors -> Nat]
      BY <1>1 DEF TypeOK, buffer
    <2>2. ASSUME NEW n \in Monitors PROVE Len(part'[n]) <= Block /\ sent'[n] <= Len(part'[n])
      <3>1. Len(part[n]) <= Block /\ sent[n] <= Len(part[n]) /\ sent'[n] = sent[n]
        BY <1>1 DEF TypeOK
      <3> QED
        BY <1>1, <1>2, <3>1
    <2> QED
      BY <1>1, <1>2, <2>1, <2>2, MonitorTypes
  <1>6. /\ MutexInv' /\ Late' = Late /\ Uncounted' = Uncounted
        /\ mutex # None => pc'[mutex] = pc[mutex] /\ Chunk(mutex)' = Chunk(mutex)
    BY MonitorLeaves
  <1>7. BufferInv'
    BY <1>4, <1>6 DEF BufferInv, IInv, HasSpace, buffer
  <1>8. TakenInv'
    <2> SUFFICES ASSUME NEW n \in Monitors
                 PROVE  /\ pc'[n] = "send" => part'[n] # <<>> /\ Len(part'[n]) <= size' /\ part'[n] = First(Held', Len(part'[n]))
                        /\ pc'[n] = "delete" => sent'[n] \in 1 .. size'
                        /\ pc'[n] # "delete" => sent'[n] = 0
      BY DEF TakenInv
    <2>1. CASE n = m
      BY <1>1, <1>2, <1>3, <1>4, <2>1 DEF buffer
    <2>2. CASE n # m
      BY <1>2, <1>3, <1>4, <2>2 DEF IInv, TakenInv, buffer
    <2> QED
      BY <2>1, <2>2
  <1>9. StreamInv'
    <2>1. (\A n \in Monitors : pc'[n] # "delete") => \A n \in Monitors : pc[n] # "delete"
      BY <1>3
    <2>2. \A n \in Monitors : pc'[n] = "delete" => pc[n] = "delete"
      BY <1>3
    <2> QED
      BY <1>4, <1>6, <2>1, <2>2 DEF IInv, StreamInv, connection
  <1>10. InOrder'
    BY DEF IInv, InOrder
  <1> QED
    BY <1>5, <1>6, <1>7, <1>8, <1>9, <1>10 DEF IInv

LEMMA QuietStepsKeepInv ==
  ASSUME IInv, FlowInv, FlowInv', NEW m \in Monitors,
         \/ WaitSendable(m) \/ OnSend(m) \/ CheckBeforeSend(m) \/ PartFails(m)
         \/ SendEnd(m) \/ Look(m) \/ Restart(m) \/ AddAgain(m)
  PROVE  IInv'
  <1>1. PICK to \in {"find", "connected", "idle", "length", "look", "restart", "again"} :
          /\ pc' = [pc EXCEPT ![m] = to]
          /\ pc[m] \in {"idle", "find", "connected", "send", "end", "look", "restart", "again"}
    BY DEF WaitSendable, OnSend, CheckBeforeSend, PartFails, SendEnd, Look, Restart, AddAgain, SendStart, Go
  <1>2. UNCHANGED <<connection, room, mutex, buffer, rest, sent, said, wire>>
    BY DEF WaitSendable, OnSend, CheckBeforeSend, PartFails, SendEnd, Look, Restart, AddAgain, sending
  <1>3. (part' = part \/ part' = [part EXCEPT ![m] = <<>>]) /\ (more' = more \/ more' = [more EXCEPT ![m] = FALSE])
    BY DEF WaitSendable, OnSend, CheckBeforeSend, PartFails, SendEnd, Look, Restart, AddAgain, sending
  <1>4. /\ part \in [Monitors -> Seq(Bytes)] /\ more \in [Monitors -> BOOLEAN] /\ Len(part[m]) <= Block
        /\ <<>> \in Seq(Bytes) /\ Len(<<>>) <= Block
    BY SendAssumption DEF IInv, TypeOK
  <1>5. more' \in [Monitors -> BOOLEAN]
    BY <1>3, <1>4
  <1>6. PICK p \in Seq(Bytes) : part' = [part EXCEPT ![m] = p] /\ Len(p) <= Block
    <2>1. part = [part EXCEPT ![m] = part[m]] /\ part[m] \in Seq(Bytes)
      BY <1>4
    <2> QED
      BY <1>3, <1>4, <2>1
  <1> QED
    BY <1>1, <1>2, <1>5, <1>6, MonitorQuiet

(* What a monitor reads is the front of the buffer, as far as it is        *)
(* counted.                                                                *)
LEMMA PeekKeepsInv ==
  ASSUME IInv, FlowInv, FlowInv', NEW m \in Monitors, Peek(m) PROVE IInv'
  <1> DEFINE n == Smaller(size, Block)
             p == First(Held, n)
  <1>1. PICK to \in {"end", "send"} : to = IF size = 0 THEN "end" ELSE "send"
    OBVIOUS
  <1>2. /\ pc[m] = "length" /\ pc' = [pc EXCEPT ![m] = to] /\ part' = [part EXCEPT ![m] = p]
        /\ more' = [more EXCEPT ![m] = size > Block]
    BY <1>1 DEF Peek, Go
  <1>3. UNCHANGED <<connection, room, mutex, buffer, rest, sent, said, wire>>
    BY DEF Peek
  <1>4. Held \in Seq(Bytes) /\ Len(Held) \in Nat /\ size \in Nat /\ size <= Len(Held) /\ Block \in Nat /\ Block > 0
    BY SizeWithin, SendAssumption
  <1>5. n \in 0 .. size /\ n \in 0 .. Block /\ (size > 0 => n > 0)
    BY <1>4, SmallerIs
  <1> HIDE DEF n
  <1>6. p \in Seq(Bytes) /\ Len(p) = n
    <2>1. n \in 0 .. Len(Held)
      BY <1>4, <1>5
    <2> QED
      BY <1>4, <2>1, CutIs DEF First
  <1>7. p = First(Held, Len(p)) /\ Len(p) <= size /\ Len(p) <= Block
    BY <1>4, <1>5, <1>6
  <1>8. to = "send" => p # <<>>
    <2> SUFFICES ASSUME to = "send", p = <<>> PROVE FALSE
      OBVIOUS
    <2>1. Len(p) = 0 /\ size # 0
      BY <1>1
    <2> QED
      BY <1>4, <1>5, <1>6, <2>1
  <1>9. more' \in [Monitors -> BOOLEAN]
    BY <1>2 DEF IInv, TypeOK
  <1> HIDE DEF p
  <1> QED
    BY <1>2, <1>3, <1>6, <1>7, <1>8, <1>9, MonitorQuiet

(* The front of what is held goes to the socket.                           *)
LEMMA FrontMoves ==
  ASSUME NEW w \in Seq(Bytes), NEW h \in Seq(Bytes), NEW l \in Seq(Bytes), NEW n \in 0 .. Len(h)
  PROVE  w \o (h \o l) = (w \o First(h, n)) \o (Rest(h, n) \o l)
  <1>1. PICK f, r : f = First(h, n) /\ r = Rest(h, n)
    OBVIOUS
  <1>2. f \in Seq(Bytes) /\ r \in Seq(Bytes) /\ f \o r = h
    BY <1>1, CutIs, CutJoins DEF First, Rest
  <1>3. \A x, y, z \in Seq(Bytes) : (x \o y) \o z = x \o (y \o z)
    BY BytesJoin
  <1>4. (f \o r) \o l = f \o (r \o l)
    <2>1. f \in Seq(Bytes) /\ r \in Seq(Bytes)
      BY <1>2
    <2> QED
      BY <1>3, <2>1, Zenon
  <1>5. PICK v \in Seq(Bytes) : v = r \o l
    BY <1>2, BytesJoin
  <1>6. (w \o f) \o v = w \o (f \o v)
    <2>1. f \in Seq(Bytes)
      BY <1>2
    <2> QED
      BY <1>3, <2>1, Zenon
  <1> QED
    BY <1>1, <1>2, <1>4, <1>5, <1>6

(* What the socket takes of it is what has then to be taken out.           *)
LEMMA SendPartKeepsInv ==
  ASSUME IInv, FlowInv, FlowInv', NEW m \in Monitors, SendPart(m) PROVE IInv'
  <1> DEFINE n == Smaller(Len(part[m]), room)
  <1>1. PICK to \in {"delete", "end"} : to = IF room > 0 THEN "delete" ELSE "end"
    OBVIOUS
  <1>2. /\ pc[m] = "send" /\ pc' = [pc EXCEPT ![m] = to] /\ socket = "open" /\ Transmit(part[m])
        /\ sent' = [sent EXCEPT ![m] = n] /\ more' = [more EXCEPT ![m] = @ /\ Len(part[m]) <= room]
    BY <1>1 DEF SendPart, Go
  <1>3. UNCHANGED <<connection, mutex, buffer, rest, part, said>>
    BY DEF SendPart
  <1>4. /\ TypeOK /\ BlocksOK(blocks) /\ Held = HeldIn(blocks) /\ part[m] \in Seq(Bytes)
        /\ Held \in Seq(Bytes) /\ Len(Held) \in Nat /\ size \in Nat /\ size <= Len(Held)
    BY HeldIs, SizeWithin DEF IInv, TypeOK
  <1>5. part[m] # <<>> /\ Len(part[m]) <= size /\ part[m] = First(Held, Len(part[m]))
    BY <1>2 DEF IInv, TakenInv
  <1>6. /\ n \in 0 .. Len(part[m]) /\ Len(part[m]) \in Nat /\ room' \in 0 .. Room
        /\ First(part[m], n) \in Seq(Bytes)
        /\ wire' = wire \o First(part[m], n) /\ wire' \in Seq(Bytes)
        /\ room > 0 => n > 0
        /\ ~(room > 0) => n = 0
    <2>1. PICK b \in Seq(Bytes) : b = part[m]
      BY <1>4
    <2>2. Transmit(b) /\ n = Smaller(Len(b), room) /\ b # <<>>
      BY <1>2, <1>5, <2>1
    <2> HIDE DEF n
    <2>3. /\ n \in 0 .. Len(b) /\ Len(b) \in Nat /\ room' \in 0 .. Room
          /\ First(b, n) \in Seq(Bytes)
          /\ wire' = wire \o First(b, n) /\ wire' \in Seq(Bytes)
      BY <1>4, <2>2, TransmitIs
    <2>4. (room > 0 /\ b # <<>> => n > 0) /\ (~(room > 0) => n = 0)
      BY <1>4, <2>2, TransmitIs
    <2> QED
      BY <2>1, <2>2, <2>3, <2>4
  <1> HIDE DEF n
  <1>7. sent'[m] = n /\ sent' \in [Monitors -> Nat] /\ \A k \in Monitors \ {m} : sent'[k] = sent[k]
    BY <1>2, <1>4, <1>6 DEF TypeOK
  <1>8. pc'[m] = to /\ \A k \in Monitors \ {m} : pc'[k] = pc[k] /\ pc[k] # "delete"
    <2>1. ASSUME NEW k \in Monitors \ {m} PROVE pc[k] # "delete"
      BY <1>2, Alone DEF FlowSteps, MonitorSteps
    <2> QED
      BY <1>2, <2>1, Apartness, ThreadMoves
  <1>9. Held' = Held
    BY <1>3, <1>4, HeldNext DEF buffer
  <1>10. TypeOK'
    <2>1. /\ BlocksOK(blocks') /\ size' \in Nat /\ part' \in [Monitors -> Seq(Bytes)]
          /\ more' \in [Monitors -> BOOLEAN]
      BY <1>2, <1>3, <1>4 DEF TypeOK, buffer
    <2>2. ASSUME NEW k \in Monitors PROVE Len(part'[k]) <= Block /\ sent'[k] <= Len(part'[k])
      <3>1. Len(part[k]) <= Block /\ sent[k] <= Len(part[k])
        BY <1>4 DEF TypeOK
      <3> QED
        BY <1>3, <1>6, <1>7, <3>1
    <2> QED
      BY <1>2, <1>3, <1>4, <1>6, <1>7, <2>1, <2>2, MonitorTypes
  <1>11. /\ MutexInv' /\ Late' = Late /\ Uncounted' = Uncounted
         /\ mutex # None => pc'[mutex] = pc[mutex] /\ Chunk(mutex)' = Chunk(mutex)
    BY <1>2, <1>3, MonitorLeaves
  <1>12. BufferInv'
    BY <1>3, <1>9, <1>11 DEF BufferInv, IInv, HasSpace, buffer
  <1>13. TakenInv'
    <2> SUFFICES ASSUME NEW k \in Monitors
                 PROVE  /\ pc'[k] = "send" => part'[k] # <<>> /\ Len(part'[k]) <= size' /\ part'[k] = First(Held', Len(part'[k]))
                        /\ pc'[k] = "delete" => sent'[k] \in 1 .. size'
                        /\ pc'[k] # "delete" => sent'[k] = 0
      BY DEF TakenInv
    <2>1. CASE k = m
      <3>1. pc'[k] # "send" /\ sent'[k] = n /\ size' = size /\ pc'[k] = to
        BY <1>1, <1>3, <1>7, <1>8, <2>1 DEF buffer
      <3>2. to = "delete" => n \in 1 .. size
        BY <1>1, <1>4, <1>5, <1>6
      <3>3. to # "delete" => n = 0
        BY <1>1, <1>6
      <3> QED
        BY <3>1, <3>2, <3>3
    <2>2. CASE k # m
      BY <1>3, <1>7, <1>8, <1>9, <2>2 DEF IInv, TakenInv, buffer
    <2> QED
      BY <2>1, <2>2
  <1>14. said' = wire' \o (Rest(Held, n) \o Late)
    <2>1. said = wire \o (Held \o Late)
      <3>1. \A k \in Monitors : pc[k] # "delete"
        BY <1>2, <1>8
      <3> QED
        BY <1>2, <3>1 DEF IInv, StreamInv
    <2>2. n \in 0 .. Len(Held) /\ First(Held, n) = First(part[m], n)
      <3>1. n \in 0 .. Len(Held) /\ Len(part[m]) \in 0 .. Len(Held)
        BY <1>4, <1>5, <1>6
      <3>2. PICK r \in Seq(Bytes) : Held = part[m] \o r
        <4>1. SubSeq(Held, 1, Len(part[m])) \o SubSeq(Held, Len(part[m]) + 1, Len(Held)) = Held
          BY <1>4, <3>1, CutJoins
        <4>2. SubSeq(Held, Len(part[m]) + 1, Len(Held)) \in Seq(Bytes)
          BY <1>4, <3>1, CutIs
        <4> QED
          BY <1>5, <4>1, <4>2 DEF First
      <3>3. SubSeq(part[m] \o r, 1, n) = SubSeq(part[m], 1, n)
        BY <1>4, <1>6, CutOfJoin
      <3> QED
        BY <3>1, <3>2, <3>3 DEF First
    <2>3. wire \in Seq(Bytes) /\ Late \in Seq(Bytes)
      BY <1>4, LateType DEF TypeOK
    <2>4. wire \o (Held \o Late) = (wire \o First(Held, n)) \o (Rest(Held, n) \o Late)
      <3>1. wire \in Seq(Bytes) /\ Held \in Seq(Bytes) /\ Late \in Seq(Bytes) /\ n \in 0 .. Len(Held)
        BY <1>4, <2>2, <2>3
      <3> QED
        BY <3>1, FrontMoves, Zenon
    <2> QED
      BY <1>3, <1>6, <2>1, <2>2, <2>4
  <1>15. Rest(Held, n) \o Late \in Seq(Bytes) /\ (~(room > 0) => Rest(Held, n) = Held)
    <2>1. n \in 0 .. Len(Held)
      BY <1>4, <1>5, <1>6
    <2>2. Rest(Held, n) \in Seq(Bytes) /\ Late \in Seq(Bytes)
      BY <1>4, <2>1, CutIs, LateType DEF Rest
    <2>3. ASSUME n = 0 PROVE Rest(Held, n) = Held
      <3>1. SubSeq(Held, 1, 0) \o SubSeq(Held, 0 + 1, Len(Held)) = Held
        BY <1>4, CutJoins
      <3>2. SubSeq(Held, 1, 0) = <<>> /\ SubSeq(Held, 0 + 1, Len(Held)) \in Seq(Bytes)
        <4>1. SubSeq(Held, 1, 0) \in Seq(Bytes) /\ Len(SubSeq(Held, 1, 0)) = 0
          BY <1>4, CutIs
        <4>2. SubSeq(Held, 0 + 1, Len(Held)) \in Seq(Bytes)
          BY <1>4, CutIs
        <4> QED
          BY <4>1, <4>2, EmptySeq
      <3> QED
        BY <2>3, <3>1, <3>2, BytesJoin DEF Rest
    <2> QED
      BY <1>6, <2>2, <2>3, BytesJoin
  <1>16. StreamInv'
    <2>1. (\A k \in Monitors : pc'[k] # "delete") => said' = wire' \o (Held' \o Late')
      BY <1>1, <1>8, <1>9, <1>11, <1>14, <1>15
    <2>2. \A k \in Monitors : pc'[k] = "delete" => said' = wire' \o (Rest(Held', sent'[k]) \o Late')
      BY <1>7, <1>8, <1>9, <1>11, <1>14
    <2> QED
      BY <2>1, <2>2 DEF StreamInv
  <1>17. InOrder'
    BY <1>6, <1>14, <1>15, JoinIsPrefix DEF InOrder
  <1> QED
    BY <1>10, <1>11, <1>12, <1>13, <1>16, <1>17 DEF IInv

(* What a monitor finds that takes out of the buffer what it has sent.     *)
LEMMA TakingIs ==
  ASSUME IInv, FlowInv, NEW m \in Monitors, pc[m] = "delete"
  PROVE  /\ sent[m] \in 1 .. size /\ size \in Nat /\ size <= Len(Held) /\ Len(Held) \in Nat
         /\ Held \in Seq(Bytes) /\ Held = HeldIn(blocks) /\ BlocksOK(blocks) /\ blocks # <<>>
         /\ FirstLeft = Len(Left(blocks[1])) /\ FirstLeft \in Nat
         /\ mutex # None => pc[mutex] # "direct"
         /\ \A n \in Monitors \ {m} : pc[n] # "delete" /\ pc[n] # "send"
  <1>1. sent[m] \in 1 .. size
    BY DEF IInv, TakenInv
  <1>2. /\ Held \in Seq(Bytes) /\ Held = HeldIn(blocks) /\ BlocksOK(blocks)
        /\ size \in Nat /\ size <= Len(Held) /\ Len(Held) \in Nat
    BY HeldIs, SizeWithin DEF IInv
  <1>3. blocks # <<>>
    <2> SUFFICES ASSUME blocks = <<>> PROVE FALSE
      OBVIOUS
    <2>1. Len(Held) = 0
      BY <1>2, HeldNone
    <2> QED
      BY <1>1, <1>2, <2>1
  <1>4. Head(blocks) = blocks[1] /\ Left(blocks[1]) \in Seq(Bytes)
    BY <1>2, <1>3, HeldFirst
  <1>5. FirstLeft = Len(Left(blocks[1])) /\ FirstLeft \in Nat
    BY <1>4, LenProperties DEF FirstLeft
  <1>6. mutex # None => pc[mutex] # "direct"
    <2>1. mutex # None /\ pc[mutex] = "direct" => size = 0
      BY DEF IInv, BufferInv
    <2> QED
      BY <1>1, <1>2, <2>1
  <1>7. ASSUME NEW n \in Monitors \ {m} PROVE pc[n] # "delete" /\ pc[n] # "send"
    BY Alone DEF FlowSteps, MonitorSteps
  <1> QED
    BY <1>1, <1>2, <1>3, <1>5, <1>6, <1>7

(* k bytes leave the front of the buffer, of those the monitor has sent.   *)
LEMMA TakingKeepsInv ==
  ASSUME IInv, FlowInv, FlowInv', NEW m \in Monitors, pc[m] = "delete",
         NEW to \in {"find", "end", "delete"}, pc' = [pc EXCEPT ![m] = to],
         UNCHANGED <<connection, room, mutex, rest, part, more, said, wire>>,
         NEW k \in Nat, k <= sent[m], sent' = [sent EXCEPT ![m] = sent[m] - k], size' = size - k,
         to = "delete" <=> k # sent[m],
         BlocksOK(blocks'), HeldIn(blocks') = Rest(HeldIn(blocks), k),
         blocks' # <<>>, Last(blocks').bytes = Last(blocks).bytes
  PROVE  IInv'
  <1>1. /\ sent[m] \in 1 .. size /\ size \in Nat /\ size <= Len(Held) /\ Len(Held) \in Nat
        /\ Held \in Seq(Bytes) /\ Held = HeldIn(blocks) /\ BlocksOK(blocks)
        /\ mutex # None => pc[mutex] # "direct"
        /\ \A n \in Monitors \ {m} : pc[n] # "delete" /\ pc[n] # "send"
    BY TakingIs
  <1>2. k \in 0 .. Len(Held) /\ sent[m] - k \in 0 .. Len(Held) - k /\ sent[m] - k \in Nat /\ size' \in Nat
    BY <1>1
  <1>3. TypeOK
    BY DEF IInv
  <1>4. sent' \in [Monitors -> Nat] /\ sent'[m] = sent[m] - k /\ \A n \in Monitors \ {m} : sent'[n] = sent[n]
    BY <1>2, <1>3 DEF TypeOK
  <1>5. pc'[m] = to /\ \A n \in Monitors \ {m} : pc'[n] = pc[n]
    BY Apartness, ThreadMoves
  <1>6. Held' = Rest(Held, k) /\ Rest(Held, k) \in Seq(Bytes) /\ Len(Held') = Len(Held) - k
    <2>1. Held' = Rest(Held, k)
      BY <1>1, HeldNext
    <2>2. Rest(Held, k) \in Seq(Bytes) /\ Len(Rest(Held, k)) = Len(Held) - k
      BY <1>1, <1>2, CutIs DEF Rest
    <2> QED
      BY <2>1, <2>2
  <1>7. TypeOK'
    <2>1. room' \in 0 .. Room /\ wire' \in Seq(Bytes) /\ part' \in [Monitors -> Seq(Bytes)] /\ more' \in [Monitors -> BOOLEAN]
      BY <1>3 DEF TypeOK
    <2>2. ASSUME NEW n \in Monitors PROVE Len(part'[n]) <= Block /\ sent'[n] <= Len(part'[n])
      <3>1. Len(part[n]) <= Block /\ sent[n] <= Len(part[n]) /\ sent[n] \in Nat /\ Len(part[n]) \in Nat
        BY <1>3, LenProperties DEF TypeOK
      <3> QED
        BY <1>4, <3>1
    <2> QED
      BY <1>2, <1>3, <1>4, <2>1, <2>2, MonitorTypes
  <1>8. /\ MutexInv' /\ Late' = Late /\ Uncounted' = Uncounted
        /\ mutex # None => pc'[mutex] = pc[mutex] /\ Chunk(mutex)' = Chunk(mutex)
    BY MonitorLeaves
  <1>9. BufferInv'
    <2>1. size' + Uncounted' = Len(Held')
      <3>1. PICK u \in Nat, h \in Nat : u = Uncounted /\ h = Len(Held) /\ size + u = h
        BY SizeWithin
      <3>2. (size - k) + u = h - k
        BY <1>1, <3>1
      <3> QED
        BY <1>6, <1>8, <3>1, <3>2
    <2>2. ASSUME mutex # None, pc[mutex] = "write" PROVE HasSpace(Chunk(mutex))'
      <3>1. HasSpace(Chunk(mutex))
        BY <2>2 DEF IInv, BufferInv
      <3> QED
        BY <1>8, <2>2, <3>1 DEF HasSpace
    <2> QED
      BY <1>1, <1>8, <2>1, <2>2 DEF BufferInv
  <1>10. TakenInv'
    <2> SUFFICES ASSUME NEW n \in Monitors
                 PROVE  /\ pc'[n] = "send" => part'[n] # <<>> /\ Len(part'[n]) <= size' /\ part'[n] = First(Held', Len(part'[n]))
                        /\ pc'[n] = "delete" => sent'[n] \in 1 .. size'
                        /\ pc'[n] # "delete" => sent'[n] = 0
      BY DEF TakenInv
    <2>1. CASE n = m
      <3>1. pc'[n] = to /\ pc'[n] # "send" /\ sent'[n] = sent[m] - k
        BY <1>4, <1>5, <2>1
      <3>2. to = "delete" => sent[m] - k \in 1 .. size - k
        BY <1>1
      <3>3. to # "delete" => sent[m] - k = 0
        BY <1>1
      <3> QED
        BY <3>1, <3>2, <3>3
    <2>2. CASE n # m
      BY <1>1, <1>4, <1>5, <2>2 DEF IInv, TakenInv
    <2> QED
      BY <2>1, <2>2
  <1>11. Rest(Held', sent[m] - k) = Rest(Held, sent[m])
    <2>1. PICK j : j = sent[m] - k
      OBVIOUS
    <2>2. j \in 0 .. Len(Held) - k /\ k + j = sent[m]
      BY <1>1, <1>2, <2>1
    <2>3. Held' = SubSeq(Held, k + 1, Len(Held))
      BY <1>6 DEF Rest
    <2>4. SubSeq(Held', j + 1, Len(Held')) = SubSeq(Held, k + j + 1, Len(Held))
      <3>1. PICK b, c : b \in Seq(Bytes) /\ b = Held /\ c = Held'
        BY <1>1
      <3>2. k \in 0 .. Len(b) /\ j \in 0 .. Len(b) - k /\ c = SubSeq(b, k + 1, Len(b))
        BY <1>2, <2>2, <2>3, <3>1
      <3>3. SubSeq(c, j + 1, Len(c)) = SubSeq(b, k + j + 1, Len(b))
        BY <3>2, CutAgain
      <3> QED
        BY <3>1, <3>3
    <2> QED
      BY <2>1, <2>2, <2>4 DEF Rest
  <1>12. socket = "open" => said' = wire' \o (Rest(Held', sent[m] - k) \o Late')
    BY <1>8, <1>11 DEF IInv, StreamInv
  <1>13. StreamInv'
    <2>1. ASSUME socket = "open", \A n \in Monitors : pc'[n] # "delete"
          PROVE  said' = wire' \o (Held' \o Late')
      <3>1. k = sent[m]
        BY <1>5, <2>1
      <3>2. Held' = Rest(Held, sent[m])
        BY <1>6, <3>1
      <3> QED
        BY <1>11, <1>12, <2>1, <3>2
    <2>2. \A n \in Monitors : pc'[n] = "delete" => n = m
      BY <1>1, <1>5
    <2>3. socket' = socket
      BY DEF connection
    <2> QED
      BY <1>4, <1>12, <2>1, <2>2, <2>3 DEF StreamInv
  <1>14. InOrder'
    BY DEF IInv, InOrder
  <1> QED
    BY <1>7, <1>8, <1>9, <1>10, <1>13, <1>14 DEF IInv

(* In both branches of IOBuffer::ReadData; a block is deleted only when    *)
(* there is another after it, so never the one a sender writes to.         *)
LEMMA ReadDataKeepsInv ==
  ASSUME IInv, FlowInv, FlowInv', NEW m \in Monitors, ReadData(m) PROVE IInv'
  <1>1. pc[m] = "delete" /\ UNCHANGED <<connection, room, mutex, rest, part, more, said, wire>>
    BY DEF ReadData
  <1>2. /\ sent[m] \in 1 .. size /\ size \in Nat /\ size <= Len(Held) /\ Len(Held) \in Nat
        /\ Held = HeldIn(blocks) /\ BlocksOK(blocks) /\ blocks # <<>>
        /\ FirstLeft = Len(Left(blocks[1])) /\ FirstLeft \in Nat
    BY <1>1, TakingIs
  <1>3. sent[m] \in Nat
    BY <1>2
  <1>4. CASE sent[m] <= FirstLeft /\ TakeLast(m) /\ pc' = [pc EXCEPT ![m] = AfterSend(m)]
    <2>1. PICK to \in {"find", "end"} : to = AfterSend(m)
      BY DEF AfterSend
    <2>2. PICK k \in Nat : k = sent[m]
      BY <1>3
    <2>3. blocks' = [blocks EXCEPT ![1].pos = @ + k] /\ size' = size - k /\ sent' = [sent EXCEPT ![m] = 0]
      BY <1>4, <2>2 DEF TakeLast
    <2>4. sent[m] - k = 0 /\ k <= sent[m] /\ k <= Len(Left(blocks[1]))
      BY <1>2, <1>4, <2>2
    <2>5. /\ BlocksOK(blocks') /\ HeldIn(blocks') = Rest(HeldIn(blocks), k)
          /\ blocks' # <<>> /\ Last(blocks').bytes = Last(blocks).bytes
      BY <1>2, <2>3, <2>4, HeldTaken
    <2>6. sent' = [sent EXCEPT ![m] = sent[m] - k] /\ pc' = [pc EXCEPT ![m] = to]
      BY <1>4, <2>1, <2>3, <2>4
    <2> QED
      BY <1>1, <2>1, <2>2, <2>3, <2>4, <2>5, <2>6, TakingKeepsInv
  <1>5. CASE sent[m] > FirstLeft /\ TakeBlock(m) /\ UNCHANGED pc
    <2>1. PICK k \in Nat : k = FirstLeft
      BY <1>2
    <2>2. blocks' = Tail(blocks) /\ size' = size - k /\ sent' = [sent EXCEPT ![m] = sent[m] - k]
      BY <1>5, <2>1 DEF TakeBlock
    <2>3. k < Len(HeldIn(blocks)) /\ k <= sent[m] /\ k # sent[m]
      BY <1>2, <1>3, <1>5, <2>1
    <2>4. k = Len(Left(Head(blocks)))
      BY <2>1 DEF FirstLeft
    <2>5. /\ HeldIn(Tail(blocks)) = Rest(HeldIn(blocks), k) /\ BlocksOK(Tail(blocks))
          /\ k < Len(HeldIn(blocks)) => Tail(blocks) # <<>> /\ Last(Tail(blocks)) = Last(blocks)
      BY <1>2, <2>4, HeldDropped
    <2>6. pc' = [pc EXCEPT ![m] = "delete"]
      BY <1>1, <1>5 DEF FlowInv, StepsOK
    <2> QED
      BY <1>1, <2>1, <2>2, <2>3, <2>5, <2>6, TakingKeepsInv
  <1> QED
    BY <1>4, <1>5 DEF ReadData

LEMMA MonitorKeepsInv ==
  ASSUME IInv, FlowInv, FlowInv', NEW m \in Monitors, SendAbleMonitor(m) PROVE IInv'
  BY QuietStepsKeepInv, PeekKeepsInv, SendPartKeepsInv, ReadDataKeepsInv DEF SendAbleMonitor

-----------------------------------------------------------------------------
(* The worker that tells of the connection, the peer, and those who close: *)
(* nothing is said or sent, and no sender and no monitor goes on.          *)
LEMMA OthersKeepInv ==
  ASSUME IInv, FlowInv, FlowInv', TypeOK',
         \A t \in Senders \union Monitors : pc'[t] = pc[t],
         UNCHANGED <<mutex, buffer, rest, sending, said, wire>>, socket' = "open" => socket = "open"
  PROVE  IInv'
  <1>1. TypeOK /\ Held = HeldIn(blocks) /\ mutex \in Senders \union {None}
    BY HeldIs DEF IInv, TypeOK
  <1>2. Held' = Held
    BY <1>1, HeldNext DEF buffer
  <1>3. mutex # None => pc'[mutex] = pc[mutex] /\ Chunk(mutex)' = Chunk(mutex)
    BY <1>1 DEF Chunk
  <1>4. Late' = Late /\ Uncounted' = Uncounted
    BY <1>3 DEF Late, Owed, Uncounted
  <1>5. MutexInv'
    BY DEF IInv, MutexInv
  <1>6. BufferInv'
    BY <1>2, <1>3, <1>4 DEF IInv, BufferInv, HasSpace, buffer
  <1>7. TakenInv'
    BY <1>2 DEF IInv, TakenInv, buffer, sending
  <1>8. StreamInv' /\ InOrder'
    BY <1>2, <1>4 DEF IInv, StreamInv, InOrder, sending
  <1> QED
    BY <1>5, <1>6, <1>7, <1>8 DEF IInv

LEMMA ConnectorKeepsInv ==
  ASSUME IInv, FlowInv, FlowInv', StartFirst \/ AddSendableMonitor PROVE IInv'
  <1>1. PICK to \in {"addSendable", "done"} : pc' = [pc EXCEPT ![Connector] = to]
    BY DEF StartFirst, AddSendableMonitor, SendStart, Go
  <1>2. pc'[Connector] = to /\ \A t \in Senders \union Monitors : pc'[t] = pc[t]
    BY <1>1, Apartness, ThreadMoves
  <1>3. UNCHANGED <<connection, room, mutex, buffer, rest, sending, said, wire>>
    BY DEF StartFirst, AddSendableMonitor
  <1>4. TypeOK'
    BY <1>2, <1>3 DEF IInv, TypeOK, FlowInv, StepsOK, connection, buffer, sending
  <1> QED
    BY <1>2, <1>3, <1>4, OthersKeepInv DEF connection

LEMMA PeerKeepsInv ==
  ASSUME IInv, FlowInv, FlowInv', PeerReads \/ PeerResets \/ CloseConnect \/ SetUnconnected \/ CloseSocket \/ UNCHANGED vars
  PROVE  IInv'
  <1>1. UNCHANGED <<count, mutex, buffer, pc, rest, sending, said, wire>>
    BY DEF PeerReads, PeerResets, CloseConnect, SetUnconnected, CloseSocket, vars
  <1>2. /\ listed' \in BOOLEAN /\ connected' \in BOOLEAN /\ armed' \in BOOLEAN
        /\ socket' \in {"open", "reset", "closed"} /\ room' \in 0 .. Room
        /\ socket' = "open" => socket = "open"
    <2>1. /\ listed \in BOOLEAN /\ connected \in BOOLEAN /\ armed \in BOOLEAN
          /\ socket \in {"open", "reset", "closed"} /\ room \in 0 .. Room /\ Room \in 0 .. Room
      BY SendAssumption DEF IInv, TypeOK
    <2>2. CASE PeerReads
      BY <2>1, <2>2 DEF PeerReads, connection
    <2>3. CASE PeerResets
      BY <2>1, <2>3 DEF PeerResets
    <2>4. CASE CloseConnect
      BY <2>1, <2>4 DEF CloseConnect
    <2>5. CASE SetUnconnected
      BY <2>1, <2>5 DEF SetUnconnected
    <2>6. CASE CloseSocket
      BY <2>1, <2>6 DEF CloseSocket
    <2>7. CASE UNCHANGED vars
      BY <2>1, <2>7 DEF vars, connection
    <2> QED
      BY <2>2, <2>3, <2>4, <2>5, <2>6, <2>7
  <1>3. TypeOK'
    BY <1>1, <1>2 DEF IInv, TypeOK, buffer, sending
  <1> QED
    BY <1>1, <1>2, <1>3, OthersKeepInv

LEMMA InitInv == Init => IInv
  <1> SUFFICES ASSUME Init PROVE IInv
    OBVIOUS
  <1>1. <<>> \in Seq(Bytes) /\ <<>> \in Seq(Blocks) /\ Len(<<>>) = 0 /\ DOMAIN <<>> = {}
    OBVIOUS
  <1>2. /\ pc[Connector] = "sendStart"
        /\ \A t \in Senders \union Monitors : pc[t] = "idle"
    BY SendAssumption DEF Init, Threads
  <1>3. Held = <<>>
    <2>1. [i \in DOMAIN blocks |-> Left(blocks[i])] = <<>>
      BY DEF Init
    <2> QED
      BY <2>1 DEF Held, FlattenSeq
  <1>4. Late = <<>> /\ Uncounted = 0
    BY DEF Init, Late, Uncounted
  <1>5. MutexInv
    BY <1>2, Apartness DEF Init, MutexInv, Inside
  <1>6. BufferInv
    BY <1>1, <1>3, <1>4 DEF Init, BufferInv
  <1>7. TakenInv
    BY <1>2 DEF Init, TakenInv
  <1>8. StreamInv
    BY <1>2, <1>3, <1>4, <1>1 DEF Init, StreamInv
  <1>9. InOrder
    BY <1>1 DEF Init, InOrder, IsPrefix
  <1>10. TypeOK
    <2>1. room \in 0 .. Room
      BY SendAssumption DEF Init
    <2>2. /\ rest \in [Senders -> Seq(Bytes)] /\ part \in [Monitors -> Seq(Bytes)]
          /\ sent \in [Monitors -> Nat] /\ more \in [Monitors -> BOOLEAN]
      BY <1>1 DEF Init
    <2>3. \A m \in Monitors : Len(part[m]) <= Block /\ sent[m] <= Len(part[m])
      BY <1>1, SendAssumption DEF Init
    <2>4. \A i \in DOMAIN blocks : Len(blocks[i].bytes) <= Block /\ blocks[i].pos <= Len(blocks[i].bytes)
      BY <1>1 DEF Init
    <2> QED
      BY <1>1, <1>2, <2>1, <2>2, <2>3, <2>4 DEF Init, TypeOK, SenderSteps, MonitorSteps
  <1> QED
    BY <1>5, <1>6, <1>7, <1>8, <1>9, <1>10 DEF IInv

LEMMA StepKeepsInv == IInv /\ FlowInv /\ [Next]_vars => IInv'
  <1> SUFFICES ASSUME IInv, FlowInv, [Next]_vars PROVE IInv'
    OBVIOUS
  <1>1. FlowInv'
    BY StepKeeps
  <1>2. CASE PeerReads \/ PeerResets \/ CloseConnect \/ SetUnconnected \/ CloseSocket \/ UNCHANGED vars
    BY <1>1, <1>2, PeerKeepsInv
  <1>3. CASE StartFirst \/ AddSendableMonitor
    BY <1>1, <1>3, ConnectorKeepsInv
  <1>4. CASE \E s \in Senders : Ask(s) \/ SendData(s)
    BY <1>1, <1>4, SenderKeepsInv
  <1>5. CASE \E m \in Monitors : SendAbleMonitor(m)
    BY <1>1, <1>5, MonitorKeepsInv
  <1> QED
    BY <1>2, <1>3, <1>4, <1>5 DEF Next

LEMMA IInvIsInv == IInv => Inv
  <1> SUFFICES ASSUME IInv PROVE Inv
    OBVIOUS
  <1>1. mutex # None /\ pc[mutex] = "write" => HasSpace(Chunk(mutex))
    BY DEF IInv, BufferInv
  <1>2. size <= Len(Held) /\ size \in Nat
    BY SizeWithin
  <1>3. ASSUME NEW m \in Monitors, pc[m] = "delete" PROVE sent[m] <= size
    <2>1. sent[m] \in 1 .. size
      BY <1>3 DEF IInv, TakenInv
    <2> QED
      BY <1>2, <2>1
  <1> QED
    BY <1>1, <1>2, <1>3 DEF Inv, Apart, IInv

(* Bytes reach the socket in the order in which their senders got          *)
(* m_sendMutex, none twice and none left out, whether the sender himself   *)
(* sends them (NetConnect::SendData) or a monitor does (EpollFrame::       *)
(* SendData).                                                              *)
THEOREM InOrderHolds == Spec => []InOrder
  <1>1. IInv => InOrder
    BY DEF IInv
  <1> QED
    BY <1>1, InitFlow, StepKeeps, InitInv, StepKeepsInv, PTL DEF Spec

(* "Reading and writing at the same time never conflict, without a lock":  *)
(* the block a sender writes to is not deleted, and what a monitor takes   *)
(* out of the buffer is there (IOBuffer::ReadData).                        *)
THEOREM InvHolds == Spec => []Inv
  BY IInvIsInv, InitFlow, StepKeeps, InitInv, StepKeepsInv, PTL DEF Spec

-----------------------------------------------------------------------------
(* Links of a server to others.                                            *)
(*                                                                         *)
(* The inductive invariant.  SocketsInv: a socket that is free is so in    *)
(* all, and epoll watches one only for the link that has it.  StatesInv:   *)
(* what the state of a link says of its socket.                            *)
Has(l, s) == link[l].state # "deleted" /\ link[l].sock = s

SocketsInv ==
  \A s \in Socks :
    /\ kernel[s].at = "free" => kernel[s] = NoSocket
    /\ attached[s] # "none" => kernel[s].at = "up"
    /\ kernel[s].news => kernel[s].watched # Null
    /\ kernel[s].watched # Null => link[kernel[s].watched].sock = s

StatesInv ==
  \A l \in Links :
    /\ link[l].sock # Null => link[l].tried
    /\ link[l].state = "free" => ~link[l].tried
    /\ link[l].state \in {"free", "unconnected"} => link[l].sock = Null
    /\ link[l].state = "connectting" =>
         link[l].sock # Null /\ (attached[link[l].sock] # "none" => poll.mark = l)

(* What workers still have to do: the socket they close has no link left,  *)
(* and a link they fail was not answered yet.                              *)
TasksInv ==
  /\ engine = "st" => tasks = {} /\ \A s \in Socks : attached[s] \in {"none", "open"}
  /\ \A s \in Socks : <<"close", s>> \in tasks => kernel[s].at # "free" /\ attached[s] = "none"
  /\ \A s \in Socks : <<"close", s>> \in tasks \/ attached[s] = "told" => \A l \in Links : ~Has(l, s)
  /\ \A l \in Links : <<"failed", l>> \in tasks =>
       /\ link[l].state \in {"unconnectting", "connected"} /\ told[l] = 0
       /\ link[l].state = "connected" \/ poll.mark = l => l \in Keep
       /\ link[l].sock # Null => attached[link[l].sock] = "none"

ToldInv ==
  engine = "mt" => \A l \in Links :
    told[l] <= 1 /\ (link[l].state = "connectting" /\ poll.mark # l => told[l] = 0)

(* The thread that waits for results goes through a list of links that     *)
(* nobody else takes out of their state, once each.                        *)
RoundInv ==
  /\ poll.mark # Null => poll.pc \in {"A", "B"} /\ link[poll.mark].tried
  /\ poll.pc \in {"wait", "A"} =>
       /\ IsInjective(poll.clients)
       /\ \A l \in ToSet(poll.clients) :
            /\ link[l].state = "connectting" /\ poll.mark # l
            /\ link[l].inEpoll => kernel[link[l].sock].watched = l
  /\ poll.events # <<>> => poll.count > 0 /\ poll.pc \in {"A", "B"}
  /\ \A e \in ToSet(poll.events) :
       /\ link[e.link].tried
       /\ e.readable => \A s \in Socks : Has(e.link, s) => kernel[s].data

(* In the multi-threaded engine what epoll has reported is of links that   *)
(* wait still, once each, and outside of a round it watches no socket: so  *)
(* a socket whose number is used again is not reported for the old link.   *)
ReportsInv ==
  engine = "mt" =>
    /\ \A i, j \in DOMAIN poll.events : i # j => poll.events[i].link # poll.events[j].link
    /\ \A e \in ToSet(poll.events) :
         /\ link[e.link].state = "connectting" /\ poll.mark # e.link
         /\ poll.pc = "A" /\ e.link \in ToSet(poll.clients) => link[e.link].inEpoll
    /\ \A s \in Socks : LET l == kernel[s].watched IN
         l # Null => poll.pc \in {"wait", "A"} /\ l \in ToSet(poll.clients) /\ link[l].inEpoll

LinksIInv == LinksTypeOK /\ SocketsInv /\ StatesInv /\ TasksInv /\ NoSocketLost /\ ToldInv /\ RoundInv /\ ReportsInv

-----------------------------------------------------------------------------
(* A finite set of numbers can be put in order, the least one first.       *)
LEMMA SortedExists ==
  ASSUME NEW n \in Nat
  PROVE  \A S \in SUBSET Nat : IsFiniteSet(S) /\ Cardinality(S) = n =>
           \E s \in [1 .. n -> S] : \A i, j \in 1 .. n : i < j => s[i] < s[j]
  <1> DEFINE Order(S, s, k) == s \in [1 .. k -> S] /\ \A i, j \in 1 .. k : i < j => s[i] < s[j]
             T == {k \in Nat : \A S \in SUBSET Nat : IsFiniteSet(S) /\ Cardinality(S) = k => \E s : Order(S, s, k)}
  <1>1. 0 \in T
    <2>1. \A S : Order(S, [i \in 1 .. 0 |-> 0], 0)
      OBVIOUS
    <2> QED
      BY <2>1
  <1>2. ASSUME NEW k \in T PROVE k + 1 \in T
    <2> SUFFICES ASSUME NEW S \in SUBSET Nat, IsFiniteSet(S), Cardinality(S) = k + 1 PROVE \E s : Order(S, s, k + 1)
      OBVIOUS
    <2>1. S # {}
      BY FS_EmptySet
    <2>2. PICK x \in S : \A y \in S : x <= y
      BY <2>1, LeastNumber
    <2> DEFINE R == S \ {x}
    <2>3. R \in SUBSET Nat /\ IsFiniteSet(R) /\ Cardinality(R) = k
      <3>1. k \in Nat
        BY <1>2
      <3> HIDE DEF T
      <3>2. IsFiniteSet(S \ {x}) /\ Cardinality(S \ {x}) = Cardinality(S) - 1
        BY FS_RemoveElement
      <3> QED
        BY <3>1, <3>2
    <2>4. PICK s : Order(R, s, k)
      BY <2>3, <1>2
    <2> DEFINE t == [i \in 1 .. k + 1 |-> IF i = 1 THEN x ELSE s[i - 1]]
    <2>5. ASSUME NEW i \in 1 .. k + 1, i # 1 PROVE i - 1 \in 1 .. k /\ s[i - 1] \in R /\ x < s[i - 1]
      <3>1. k \in Nat /\ i - 1 \in 1 .. k
        BY <2>5
      <3>2. s[i - 1] \in R
        BY <2>4, <3>1
      <3>3. s[i - 1] \in Nat /\ x \in Nat /\ x <= s[i - 1] /\ s[i - 1] # x
        BY <2>2, <2>3, <3>2
      <3> QED
        BY <3>1, <3>2, <3>3
    <2>6. t \in [1 .. k + 1 -> S]
      BY <2>5
    <2>7. ASSUME NEW i \in 1 .. k + 1, NEW j \in 1 .. k + 1, i < j PROVE t[i] < t[j]
      <3>1. j # 1 /\ j - 1 \in 1 .. k
        BY <2>7
      <3>2. CASE i = 1
        BY <3>1, <3>2, <2>5
      <3>3. CASE i # 1
        <4>1. i - 1 \in 1 .. k /\ i - 1 < j - 1
          BY <2>7, <3>3
        <4> QED
          BY <4>1, <3>1, <3>3, <2>4
      <3> QED
        BY <3>2, <3>3
    <2> QED
      BY <2>6, <2>7
  <1> HIDE DEF T
  <1>3. T = Nat
    <2>1. T \in SUBSET Nat
      BY DEF T
    <2> QED
      BY <1>1, <1>2, <2>1, AllNumbers
  <1> QED
    BY <1>3 DEF T

LEMMA SortedIs ==
  ASSUME NEW S \in SUBSET Nat, IsFiniteSet(S)
  PROVE  /\ Sorted(S) \in Seq(S) /\ Len(Sorted(S)) = Cardinality(S)
         /\ IsInjective(Sorted(S)) /\ ToSet(Sorted(S)) = S
  <1> DEFINE n == Cardinality(S)
             f == Sorted(S)
  <1>1. n \in Nat
    BY FS_CardinalityType
  <1>2. \E s \in [1 .. n -> S] : \A i, j \in 1 .. n : i < j => s[i] < s[j]
    BY <1>1, SortedExists
  <1>3. f \in [1 .. n -> S] /\ \A i, j \in 1 .. n : i < j => f[i] < f[j]
    BY <1>2 DEF Sorted
  <1> HIDE DEF f
  <1>4. IsInjective(f)
    <2>1. ASSUME NEW i \in 1 .. n, NEW j \in 1 .. n, f[i] = f[j] PROVE i = j
      <3>1. f[i] \in Nat /\ f[j] \in Nat
        BY <1>3
      <3>2. ~ (i < j) /\ ~ (j < i)
        BY <1>3, <2>1, <3>1
      <3> QED
        BY <3>2
    <2> QED
      BY <1>3, <2>1 DEF IsInjective
  <1>5. f \in Injection(1 .. n, S)
    BY <1>3, <1>4 DEF Injection
  <1>6. Cardinality(1 .. n) = n
    BY <1>1, FS_Interval
  <1>7. f \in Surjection(1 .. n, S)
    BY <1>5, <1>6, FS_Injection
  <1>8. ToSet(f) = S
    BY <1>3, <1>7 DEF Surjection, ToSet
  <1>9. f \in Seq(S) /\ Len(f) = n
    BY <1>1, <1>3
  <1> QED
    BY <1>4, <1>8, <1>9 DEF f

(* What is taken from a list is not in the rest of it.                     *)
LEMMA TailIs ==
  ASSUME NEW E, NEW q \in Seq(E), q # <<>>, IsInjective(q)
  PROVE  /\ Tail(q) \in Seq(E) /\ IsInjective(Tail(q)) /\ Head(q) \in ToSet(q)
         /\ ToSet(Tail(q)) = ToSet(q) \ {Head(q)}
  <1> DEFINE t == Tail(q)
             n == Len(q)
  <1>1. /\ n \in Nat \ {0} /\ t \in Seq(E) /\ DOMAIN t = 1 .. n - 1 /\ DOMAIN q = 1 .. n
        /\ Head(q) = q[1] /\ \A i \in 1 .. n - 1 : t[i] = q[i + 1]
    BY HeadTailProperties, LenProperties, EmptySeq
  <1> HIDE DEF t, n
  <1>2. \A i \in 1 .. n - 1 : i + 1 \in 1 .. n /\ i + 1 # 1
    BY <1>1
  <1>3. \A i \in 1 .. n : i # 1 => i - 1 \in 1 .. n - 1 /\ t[i - 1] = q[i]
    <2> SUFFICES ASSUME NEW i \in 1 .. n, i # 1 PROVE i - 1 \in 1 .. n - 1 /\ t[i - 1] = q[i]
      OBVIOUS
    <2>1. i - 1 \in 1 .. n - 1 /\ (i - 1) + 1 = i
      BY <1>1
    <2> QED
      BY <1>1, <2>1
  <1>4. \A i, j \in 1 .. n : q[i] = q[j] => i = j
    BY <1>1 DEF IsInjective
  <1>5. IsInjective(t)
    <2>1. ASSUME NEW i \in 1 .. n - 1, NEW j \in 1 .. n - 1, t[i] = t[j] PROVE i = j
      <3>1. i + 1 = j + 1
        BY <1>1, <1>2, <1>4, <2>1
      <3> QED
        BY <1>1, <3>1
    <2> QED
      BY <1>1, <2>1 DEF IsInjective
  <1>6. 1 \in 1 .. n
    BY <1>1
  <1>7. ASSUME NEW x PROVE x \in ToSet(t) <=> x \in ToSet(q) /\ x # q[1]
    <2>1. ASSUME x \in ToSet(t) PROVE x \in ToSet(q) /\ x # q[1]
      <3>1. PICK i \in 1 .. n - 1 : x = q[i + 1]
        BY <1>1, <2>1 DEF ToSet
      <3> QED
        BY <1>1, <1>2, <1>4, <1>6, <3>1 DEF ToSet
    <2>2. ASSUME x \in ToSet(q), x # q[1] PROVE x \in ToSet(t)
      <3>1. PICK i \in 1 .. n : x = q[i]
        BY <1>1, <2>2 DEF ToSet
      <3>2. i - 1 \in 1 .. n - 1 /\ t[i - 1] = x
        BY <1>3, <2>2, <3>1
      <3> QED
        BY <1>1, <3>2 DEF ToSet
    <2> QED
      BY <2>1, <2>2
  <1>8. ToSet(t) = ToSet(q) \ {q[1]} /\ q[1] \in ToSet(q)
    BY <1>1, <1>6, <1>7 DEF ToSet
  <1> QED
    BY <1>1, <1>5, <1>8 DEF t

LEMMA MembersOf == ASSUME NEW E, NEW q \in Seq(E) PROVE ToSet(q) \subseteq E
  <1>1. \A i \in DOMAIN q : q[i] \in E
    OBVIOUS
  <1> QED
    BY <1>1 DEF ToSet

LEMMA ListIs == ASSUME NEW E, NEW n \in Nat, NEW f \in [1 .. n -> E] PROVE f \in Seq(E)
  OBVIOUS

-----------------------------------------------------------------------------
KernelRecord ==
  [at : {"free", "connecting", "up", "refused"}, data : BOOLEAN, watched : Links \union {Null}, news : BOOLEAN]

PollRecord ==
  [pc : {"idle", "wait", "A", "B", "sleep", "io"}, clients : Seq(Links),
   events : Seq([link : Links, readable : BOOLEAN]), count : Nat, monitored : Nat,
   finished : BOOLEAN, mark : Links \union {Null}]

restVars == <<engine, tasks, signal, start, faults, tries, told, dangling>>

LEMMA InitLinks == LinksInit => LinksIInv
  <1> SUFFICES ASSUME LinksInit PROVE LinksIInv
    OBVIOUS
  <1>1. LinksTypeOK
    <2>1. link \in [Links -> SVR_CONNECT]
      <3> DEFINE new == {[state |-> st, sock |-> Null, tried |-> FALSE, inEpoll |-> FALSE] : st \in {"free", "unconnected"}}
      <3>1. new \subseteq SVR_CONNECT
        <4>1. \A st \in {"free", "unconnected"} :
                [state |-> st, sock |-> Null, tried |-> FALSE, inEpoll |-> FALSE] \in SVR_CONNECT
          BY DEF SVR_CONNECT
        <4> QED
          BY <4>1
      <3>2. link \in [Links -> new]
        BY DEF LinksInit
      <3> HIDE DEF new
      <3> QED
        BY <3>1, <3>2
    <2>2. NoSocket \in KernelRecord
      BY DEF NoSocket, KernelRecord
    <2>3. kernel \in [Socks -> KernelRecord]
      BY <2>2 DEF LinksInit
    <2>4. Resting \in PollRecord
      BY DEF Resting, PollRecord
    <2>5. Patience \in Nat /\ MaxTries \in Nat /\ MaxFaults \in Nat
      BY LinksAssumption
    <2>6. start \in 0 .. Patience /\ faults \in 0 .. MaxFaults /\ tries \in [Links -> 0 .. MaxTries] /\ told \in [Links -> 0 .. 2]
      BY <2>5 DEF LinksInit
    <2>7. attached \in [Socks -> {"none", "posted", "open", "closing", "told"}]
      BY DEF LinksInit
    <2>8. engine \in Engines /\ tasks = {} /\ signal = FALSE /\ dangling = FALSE /\ poll = Resting
      BY DEF LinksInit
    <2> QED
      BY <2>1, <2>3, <2>4, <2>6, <2>7, <2>8 DEF LinksTypeOK, KernelRecord, PollRecord
  <1>2. SocketsInv
    BY DEF LinksInit, SocketsInv, NoSocket
  <1>3. StatesInv
    BY DEF LinksInit, StatesInv
  <1>4. TasksInv
    BY DEF LinksInit, TasksInv
  <1>5. NoSocketLost
    BY DEF LinksInit, NoSocketLost, NoSocket
  <1>6. ToldInv
    BY DEF LinksInit, ToldInv
  <1>7. poll.events = <<>> /\ poll.clients = <<>> /\ poll.mark = Null /\ poll.pc = "idle"
    BY DEF LinksInit, Resting
  <1>8. RoundInv
    BY <1>7 DEF LinksInit, RoundInv, ToSet
  <1>9. ReportsInv
    BY <1>7 DEF LinksInit, ReportsInv, ToSet, NoSocket
  <1> QED
    BY <1>1, <1>2, <1>3, <1>4, <1>5, <1>6, <1>8, <1>9 DEF LinksIInv

(* A socket changes that stays open and watched as it was.                 *)
LEMMA SocketChanges ==
  ASSUME LinksIInv, NEW s \in Socks, NEW k \in KernelRecord, kernel[s].at # "free", k.at # "free",
         kernel' = [kernel EXCEPT ![s] = k], attached[s] # "none" => k.at = "up",
         k.watched = kernel[s].watched, k.news => k.watched # Null, kernel[s].data => k.data,
         UNCHANGED <<link, attached, poll, restVars>>
  PROVE  LinksIInv'
  <1> USE DEF restVars
  <1>1. /\ \A t \in Socks : kernel'[t] = IF t = s THEN k ELSE kernel[t]
        /\ kernel' \in [Socks -> KernelRecord]
    BY DEF LinksIInv, LinksTypeOK, KernelRecord
  <1>2. \A t \in Socks : /\ kernel'[t].watched = kernel[t].watched /\ (kernel[t].data => kernel'[t].data)
                         /\ (kernel'[t].at = "free" <=> kernel[t].at = "free")
    BY <1>1
  <1>3. LinksTypeOK'
    BY <1>1 DEF LinksIInv, LinksTypeOK, KernelRecord
  <1>4. SocketsInv'
    BY <1>1, <1>2 DEF LinksIInv, SocketsInv
  <1>5. StatesInv'
    BY DEF LinksIInv, StatesInv
  <1>6. TasksInv'
    BY <1>2 DEF LinksIInv, TasksInv, Has
  <1>7. NoSocketLost'
    BY <1>2 DEF LinksIInv, NoSocketLost, LinksTypeOK, SVR_CONNECT
  <1>8. ToldInv'
    BY DEF LinksIInv, ToldInv
  <1>9. RoundInv'
    <2>1. \A l \in Links : link[l].state = "connectting" => link[l].sock \in Socks
      BY DEF LinksIInv, StatesInv, LinksTypeOK, SVR_CONNECT
    <2>2. ToSet(poll.clients) \subseteq Links
      BY DEF LinksIInv, LinksTypeOK, ToSet
    <2> QED
      BY <1>2, <2>1, <2>2 DEF LinksIInv, RoundInv, Has
  <1>10. ReportsInv'
    BY <1>2 DEF LinksIInv, ReportsInv
  <1> QED
    BY <1>3, <1>4, <1>5, <1>6, <1>7, <1>8, <1>9, <1>10 DEF LinksIInv

LEMMA NetworkKeeps == ASSUME LinksIInv, Network PROVE LinksIInv'
  <1>1. PICK s \in Socks : Establish(s) \/ Refuse(s) \/ Arrives(s)
    BY DEF Network
  <1>2. kernel \in [Socks -> KernelRecord] /\ kernel[s] \in KernelRecord
    BY DEF LinksIInv, LinksTypeOK, KernelRecord
  <1>3. attached[s] # "none" => kernel[s].at = "up"
    BY DEF LinksIInv, SocketsInv
  <1>4. CASE Establish(s)
    <2> DEFINE k == [kernel[s] EXCEPT !.at = "up", !.news = kernel[s].watched # Null]
    <2>1. /\ k \in KernelRecord /\ k.at = "up" /\ k.data = kernel[s].data /\ k.watched = kernel[s].watched
          /\ k.news = (kernel[s].watched # Null)
      BY <1>2 DEF KernelRecord
    <2>2. kernel' = [kernel EXCEPT ![s] = k] /\ kernel[s].at # "free"
      BY <1>2, <1>4 DEF Establish, KernelRecord
    <2>3. UNCHANGED <<link, attached, poll, restVars>>
      BY <1>4 DEF Establish, restVars
    <2> QED
      BY <2>1, <2>2, <2>3, SocketChanges
  <1>5. CASE Refuse(s)
    <2> DEFINE k == [kernel[s] EXCEPT !.at = "refused", !.data = TRUE, !.news = kernel[s].watched # Null]
    <2>1. /\ k \in KernelRecord /\ k.at = "refused" /\ k.data /\ k.watched = kernel[s].watched
          /\ k.news = (kernel[s].watched # Null)
      BY <1>2 DEF KernelRecord
    <2>2. kernel' = [kernel EXCEPT ![s] = k] /\ kernel[s].at = "connecting"
      BY <1>2, <1>5 DEF Refuse, KernelRecord
    <2>3. UNCHANGED <<link, attached, poll, restVars>>
      BY <1>5 DEF Refuse, restVars
    <2> QED
      BY <1>3, <2>1, <2>2, <2>3, SocketChanges
  <1>6. CASE Arrives(s)
    <2> DEFINE k == [kernel[s] EXCEPT !.data = TRUE, !.news = kernel[s].watched # Null]
    <2>1. /\ k \in KernelRecord /\ k.at = kernel[s].at /\ k.data /\ k.watched = kernel[s].watched
          /\ k.news = (kernel[s].watched # Null)
      BY <1>2 DEF KernelRecord
    <2>2. kernel' = [kernel EXCEPT ![s] = k] /\ kernel[s].at # "free"
      BY <1>2, <1>6 DEF Arrives, KernelRecord
    <2>3. UNCHANGED <<link, attached, poll, restVars>>
      BY <1>6 DEF Arrives, restVars
    <2> QED
      BY <1>3, <2>1, <2>2, <2>3, SocketChanges
  <1> QED
    BY <1>1, <1>4, <1>5, <1>6

-----------------------------------------------------------------------------
LEMMA Known ==
  ASSUME LinksIInv
  PROVE  /\ \A l \in Links : link[l] \in SVR_CONNECT /\ link[l].sock \in Socks \union {Null}
         /\ \A l \in Links : link[l].state = "connectting" => link[l].sock \in Socks
         /\ kernel \in [Socks -> KernelRecord] /\ poll \in PollRecord
         /\ ToSet(poll.clients) \subseteq Links
         /\ \A e \in ToSet(poll.events) : e.link \in Links
         /\ Null \notin Socks /\ Null \notin Links
  <1>1. ToSet(poll.clients) \subseteq Links /\ \A e \in ToSet(poll.events) : e \in [link : Links, readable : BOOLEAN]
    <2>1. poll.clients \in Seq(Links) /\ poll.events \in Seq([link : Links, readable : BOOLEAN])
      BY DEF LinksIInv, LinksTypeOK
    <2> QED
      BY <2>1, MembersOf
  <1>2. \A l \in Links : link[l] \in SVR_CONNECT /\ link[l].sock \in Socks \union {Null}
    BY DEF LinksIInv, LinksTypeOK, SVR_CONNECT
  <1>3. \A l \in Links : link[l].state = "connectting" => link[l].sock \in Socks
    BY <1>2 DEF LinksIInv, StatesInv
  <1> QED
    BY <1>1, <1>2, <1>3, LinksAssumption DEF LinksIInv, LinksTypeOK, KernelRecord, PollRecord

LEMMA DeleteLinkKeeps == ASSUME LinksIInv, NEW x \in Links, DeleteLink(x) PROVE LinksIInv'
  <1>1. /\ x \notin Keep /\ link[x].state \in {"connected", "unconnected"}
        /\ \A l \in Links : /\ l # x => link'[l] = link[l]
                            /\ link'[l].state = IF l = x THEN "deleted" ELSE link[l].state
                            /\ link'[l].sock = link[l].sock /\ link'[l].tried = link[l].tried
                            /\ link'[l].inEpoll = link[l].inEpoll
        /\ UNCHANGED <<engine, kernel, attached, poll, tasks, signal, start, faults, tries, told, dangling>>
    BY Known DEF DeleteLink, SVR_CONNECT, LinksIInv, LinksTypeOK
  <1>2. <<"failed", x>> \notin tasks
    BY <1>1 DEF LinksIInv, TasksInv, StatesInv
  <1>3. LinksTypeOK'
    <2>1. [link[x] EXCEPT !.state = "deleted"] \in SVR_CONNECT
      BY Known DEF SVR_CONNECT
    <2>2. link' = [link EXCEPT ![x] = [link[x] EXCEPT !.state = "deleted"]]
      BY DEF DeleteLink
    <2>3. link' \in [Links -> SVR_CONNECT]
      BY <2>1, <2>2 DEF LinksIInv, LinksTypeOK
    <2> QED
      BY <1>1, <2>3 DEF LinksIInv, LinksTypeOK
  <1>4. SocketsInv'
    BY <1>1, Known DEF LinksIInv, SocketsInv, KernelRecord
  <1>5. StatesInv'
    BY <1>1 DEF LinksIInv, StatesInv
  <1>6. TasksInv'
    BY <1>1, <1>2 DEF LinksIInv, TasksInv, Has
  <1>7. NoSocketLost'
    BY <1>1 DEF LinksIInv, NoSocketLost
  <1>8. ToldInv'
    BY <1>1 DEF LinksIInv, ToldInv
  <1>9. RoundInv'
    <2>1. \A l \in ToSet(poll.clients) : poll.pc \in {"wait", "A"} => l # x
      BY <1>1 DEF LinksIInv, RoundInv
    <2> QED
      BY <1>1, <2>1, Known DEF LinksIInv, RoundInv, Has, PollRecord
  <1>10. ReportsInv'
    <2>1. \A e \in ToSet(poll.events) : engine = "mt" => e.link # x
      BY <1>1 DEF LinksIInv, ReportsInv
    <2> QED
      BY <1>1, <2>1, Known DEF LinksIInv, ReportsInv, KernelRecord
  <1> QED
    BY <1>3, <1>4, <1>5, <1>6, <1>7, <1>8, <1>9, <1>10 DEF LinksIInv

LEMMA OneHas ==
  ASSUME LinksIInv
  PROVE  /\ \A k, l \in Links, s \in Socks : Has(k, s) /\ Has(l, s) => k = l
         /\ \A l \in Links, s \in Socks : Has(l, s) => kernel[s].at # "free"
  BY Known DEF LinksIInv, NoSocketLost, Has

LEMMA FailedIs ==
  ASSUME NEW r \in SVR_CONNECT
  PROVE  /\ Failed(r) \in SVR_CONNECT /\ Failed(r).state = "unconnected" /\ Failed(r).sock = Null
         /\ Failed(r).tried = r.tried /\ Failed(r).inEpoll = r.inEpoll
  BY DEF Failed, SVR_CONNECT

LEMMA ConnectFailedKeeps == ASSUME LinksIInv, NEW x \in Links, ConnectFailed(x) PROVE LinksIInv'
  <1> DEFINE z == link[x].sock
  <1>1. /\ link' = [link EXCEPT ![x] = Failed(link[x])]
        /\ UNCHANGED <<engine, kernel, attached, poll, signal, start, faults, tries, dangling>>
        /\ <<"failed", x>> \in tasks
        /\ tasks' = (tasks \ {<<"failed", x>>}) \union (IF z = Null THEN {} ELSE {<<"close", z>>})
        /\ Tell(x)
    BY DEF ConnectFailed
  <1>2. /\ \A l \in Links : link'[l] = IF l = x THEN Failed(link[x]) ELSE link[l]
        /\ link' \in [Links -> SVR_CONNECT]
    BY <1>1, Known, FailedIs DEF LinksIInv, LinksTypeOK
  <1>3. /\ link[x].state \in {"unconnectting", "connected"} /\ told[x] = 0 /\ engine # "st"
        /\ z \in Socks => attached[z] = "none" /\ kernel[z].at # "free"
    BY <1>1, Known DEF LinksIInv, TasksInv, NoSocketLost
  <1>4. /\ \A s \in Socks : <<"close", s>> \in tasks' <=> <<"close", s>> \in tasks \/ s = z
        /\ \A l \in Links : <<"failed", l>> \in tasks' <=> <<"failed", l>> \in tasks /\ l # x
    BY <1>1, Known
  <1>5. /\ told' \in [Links -> 0 .. 2] /\ \A l \in Links : told'[l] = IF l = x THEN 1 ELSE told[l]
    <2>1. Min({0 + 1, 2}) = 1
      BY DEF Min
    <2>2. told' = [told EXCEPT ![x] = Min({told[x] + 1, 2})]
      BY <1>1 DEF Tell
    <2>3. told' = [told EXCEPT ![x] = 1]
      BY <1>3, <2>1, <2>2
    <2> QED
      BY <2>3 DEF LinksIInv, LinksTypeOK
  <1>6. /\ Failed(link[x]).state = "unconnected" /\ Failed(link[x]).sock = Null
        /\ Failed(link[x]).tried = link[x].tried /\ link[x].tried \in BOOLEAN
    BY Known, FailedIs DEF SVR_CONNECT
  <1> HIDE DEF z
  <1>7. LinksTypeOK'
    <2>1. tasks' \subseteq ({"failed"} \X Links) \union ({"close"} \X Socks)
      BY <1>1, Known DEF LinksIInv, LinksTypeOK, z
    <2> QED
      BY <1>1, <1>2, <1>5, <2>1 DEF LinksIInv, LinksTypeOK
  <1>8. SocketsInv'
    <2> SUFFICES ASSUME NEW s \in Socks, kernel[s].watched # Null PROVE link'[kernel[s].watched].sock = s
      BY <1>1 DEF LinksIInv, SocketsInv
    <2>1. kernel[s].watched # x
      <3>1. engine = "mt"
        BY <1>3, LinksAssumption DEF LinksIInv, LinksTypeOK
      <3> QED
        BY <1>3, <3>1 DEF LinksIInv, ReportsInv, RoundInv
    <2> QED
      BY <1>2, <2>1, Known DEF LinksIInv, SocketsInv, KernelRecord
  <1>9. StatesInv'
    BY <1>1, <1>2, <1>3, <1>6 DEF LinksIInv, StatesInv
  <1>10. TasksInv'
    <2>1. \A l \in Links, s \in Socks : Has(l, s)' <=> Has(l, s) /\ l # x
      BY <1>2, <1>6, Known DEF Has
    <2>2. ASSUME z \in Socks, NEW l \in Links, l # x PROVE ~ Has(l, z)
      BY <1>3, <2>2, Known DEF LinksIInv, NoSocketLost, Has, z
    <2>3. \A s \in Socks : <<"close", s>> \in tasks' => kernel'[s].at # "free" /\ attached'[s] = "none"
      BY <1>1, <1>3, <1>4 DEF LinksIInv, TasksInv
    <2>4. \A s \in Socks : <<"close", s>> \in tasks' \/ attached'[s] = "told" => \A l \in Links : ~Has(l, s)'
      BY <1>1, <1>4, <2>1, <2>2 DEF LinksIInv, TasksInv
    <2>5. \A l \in Links : <<"failed", l>> \in tasks' =>
             /\ link'[l].state \in {"unconnectting", "connected"} /\ told'[l] = 0
             /\ link'[l].state = "connected" \/ poll'.mark = l => l \in Keep
             /\ link'[l].sock # Null => attached'[link'[l].sock] = "none"
      BY <1>1, <1>2, <1>4, <1>5 DEF LinksIInv, TasksInv
    <2> QED
      BY <1>1, <1>3, <2>3, <2>4, <2>5 DEF TasksInv
  <1>11. NoSocketLost'
    BY <1>1, <1>2, <1>4, <1>6, Known DEF LinksIInv, NoSocketLost, z
  <1>12. ToldInv'
    BY <1>1, <1>2, <1>5, <1>6 DEF LinksIInv, ToldInv
  <1>13. RoundInv'
    <2>1. \A l \in ToSet(poll.clients) : poll.pc \in {"wait", "A"} => l # x
      BY <1>3 DEF LinksIInv, RoundInv
    <2>2. \A l \in Links : /\ l # x => link'[l] = link[l]
                           /\ link'[l].tried = link[l].tried
                           /\ \A s \in Socks : Has(l, s)' => Has(l, s)
      BY <1>2, <1>6, Known DEF Has
    <2> QED
      BY <1>1, <2>1, <2>2, Known DEF LinksIInv, RoundInv, PollRecord
  <1>14. ReportsInv'
    <2>1. \A e \in ToSet(poll.events) : engine = "mt" => e.link # x
      BY <1>3 DEF LinksIInv, ReportsInv
    <2>2. engine = "mt" => \A s \in Socks : kernel[s].watched # Null => kernel[s].watched # x
      BY <1>3 DEF LinksIInv, ReportsInv, RoundInv
    <2> QED
      BY <1>1, <1>2, <2>1, <2>2, Known DEF LinksIInv, ReportsInv, KernelRecord
  <1> QED
    BY <1>7, <1>8, <1>9, <1>10, <1>11, <1>12, <1>13, <1>14 DEF LinksIInv

(* A socket is given back: nobody has it any more.                         *)
LEMMA SocketFreed ==
  ASSUME LinksIInv, NEW s \in Socks, \A l \in Links : ~Has(l, s), engine = "mt",
         kernel' = [kernel EXCEPT ![s] = NoSocket], attached' = [attached EXCEPT ![s] = "none"],
         tasks' = tasks \ {<<"close", s>>},
         UNCHANGED <<engine, link, poll, signal, start, faults, tries, told, dangling>>
  PROVE  LinksIInv'
  <1>1. /\ NoSocket \in KernelRecord /\ NoSocket.at = "free" /\ NoSocket.watched = Null /\ ~NoSocket.news
        /\ kernel' \in [Socks -> KernelRecord]
        /\ \A t \in Socks : kernel'[t] = IF t = s THEN NoSocket ELSE kernel[t]
        /\ \A t \in Socks : attached'[t] = IF t = s THEN "none" ELSE attached[t]
    BY Known DEF NoSocket, KernelRecord, LinksIInv, LinksTypeOK
  <1>2. /\ \A t \in Socks : <<"close", t>> \in tasks' <=> <<"close", t>> \in tasks /\ t # s
        /\ \A l \in Links : <<"failed", l>> \in tasks' <=> <<"failed", l>> \in tasks
    OBVIOUS
  <1>3. \A l \in Links : link[l].state = "connectting" => link[l].sock \in Socks /\ link[l].sock # s
    BY Known DEF Has
  <1>4. LinksTypeOK'
    BY <1>1 DEF LinksIInv, LinksTypeOK, KernelRecord
  <1>5. SocketsInv'
    BY <1>1 DEF LinksIInv, SocketsInv
  <1>6. StatesInv'
    BY <1>1, <1>3 DEF LinksIInv, StatesInv
  <1>7. TasksInv'
    <2>1. \A l \in Links : <<"failed", l>> \in tasks => link[l].state # "deleted" /\ link[l].sock # s
      BY DEF LinksIInv, TasksInv, Has
    <2> QED
      BY <1>1, <1>2, <2>1, Known DEF LinksIInv, TasksInv, Has
  <1>8. NoSocketLost'
    BY <1>1, <1>2, Known DEF LinksIInv, NoSocketLost, Has
  <1>9. ToldInv'
    BY DEF LinksIInv, ToldInv
  <1>10. RoundInv'
    <2>1. \A l \in Links, t \in Socks : Has(l, t)' <=> Has(l, t)
      BY DEF Has
    <2> QED
      BY <1>1, <1>3, <2>1, Known DEF LinksIInv, RoundInv
  <1>11. ReportsInv'
    BY <1>1 DEF LinksIInv, ReportsInv
  <1> QED
    BY <1>4, <1>5, <1>6, <1>7, <1>8, <1>9, <1>10, <1>11 DEF LinksIInv

LEMMA CloseFailedKeeps == ASSUME LinksIInv, NEW s \in Socks, CloseFailed(s) PROVE LinksIInv'
  <1>1. <<"close", s>> \in tasks /\ attached[s] = "none" /\ \A l \in Links : ~Has(l, s)
    BY DEF CloseFailed, LinksIInv, TasksInv
  <1>2. engine = "mt"
    BY <1>1, LinksAssumption DEF LinksIInv, TasksInv, LinksTypeOK
  <1>3. attached' = [attached EXCEPT ![s] = "none"]
    BY <1>1 DEF CloseFailed, LinksIInv, LinksTypeOK
  <1> QED
    BY <1>1, <1>2, <1>3, SocketFreed DEF CloseFailed

LEMMA CloseLinkSocketKeeps == ASSUME LinksIInv, NEW s \in Socks, CloseLinkSocket(s) PROVE LinksIInv'
  <1>1. attached[s] = "told" /\ \A l \in Links : ~Has(l, s)
    BY DEF CloseLinkSocket, LinksIInv, TasksInv
  <1>2. engine = "mt"
    BY <1>1, LinksAssumption DEF LinksIInv, TasksInv, LinksTypeOK
  <1>3. <<"close", s>> \notin tasks
    BY <1>1 DEF LinksIInv, TasksInv
  <1>4. tasks' = tasks \ {<<"close", s>>}
    BY <1>3 DEF CloseLinkSocket
  <1> QED
    BY <1>1, <1>2, <1>4, SocketFreed DEF CloseLinkSocket

(* A connection goes on to its next state and remains.                     *)
LEMMA AttachedChanges ==
  ASSUME LinksIInv, NEW s \in Socks, NEW a \in {"open", "closing"}, attached[s] # "none", attached[s] # "told",
         a = "closing" => engine = "mt",
         attached' = [attached EXCEPT ![s] = a],
         UNCHANGED <<link, kernel, poll, restVars>>
  PROVE  LinksIInv'
  <1> USE DEF restVars
  <1>1. /\ attached' \in [Socks -> {"none", "posted", "open", "closing", "told"}]
        /\ \A t \in Socks : attached'[t] = IF t = s THEN a ELSE attached[t]
    BY DEF LinksIInv, LinksTypeOK
  <1>2. \A t \in Socks : (attached'[t] = "none" <=> attached[t] = "none") /\ (attached'[t] = "told" <=> attached[t] = "told")
    BY <1>1
  <1>3. LinksTypeOK'
    BY <1>1 DEF LinksIInv, LinksTypeOK
  <1>4. SocketsInv'
    BY <1>2 DEF LinksIInv, SocketsInv
  <1>5. StatesInv'
    BY <1>2, Known DEF LinksIInv, StatesInv
  <1>6. TasksInv'
    <2>1. engine = "st" => tasks = {} /\ \A t \in Socks : attached'[t] \in {"none", "open"}
      BY <1>1 DEF LinksIInv, TasksInv
    <2>2. \A t \in Socks : <<"close", t>> \in tasks => kernel[t].at # "free" /\ attached'[t] = "none"
      BY <1>2 DEF LinksIInv, TasksInv
    <2>3. \A t \in Socks : <<"close", t>> \in tasks \/ attached'[t] = "told" => \A l \in Links : ~Has(l, t)
      BY <1>2 DEF LinksIInv, TasksInv
    <2>4. \A l \in Links : <<"failed", l>> \in tasks =>
            /\ link[l].state \in {"unconnectting", "connected"} /\ told[l] = 0
            /\ link[l].state = "connected" \/ poll.mark = l => l \in Keep
            /\ link[l].sock # Null => attached'[link[l].sock] = "none"
      BY <1>2, Known DEF LinksIInv, TasksInv
    <2> QED
      BY <2>1, <2>2, <2>3, <2>4 DEF TasksInv, Has
  <1>7. NoSocketLost'
    BY <1>2 DEF LinksIInv, NoSocketLost
  <1>8. ToldInv' /\ ReportsInv'
    BY DEF LinksIInv, ToldInv, ReportsInv
  <1>9. RoundInv'
    BY DEF LinksIInv, RoundInv, Has
  <1> QED
    BY <1>3, <1>4, <1>5, <1>6, <1>7, <1>8, <1>9 DEF LinksIInv

LEMMA ConnectWorkerKeeps == ASSUME LinksIInv, NEW s \in Socks, ConnectWorker(s) PROVE LinksIInv'
  BY AttachedChanges DEF ConnectWorker, restVars

-----------------------------------------------------------------------------
(* SetServerClose takes a socket from the links that have it, and leaves   *)
(* the others as they are.                                                 *)
LEMMA SetServerCloseIs ==
  ASSUME LinksIInv, NEW s \in Socks, SetServerClose(s)
  PROVE  /\ link' \in [Links -> SVR_CONNECT]
         /\ \A l \in Links : Has(l, s) => /\ link'[l].state = "unconnected" /\ link'[l].sock = Null
                                          /\ link'[l].tried /\ link'[l].inEpoll = link[l].inEpoll
         /\ \A l \in Links : ~Has(l, s) => link'[l] = link[l]
         /\ \A l \in Links : link'[l].tried = link[l].tried
         /\ \A l \in Links, t \in Socks : Has(l, t)' <=> Has(l, t) /\ t # s
  <1>1. \A l \in Links : link'[l] = IF Has(l, s) THEN Failed(link[l]) ELSE link[l]
    BY DEF SetServerClose, Has
  <1>2. \A l \in Links : Has(l, s) => link[l].tried /\ link[l].tried \in BOOLEAN
    BY Known DEF LinksIInv, StatesInv, Has, SVR_CONNECT
  <1>3. \A l \in Links : link'[l] \in SVR_CONNECT
    BY <1>1, Known, FailedIs
  <1>4. link' \in [Links -> SVR_CONNECT]
    BY <1>3 DEF SetServerClose
  <1>5. \A l \in Links : Has(l, s) => /\ link'[l].state = "unconnected" /\ link'[l].sock = Null
                                      /\ link'[l].tried /\ link'[l].inEpoll = link[l].inEpoll
                                      /\ link'[l].tried = link[l].tried
    BY <1>1, <1>2, Known, FailedIs
  <1>6. \A l \in Links, t \in Socks : Has(l, t)' <=> Has(l, t) /\ t # s
    <2> SUFFICES ASSUME NEW l \in Links, NEW t \in Socks PROVE Has(l, t)' <=> Has(l, t) /\ t # s
      OBVIOUS
    <2>1. CASE Has(l, s)
      BY <2>1, <1>5, Known DEF Has
    <2>2. CASE ~Has(l, s)
      BY <2>2, <1>1 DEF Has
    <2> QED
      BY <2>1, <2>2
  <1> QED
    BY <1>1, <1>4, <1>5, <1>6

LEMMA CloseWorkerKeeps == ASSUME LinksIInv, NEW s \in Socks, CloseWorker(s) PROVE LinksIInv'
  <1>1. /\ attached[s] = "closing" /\ SetServerClose(s)
        /\ \A t \in Socks : attached'[t] = IF t = s THEN "told" ELSE attached[t]
        /\ attached' \in [Socks -> {"none", "posted", "open", "closing", "told"}]
        /\ UNCHANGED <<kernel, poll, restVars>>
    BY DEF CloseWorker, LinksIInv, LinksTypeOK, restVars
  <1>2. engine # "st" /\ engine = "mt"
    BY <1>1, LinksAssumption DEF LinksIInv, TasksInv, LinksTypeOK
  <1>3. \A l \in Links : Has(l, s) =>
          /\ link[l].state = "connectting" => poll.mark = l
          /\ <<"failed", l>> \notin tasks
    BY <1>1, Known DEF LinksIInv, StatesInv, TasksInv, Has
  <1> USE DEF restVars
  <1>4. LinksTypeOK'
    BY <1>1, SetServerCloseIs DEF LinksIInv, LinksTypeOK
  <1>5. SocketsInv'
    <2>1. ASSUME NEW t \in Socks, kernel[t].watched # Null PROVE link'[kernel[t].watched].sock = t
      <3> DEFINE l == kernel[t].watched
      <3>1. l \in Links /\ link[l].state = "connectting" /\ poll.mark # l
        BY <1>2, <2>1, Known DEF LinksIInv, ReportsInv, RoundInv, KernelRecord
      <3>2. ~Has(l, s)
        BY <1>3, <3>1
      <3> QED
        BY <1>1, <2>1, <3>1, <3>2, SetServerCloseIs DEF LinksIInv, SocketsInv
    <2> QED
      BY <1>1, <2>1 DEF LinksIInv, SocketsInv
  <1>6. StatesInv'
    <2> SUFFICES ASSUME NEW l \in Links
                 PROVE /\ link'[l].sock # Null => link'[l].tried
                       /\ link'[l].state = "free" => ~link'[l].tried
                       /\ link'[l].state \in {"free", "unconnected"} => link'[l].sock = Null
                       /\ link'[l].state = "connectting" =>
                            link'[l].sock # Null /\ (attached'[link'[l].sock] # "none" => poll'.mark = l)
      BY DEF StatesInv
    <2>1. CASE Has(l, s)
      BY <1>1, <2>1, SetServerCloseIs
    <2>2. CASE ~Has(l, s)
      <3>1. link'[l] = link[l] /\ (link[l].state = "connectting" => link[l].sock \in Socks /\ link[l].sock # s)
        BY <1>1, <2>2, SetServerCloseIs, Known DEF Has
      <3> QED
        BY <1>1, <3>1 DEF LinksIInv, StatesInv
    <2> QED
      BY <2>1, <2>2
  <1>7. TasksInv'
    <2>1. \A t \in Socks : <<"close", t>> \in tasks => kernel[t].at # "free" /\ attached'[t] = "none"
      BY <1>1 DEF LinksIInv, TasksInv
    <2>2. \A t \in Socks : <<"close", t>> \in tasks \/ attached'[t] = "told" => \A l \in Links : ~Has(l, t)'
      BY <1>1, SetServerCloseIs DEF LinksIInv, TasksInv
    <2>3. ASSUME NEW l \in Links, <<"failed", l>> \in tasks
          PROVE  /\ link'[l].state \in {"unconnectting", "connected"} /\ told[l] = 0
                 /\ link'[l].state = "connected" \/ poll.mark = l => l \in Keep
                 /\ link'[l].sock # Null => attached'[link'[l].sock] = "none"
      <3>1. link'[l] = link[l] /\ link[l].sock # s
        BY <1>1, <1>3, <2>3, SetServerCloseIs DEF Has, LinksIInv, TasksInv
      <3> QED
        BY <1>1, <2>3, <3>1, Known DEF LinksIInv, TasksInv
    <2> QED
      BY <1>1, <1>2, <2>1, <2>2, <2>3 DEF TasksInv
  <1>8. NoSocketLost'
    <2>1. \A l \in Links, t \in Socks : Has(l, t)' => Has(l, t)
      BY <1>1, SetServerCloseIs
    <2>2. \A t \in Socks : kernel[t].at # "free" =>
            attached'[t] # "none" \/ <<"close", t>> \in tasks \/ \E l \in Links : link'[l].sock = t
      <3> SUFFICES ASSUME NEW t \in Socks, kernel[t].at # "free", t # s, attached[t] = "none", <<"close", t>> \notin tasks
                   PROVE \E l \in Links : link'[l].sock = t
        BY <1>1
      <3>1. PICK l \in Links : link[l].sock = t
        BY DEF LinksIInv, NoSocketLost
      <3>2. ~Has(l, s)
        BY <3>1 DEF Has
      <3> QED
        BY <1>1, <3>1, <3>2, SetServerCloseIs
    <2>3. \A k, l \in Links, t \in Socks : k # l => ~(Has(k, t)' /\ Has(l, t)')
      BY <2>1, OneHas
    <2>4. \A l \in Links, t \in Socks : Has(l, t)' => kernel[t].at # "free"
      BY <2>1, Known DEF LinksIInv, NoSocketLost, Has
    <2>5. \A l \in Links : link'[l].sock \in Socks \union {Null}
      BY <1>1, SetServerCloseIs DEF SVR_CONNECT
    <2> QED
      BY <1>1, <2>2, <2>3, <2>4, <2>5 DEF NoSocketLost, Has
  <1>9. ToldInv'
    BY <1>1, SetServerCloseIs DEF LinksIInv, ToldInv
  <1>10. ASSUME NEW l \in ToSet(poll.clients), poll.pc \in {"wait", "A"} PROVE link'[l] = link[l]
    <2>1. l \in Links /\ link[l].state = "connectting" /\ poll.mark # l
      BY <1>10, Known DEF LinksIInv, RoundInv
    <2>2. ~Has(l, s)
      BY <1>3, <2>1
    <2> QED
      BY <1>1, <2>1, <2>2, SetServerCloseIs
  <1>11. RoundInv'
    BY <1>1, <1>10, SetServerCloseIs, Known DEF LinksIInv, RoundInv, PollRecord
  <1>12. ReportsInv'
    <2>1. ASSUME NEW e \in ToSet(poll.events) PROVE link'[e.link] = link[e.link]
      <3>1. e.link \in Links /\ link[e.link].state = "connectting" /\ poll.mark # e.link
        BY <1>2, Known DEF LinksIInv, ReportsInv
      <3>2. ~Has(e.link, s)
        BY <1>3, <3>1
      <3> QED
        BY <1>1, <3>1, <3>2, SetServerCloseIs
    <2> QED
      BY <1>1, <1>10, <2>1 DEF LinksIInv, ReportsInv
  <1> QED
    BY <1>4, <1>5, <1>6, <1>7, <1>8, <1>9, <1>11, <1>12 DEF LinksIInv

LEMMA CloseLinkKeeps == ASSUME LinksIInv, NEW s \in Socks, CloseLink(s) PROVE LinksIInv'
  <1>1. CASE engine # "st"
    <2>1. engine = "mt"
      BY <1>1, LinksAssumption DEF LinksIInv, LinksTypeOK
    <2> QED
      BY <1>1, <2>1, AttachedChanges DEF CloseLink, restVars
  <1>2. CASE engine = "st"
    <2>1. /\ SetServerClose(s) /\ attached[s] = "open"
          /\ \A t \in Socks : attached'[t] = IF t = s THEN "none" ELSE attached[t]
          /\ attached' \in [Socks -> {"none", "posted", "open", "closing", "told"}]
          /\ \A t \in Socks : kernel'[t] = IF t = s THEN NoSocket ELSE kernel[t]
          /\ kernel' = [kernel EXCEPT ![s] = NoSocket]
          /\ UNCHANGED <<poll, restVars>>
      BY <1>2 DEF CloseLink, LinksIInv, LinksTypeOK, restVars
    <2> USE DEF restVars
    <2>2. poll.pc = "io" /\ poll.events = <<>> /\ poll.mark = Null
      BY <1>2 DEF CloseLink, Idle, LinksIInv, RoundInv
    <2>3. tasks = {} /\ engine # "mt" /\ \A t \in Socks : attached[t] \in {"none", "open"}
      BY <1>2 DEF LinksIInv, TasksInv
    <2>4. NoSocket \in KernelRecord /\ NoSocket.watched = Null /\ NoSocket.at = "free" /\ ~NoSocket.news
      BY DEF NoSocket, KernelRecord
    <2>5. LinksTypeOK'
      <3>1. kernel' \in [Socks -> KernelRecord]
        BY <2>1, <2>4, Known
      <3> QED
        BY <2>1, <3>1, SetServerCloseIs DEF LinksIInv, LinksTypeOK, KernelRecord
    <2>6. SocketsInv'
      <3>1. ASSUME NEW t \in Socks, t # s, kernel[t].watched # Null PROVE link'[kernel[t].watched].sock = t
        <4> DEFINE l == kernel[t].watched
        <4>1. l \in Links /\ link[l].sock = t
          BY <3>1, Known DEF LinksIInv, SocketsInv, KernelRecord
        <4>2. ~Has(l, s)
          BY <3>1, <4>1 DEF Has
        <4> QED
          BY <2>1, <4>1, <4>2, SetServerCloseIs
      <3> QED
        BY <2>1, <2>4, <3>1 DEF LinksIInv, SocketsInv
    <2>7. StatesInv'
      <3> SUFFICES ASSUME NEW l \in Links
                   PROVE /\ link'[l].sock # Null => link'[l].tried
                         /\ link'[l].state = "free" => ~link'[l].tried
                         /\ link'[l].state \in {"free", "unconnected"} => link'[l].sock = Null
                         /\ link'[l].state = "connectting" =>
                              link'[l].sock # Null /\ (attached'[link'[l].sock] # "none" => poll'.mark = l)
        BY DEF StatesInv
      <3>1. CASE Has(l, s)
        BY <2>1, <3>1, SetServerCloseIs
      <3>2. CASE ~Has(l, s)
        <4>1. link'[l] = link[l] /\ (link[l].state = "connectting" => link[l].sock \in Socks /\ link[l].sock # s)
          BY <2>1, <3>2, SetServerCloseIs, Known DEF Has
        <4> QED
          BY <2>1, <4>1 DEF LinksIInv, StatesInv
      <3> QED
        BY <3>1, <3>2
    <2>8. TasksInv'
      BY <2>1, <2>3 DEF TasksInv
    <2>9. NoSocketLost'
      <3>1. \A l \in Links, t \in Socks : Has(l, t)' <=> Has(l, t) /\ t # s
        BY <2>1, SetServerCloseIs
      <3>2. \A t \in Socks : kernel'[t].at # "free" =>
              attached'[t] # "none" \/ <<"close", t>> \in tasks \/ \E l \in Links : link'[l].sock = t
        <4> SUFFICES ASSUME NEW t \in Socks, kernel[t].at # "free", t # s, attached[t] = "none", <<"close", t>> \notin tasks
                     PROVE \E l \in Links : link'[l].sock = t
          BY <2>1, <2>4
        <4>1. PICK l \in Links : link[l].sock = t
          BY DEF LinksIInv, NoSocketLost
        <4>2. ~Has(l, s)
          BY <4>1 DEF Has
        <4> QED
          BY <2>1, <4>1, <4>2, SetServerCloseIs
      <3>3. \A k, l \in Links, t \in Socks : k # l => ~(Has(k, t)' /\ Has(l, t)')
        BY <3>1, OneHas
      <3>4. \A l \in Links, t \in Socks : Has(l, t)' => kernel'[t].at # "free"
        BY <2>1, <3>1, OneHas
      <3>5. \A l \in Links : link'[l].sock \in Socks \union {Null}
        BY <2>1, SetServerCloseIs DEF SVR_CONNECT
      <3> QED
        BY <2>1, <3>2, <3>3, <3>4, <3>5 DEF NoSocketLost, Has
    <2>10. ToldInv' /\ ReportsInv'
      BY <2>1, <2>3 DEF ToldInv, ReportsInv
    <2>11. RoundInv'
      BY <2>1, <2>2 DEF RoundInv, ToSet
    <2> QED
      BY <2>5, <2>6, <2>7, <2>8, <2>9, <2>10, <2>11 DEF LinksIInv
  <1> QED
    BY <1>1, <1>2

-----------------------------------------------------------------------------
LEMMA MarkConnectedKeeps == ASSUME LinksIInv, MarkConnected PROVE LinksIInv'
  <1> DEFINE x == poll.mark
             r == IF link[x].state = "deleted" THEN "deleted" ELSE "connected"
  <1>1. /\ x # Null /\ x \in Links
        /\ link' = [link EXCEPT ![x].state = r] /\ poll' = [poll EXCEPT !.mark = Null]
        /\ dangling' = (dangling \/ link[x].state = "deleted")
        /\ UNCHANGED <<engine, kernel, attached, tasks, signal, start, faults, tries, told>>
    BY Known DEF MarkConnected, PollRecord
  <1>2. /\ link[x].tried /\ poll.pc \in {"A", "B"} /\ (x \notin ToSet(poll.clients) \/ poll.pc = "B")
        /\ \A e \in ToSet(poll.events) : engine = "mt" => e.link # x
    BY <1>1 DEF LinksIInv, RoundInv, ReportsInv
  <1>3. /\ \A l \in Links : /\ l # x => link'[l] = link[l]
                            /\ link'[l].state = IF l = x THEN r ELSE link[l].state
                            /\ link'[l].sock = link[l].sock /\ link'[l].tried = link[l].tried
                            /\ link'[l].inEpoll = link[l].inEpoll
        /\ link' \in [Links -> SVR_CONNECT]
    <2>1. [link[x] EXCEPT !.state = r] \in SVR_CONNECT
      BY <1>1, Known DEF SVR_CONNECT
    <2>2. link' = [link EXCEPT ![x] = [link[x] EXCEPT !.state = r]]
      BY <1>1
    <2> QED
      BY <1>1, <2>1, <2>2, Known DEF LinksIInv, LinksTypeOK, SVR_CONNECT
  <1>4. /\ poll' \in PollRecord /\ poll'.pc = poll.pc /\ poll'.clients = poll.clients
        /\ poll'.events = poll.events /\ poll'.count = poll.count /\ poll'.mark = Null
    BY <1>1, Known DEF PollRecord
  <1>5. \A l \in Links, s \in Socks : Has(l, s)' <=> Has(l, s)
    BY <1>3 DEF Has
  <1>6. r \in {"connected", "deleted"} /\ (r = "deleted" <=> link[x].state = "deleted") /\ r # "connectting"
    OBVIOUS
  <1> HIDE DEF r
  <1>7. LinksTypeOK'
    BY <1>1, <1>3, <1>4 DEF LinksIInv, LinksTypeOK, PollRecord
  <1>8. SocketsInv'
    BY <1>1, <1>3, Known DEF LinksIInv, SocketsInv, KernelRecord
  <1>9. StatesInv'
    BY <1>1, <1>2, <1>3, <1>4, <1>6 DEF LinksIInv, StatesInv
  <1>10. TasksInv'
    <2>1. ASSUME NEW l \in Links, <<"failed", l>> \in tasks
          PROVE  /\ link'[l].state \in {"unconnectting", "connected"} /\ told[l] = 0
                 /\ link'[l].state = "connected" \/ poll'.mark = l => l \in Keep
                 /\ link'[l].sock # Null => attached'[link'[l].sock] = "none"
      BY <1>1, <1>3, <1>4, <1>6, <2>1, Known DEF LinksIInv, TasksInv
    <2> QED
      BY <1>1, <1>5, <2>1 DEF LinksIInv, TasksInv
  <1>11. NoSocketLost'
    <2>1. \A l \in Links : link'[l].state = "deleted" <=> link[l].state = "deleted"
      BY <1>3, <1>6
    <2> QED
      BY <1>1, <1>3, <2>1 DEF LinksIInv, NoSocketLost
  <1>12. ToldInv'
    BY <1>1, <1>3, <1>4, <1>6 DEF LinksIInv, ToldInv
  <1>13. RoundInv'
    BY <1>1, <1>2, <1>3, <1>4, <1>5, Known DEF LinksIInv, RoundInv
  <1>14. ReportsInv'
    <2>1. engine = "mt" => \A e \in ToSet(poll.events) : link'[e.link] = link[e.link]
      BY <1>2, <1>3, Known
    <2>2. \A s \in Socks : kernel[s].watched # Null => link'[kernel[s].watched].inEpoll = link[kernel[s].watched].inEpoll
      BY <1>3, Known DEF KernelRecord
    <2> QED
      BY <1>1, <1>4, <2>1, <2>2, Known DEF LinksIInv, ReportsInv
  <1> QED
    BY <1>7, <1>8, <1>9, <1>10, <1>11, <1>12, <1>13, <1>14 DEF LinksIInv

-----------------------------------------------------------------------------
LEMMA PollTurns ==
  ASSUME LinksIInv, poll' \in PollRecord, poll'.mark = poll.mark, start' \in 0 .. Patience, signal' \in BOOLEAN,
         RoundInv', ReportsInv',
         dangling' \in BOOLEAN, UNCHANGED <<engine, link, kernel, attached, tasks, faults, tries, told>>
  PROVE  LinksIInv'
  <1>1. LinksTypeOK'
    BY DEF LinksIInv, LinksTypeOK, PollRecord
  <1>2. SocketsInv' /\ StatesInv' /\ TasksInv' /\ NoSocketLost' /\ ToldInv'
    BY DEF LinksIInv, SocketsInv, StatesInv, TasksInv, NoSocketLost, ToldInv, Has
  <1> QED
    BY <1>1, <1>2 DEF LinksIInv

LEMMA EngineIs == ASSUME LinksIInv PROVE engine \in {"mt", "st"} /\ start \in 0 .. Patience /\ Patience \in Nat /\ signal \in BOOLEAN /\ dangling \in BOOLEAN
  BY LinksAssumption DEF LinksIInv, LinksTypeOK

LEMMA WaitEndsKeeps == ASSUME LinksIInv, WaitEnds PROVE LinksIInv'
  <1>1. /\ poll.pc = "wait" /\ poll' = [poll EXCEPT !.pc = "A"] /\ start' = 0
        /\ UNCHANGED <<engine, link, kernel, attached, tasks, signal, faults, tries, told, dangling>>
    BY DEF WaitEnds
  <1>2. /\ poll' \in PollRecord /\ poll'.pc = "A" /\ poll'.clients = poll.clients /\ poll'.events = <<>>
        /\ poll'.mark = Null /\ poll.mark = Null
    BY <1>1, Known DEF LinksIInv, RoundInv, PollRecord
  <1>3. RoundInv'
    <2>1. /\ IsInjective(poll.clients)
          /\ \A l \in ToSet(poll.clients) :
               /\ link[l].state = "connectting" /\ poll.mark # l
               /\ link[l].inEpoll => kernel[link[l].sock].watched = l
      BY <1>1 DEF LinksIInv, RoundInv
    <2>2. ToSet(poll'.events) = {}
      BY <1>2 DEF ToSet
    <2> QED
      BY <1>1, <1>2, <2>1, <2>2 DEF RoundInv
  <1>4. ReportsInv'
    BY <1>1, <1>2 DEF LinksIInv, ReportsInv, ToSet
  <1> QED
    BY <1>1, <1>2, <1>3, <1>4, EngineIs, PollTurns

LEMMA LaterKeeps == ASSUME LinksIInv, Later PROVE LinksIInv'
  <1>1. /\ poll.pc = "wait" /\ poll' = [poll EXCEPT !.pc = "io"] /\ start' = start + 1 /\ engine = "st" /\ start < Patience
        /\ UNCHANGED <<engine, link, kernel, attached, tasks, signal, faults, tries, told, dangling>>
    BY DEF Later
  <1>2. poll' \in PollRecord /\ poll'.pc = "io" /\ poll'.events = <<>> /\ poll'.mark = Null /\ poll.mark = Null
    BY <1>1, Known DEF LinksIInv, RoundInv, PollRecord
  <1>3. RoundInv'
    BY <1>1, <1>2 DEF RoundInv, ToSet
  <1>4. ReportsInv'
    BY <1>1 DEF ReportsInv
  <1>5. start' \in 0 .. Patience
    BY <1>1, EngineIs
  <1> QED
    BY <1>1, <1>2, <1>3, <1>4, <1>5, EngineIs, PollTurns

LEMMA EndAKeeps == ASSUME LinksIInv, EndA PROVE LinksIInv'
  <1> DEFINE f == poll.count = 0 \/ poll.count >= poll.monitored
  <1>1. /\ poll.pc = "A" /\ poll.mark = Null /\ poll.clients = <<>>
        /\ poll' = [poll EXCEPT !.pc = "B", !.finished = f]
        /\ UNCHANGED <<engine, link, kernel, attached, tasks, signal, start, faults, tries, told, dangling>>
    BY DEF EndA
  <1>2. /\ poll' \in PollRecord /\ poll'.pc = "B" /\ poll'.events = poll.events
        /\ poll'.mark = Null /\ poll'.count = poll.count
    BY <1>1, Known DEF PollRecord
  <1>3. RoundInv'
    BY <1>1, <1>2 DEF LinksIInv, RoundInv, Has
  <1>4. ReportsInv'
    <2>1. engine = "mt" => \A s \in Socks : kernel[s].watched = Null
      BY <1>1 DEF LinksIInv, ReportsInv, ToSet
    <2> QED
      BY <1>1, <1>2, <2>1 DEF LinksIInv, ReportsInv
  <1> QED
    BY <1>1, <1>2, <1>3, <1>4, EngineIs, PollTurns

(* The thread rests; of what it has got nothing is left.                   *)
LEMMA PollRests ==
  ASSUME LinksIInv, NEW p \in {"idle", "sleep", "io"}, poll' \in PollRecord, poll'.pc = p, poll'.events = <<>>,
         poll'.mark = Null, poll.mark = Null, signal' \in BOOLEAN, engine = "mt" => poll.pc \notin {"wait", "A"},
         UNCHANGED <<engine, link, kernel, attached, tasks, start, faults, tries, told, dangling>>
  PROVE  LinksIInv'
  <1>1. RoundInv'
    BY DEF RoundInv, ToSet
  <1>2. ReportsInv'
    BY DEF LinksIInv, ReportsInv, ToSet
  <1> QED
    BY <1>1, <1>2, EngineIs, PollTurns

LEMMA RestingIs == ASSUME NEW p \in {"idle", "sleep", "io"}
  PROVE LET q == [Resting EXCEPT !.pc = p]
        IN  q \in PollRecord /\ q.pc = p /\ q.events = <<>> /\ q.mark = Null
  <1>1. Resting \in PollRecord /\ Resting.events = <<>> /\ Resting.mark = Null
    BY DEF Resting, PollRecord
  <1> QED
    BY <1>1 DEF PollRecord

LEMMA EndBKeeps == ASSUME LinksIInv, EndB PROVE LinksIInv'
  <1> DEFINE p == IF engine = "st" THEN "io" ELSE Goes
  <1>1. /\ poll.pc = "B" /\ poll.mark = Null /\ poll' = [Resting EXCEPT !.pc = p]
        /\ UNCHANGED <<engine, link, kernel, attached, tasks, signal, start, faults, tries, told, dangling>>
    BY DEF EndB
  <1>2. p \in {"idle", "sleep", "io"}
    BY DEF Goes
  <1> HIDE DEF p
  <1> QED
    BY <1>1, <1>2, RestingIs, EngineIs, PollRests

LEMMA AgainKeeps == ASSUME LinksIInv, Again PROVE LinksIInv'
  <1>1. /\ poll.pc = "io" /\ poll.mark = Null /\ poll' = Resting
        /\ UNCHANGED <<engine, link, kernel, attached, tasks, signal, start, faults, tries, told, dangling>>
    BY DEF Again, LinksIInv, RoundInv
  <1>2. poll' \in PollRecord /\ poll'.pc = "idle" /\ poll'.events = <<>> /\ poll'.mark = Null
    BY <1>1 DEF Resting, PollRecord
  <1> QED
    BY <1>1, <1>2, EngineIs, PollRests

LEMMA WakeKeeps == ASSUME LinksIInv, Wake PROVE LinksIInv'
  <1>1. /\ poll.pc = "sleep" /\ poll.mark = Null /\ poll.events = <<>>
        /\ poll' = [poll EXCEPT !.pc = "idle"] /\ signal' = FALSE
        /\ UNCHANGED <<engine, link, kernel, attached, tasks, start, faults, tries, told, dangling>>
    BY DEF Wake, LinksIInv, RoundInv
  <1>2. poll' \in PollRecord /\ poll'.pc = "idle" /\ poll'.events = <<>> /\ poll'.mark = Null
    BY <1>1, Known DEF PollRecord
  <1> QED
    BY <1>1, <1>2, PollRests

-----------------------------------------------------------------------------
(* epoll reports each socket once, with the link that it is watched for.   *)
LEMMA WaitReturnsKeeps == ASSUME LinksIInv, WaitReturns PROVE LinksIInv'
  <1> DEFINE n == Cardinality(News)
             q == Sorted(News)
             v == [i \in 1 .. n |-> [link |-> kernel[q[i]].watched, readable |-> kernel[q[i]].data]]
  <1>1. /\ poll.pc = "wait" /\ News # {}
        /\ poll' = [poll EXCEPT !.pc = "A", !.count = n, !.events = v]
        /\ kernel' = [s \in Socks |-> [kernel[s] EXCEPT !.news = FALSE]]
        /\ UNCHANGED <<engine, link, attached, tasks, signal, start, faults, tries, told, dangling>>
    BY DEF WaitReturns
  <1>2. News \in SUBSET Nat /\ News \subseteq Socks /\ IsFiniteSet(News)
    <2>1. News \subseteq Socks
      BY DEF News
    <2> QED
      BY <2>1, LinksAssumption, FS_Subset
  <1>3. n \in Nat /\ n > 0 /\ q \in Seq(News) /\ Len(q) = n /\ IsInjective(q)
    <2>1. n \in Nat /\ n # 0
      BY <1>1, <1>2, FS_CardinalityType, FS_EmptySet
    <2> QED
      BY <2>1, <1>2, SortedIs
  <1> HIDE DEF q, n
  <1>4. \A i \in 1 .. n : /\ q[i] \in Socks /\ kernel[q[i]].watched \in Links /\ kernel[q[i]].data \in BOOLEAN
                          /\ link[kernel[q[i]].watched].sock = q[i]
    <2> SUFFICES ASSUME NEW i \in 1 .. n
                 PROVE /\ q[i] \in Socks /\ kernel[q[i]].watched \in Links /\ kernel[q[i]].data \in BOOLEAN
                       /\ link[kernel[q[i]].watched].sock = q[i]
      OBVIOUS
    <2>1. q[i] \in News
      BY <1>3
    <2>2. q[i] \in Socks /\ kernel[q[i]].news
      BY <2>1 DEF News
    <2> QED
      BY <2>2, Known DEF LinksIInv, SocketsInv, KernelRecord
  <1>5. \A i, j \in 1 .. n : q[i] = q[j] => i = j
    BY <1>3 DEF IsInjective
  <1>6. v \in Seq([link : Links, readable : BOOLEAN])
    <2>1. v \in [1 .. n -> [link : Links, readable : BOOLEAN]]
      BY <1>4
    <2> QED
      BY <1>3, <2>1, ListIs
  <1>7. DOMAIN v = 1 .. n /\ \A i \in 1 .. n : v[i].link = kernel[q[i]].watched /\ v[i].readable = kernel[q[i]].data
    OBVIOUS
  <1> HIDE DEF v
  <1>8. /\ poll' \in PollRecord /\ poll'.pc = "A" /\ poll'.count = n /\ poll'.events = v
        /\ poll'.clients = poll.clients /\ poll'.mark = poll.mark /\ poll.mark = Null
    BY <1>1, <1>3, <1>6, Known DEF PollRecord, LinksIInv, RoundInv
  <1>9. /\ kernel' \in [Socks -> KernelRecord]
        /\ \A s \in Socks : /\ kernel'[s].at = kernel[s].at /\ kernel'[s].data = kernel[s].data
                            /\ kernel'[s].watched = kernel[s].watched /\ ~kernel'[s].news
                            /\ kernel[s] = NoSocket => kernel'[s] = NoSocket
    <2>1. \A s \in Socks : kernel'[s] = [kernel[s] EXCEPT !.news = FALSE]
      BY <1>1
    <2>2. ASSUME NEW s \in Socks
          PROVE  /\ kernel'[s] \in KernelRecord
                 /\ kernel'[s].at = kernel[s].at /\ kernel'[s].data = kernel[s].data
                 /\ kernel'[s].watched = kernel[s].watched /\ ~kernel'[s].news
      <3>1. kernel[s] \in KernelRecord /\ kernel'[s] = [kernel[s] EXCEPT !.news = FALSE]
        BY <2>1, Known
      <3> QED
        BY <3>1 DEF KernelRecord
    <2>3. \A s \in Socks : kernel[s] = NoSocket => kernel'[s] = NoSocket
      BY <2>1 DEF NoSocket
    <2> QED
      BY <1>1, <2>2, <2>3
  <1>10. LinksTypeOK'
    BY <1>1, <1>8, <1>9 DEF LinksIInv, LinksTypeOK, PollRecord, KernelRecord
  <1>11. SocketsInv'
    BY <1>1, <1>9 DEF LinksIInv, SocketsInv
  <1>12. StatesInv' /\ ToldInv'
    BY <1>1, <1>8 DEF LinksIInv, StatesInv, ToldInv
  <1>13. TasksInv'
    BY <1>1, <1>8, <1>9 DEF LinksIInv, TasksInv, Has
  <1>14. NoSocketLost'
    BY <1>1, <1>9, Known DEF LinksIInv, NoSocketLost
  <1>15. RoundInv'
    <2>1. \A e \in ToSet(v) : \E i \in 1 .. n : e = v[i]
      BY <1>7 DEF ToSet
    <2>2. ASSUME NEW e \in ToSet(v)
          PROVE  link[e.link].tried /\ (e.readable => \A s \in Socks : Has(e.link, s) => kernel[s].data)
      <3>1. PICK i \in 1 .. n : e = v[i]
        BY <2>1
      <3>2. /\ e.link = kernel[q[i]].watched /\ e.readable = kernel[q[i]].data /\ e.link \in Links
            /\ link[e.link].sock = q[i] /\ q[i] \in Socks
        BY <1>4, <1>7, <3>1
      <3> QED
        BY <3>2, Known DEF Has, LinksIInv, StatesInv
    <2>3. /\ IsInjective(poll.clients)
          /\ \A l \in ToSet(poll.clients) :
               /\ link[l].state = "connectting" /\ poll.mark # l
               /\ link[l].inEpoll => kernel[link[l].sock].watched = l
      BY <1>1 DEF LinksIInv, RoundInv
    <2>4. \A l \in ToSet(poll.clients) : link[l].sock \in Socks
      BY <2>3, Known
    <2> QED
      BY <1>1, <1>3, <1>8, <1>9, <2>2, <2>3, <2>4 DEF RoundInv, Has
  <1>16. ReportsInv'
    <2> SUFFICES ASSUME engine = "mt" PROVE ReportsInv'
      BY <1>1 DEF ReportsInv
    <2>1. \A i, j \in 1 .. n : i # j => v[i].link # v[j].link
      BY <1>4, <1>5, <1>7
    <2>2. ASSUME NEW e \in ToSet(v)
          PROVE  link[e.link].state = "connectting" /\ poll.mark # e.link /\ link[e.link].inEpoll
      <3>1. PICK i \in 1 .. n : e = v[i]
        BY <1>7 DEF ToSet
      <3>2. e.link = kernel[q[i]].watched /\ e.link # Null /\ q[i] \in Socks
        BY <1>4, <1>7, <3>1, Known
      <3>3. e.link \in ToSet(poll.clients) /\ link[e.link].inEpoll
        BY <3>2 DEF LinksIInv, ReportsInv
      <3> QED
        BY <1>1, <3>3 DEF LinksIInv, RoundInv
    <2>3. \A s \in Socks : kernel[s].watched # Null => kernel[s].watched \in ToSet(poll.clients) /\ link[kernel[s].watched].inEpoll
      BY DEF LinksIInv, ReportsInv
    <2>4. \A i, j \in DOMAIN poll'.events : i # j => poll'.events[i].link # poll'.events[j].link
      BY <1>7, <1>8, <2>1
    <2>5. \A e \in ToSet(poll'.events) :
            /\ link'[e.link].state = "connectting" /\ poll'.mark # e.link /\ link'[e.link].inEpoll
      BY <1>1, <1>8, <2>2
    <2>6. \A s \in Socks : LET l == kernel'[s].watched IN
            l # Null => poll'.pc \in {"wait", "A"} /\ l \in ToSet(poll'.clients) /\ link'[l].inEpoll
      BY <1>1, <1>8, <1>9, <2>3
    <2> QED
      BY <2>4, <2>5, <2>6 DEF ReportsInv
  <1> QED
    BY <1>10, <1>11, <1>12, <1>13, <1>14, <1>15, <1>16 DEF LinksIInv

(* EpollConnect: each link that waits for a result is among those looked   *)
(* at, and its socket watched for it if epoll takes it.                    *)
LEMMA WatchKeeps ==
  ASSUME LinksIInv, poll.pc = "idle", NEW bad \in SUBSET ToSet(InList), Watch(InList, bad),
         UNCHANGED <<engine, attached, tasks, signal, start, tries, told, dangling>>
  PROVE  LinksIInv'
  <1> DEFINE C == {l \in Links : link[l].state = "connectting"}
             new == {l \in ToSet(InList) \ bad : kernel[link[l].sock].watched = Null}
             Of(s) == {l \in new : link[l].sock = s}
  <1>1. /\ InList \in Seq(Links) /\ IsInjective(InList) /\ ToSet(InList) = C /\ IsFiniteSet(C)
    <2>1. C \in SUBSET Nat /\ C \subseteq Links /\ IsFiniteSet(C)
      BY LinksAssumption, FS_Subset
    <2>2. InList \in Seq(C) /\ IsInjective(InList) /\ ToSet(InList) = C
      BY <2>1, SortedIs DEF InList
    <2>3. Seq(C) \subseteq Seq(Links)
      BY <2>1
    <2> QED
      BY <2>1, <2>2, <2>3
  <1>2. \A l \in new : l \in Links /\ link[l].state = "connectting" /\ link[l].sock \in Socks
                       /\ Has(l, link[l].sock) /\ kernel[link[l].sock].watched = Null
    BY <1>1, Known DEF Has
  <1>3. \A s \in Socks : kernel'[s] =
          IF Of(s) = {} THEN kernel[s]
          ELSE [kernel[s] EXCEPT !.watched = Min(Of(s)), !.news = @ \/ kernel[s].at # "connecting"]
    BY DEF Watch
  <1>4. \A l \in Links : link'[l] = IF l \in C THEN [link[l] EXCEPT !.inEpoll = l \in new] ELSE link[l]
    BY <1>1 DEF Watch
  <1>5. /\ poll' = [Resting EXCEPT !.pc = "wait", !.clients = InList, !.monitored = Cardinality(new)]
        /\ faults' = faults + Cardinality(bad) /\ faults' <= MaxFaults
    BY DEF Watch
  <1>6. Cardinality(new) \in Nat /\ faults' \in 0 .. MaxFaults
    <2>1. IsFiniteSet(bad) /\ IsFiniteSet(new)
      BY <1>1, FS_Subset
    <2>2. Cardinality(bad) \in Nat /\ Cardinality(new) \in Nat
      BY <2>1, FS_CardinalityType
    <2> QED
      BY <1>5, <2>2, LinksAssumption DEF LinksIInv, LinksTypeOK
  <1>7. new \subseteq C
    BY <1>1
  <1>8. kernel' = [s \in Socks |-> kernel'[s]] /\ link' = [l \in Links |-> link'[l]]
    BY DEF Watch
  <1> HIDE DEF new
  <1>9. \A s \in Socks, l \in new : link[l].sock = s => Of(s) = {l} /\ Min(Of(s)) = l
    <2> SUFFICES ASSUME NEW s \in Socks, NEW l \in new, link[l].sock = s PROVE Of(s) = {l} /\ Min(Of(s)) = l
      OBVIOUS
    <2>1. Of(s) = {l}
      BY <1>2, OneHas
    <2>2. Min({l}) = l
      <3>1. l \in Nat
        BY <1>2, LinksAssumption
      <3> QED
        BY <3>1 DEF Min
    <2> QED
      BY <2>1, <2>2
  <1>10. ASSUME NEW s \in Socks
         PROVE  /\ kernel'[s] \in KernelRecord /\ kernel'[s].at = kernel[s].at /\ kernel'[s].data = kernel[s].data
                /\ kernel'[s].news => kernel'[s].watched # Null
                /\ kernel[s].at = "free" => kernel'[s] = kernel[s]
                /\ \/ kernel'[s].watched = kernel[s].watched /\ \A l \in new : link[l].sock # s
                   \/ /\ kernel'[s].watched \in new /\ link[kernel'[s].watched].sock = s
                      /\ \A l \in new : link[l].sock = s => kernel'[s].watched = l
    <2>1. kernel[s] \in KernelRecord /\ (kernel[s].news => kernel[s].watched # Null)
      BY Known DEF LinksIInv, SocketsInv
    <2>2. CASE Of(s) = {}
      <3>1. kernel'[s] = kernel[s] /\ \A l \in new : link[l].sock # s
        BY <1>3, <2>2
      <3> QED
        BY <2>1, <3>1 DEF KernelRecord
    <2>3. CASE Of(s) # {}
      <3>1. PICK x \in new : link[x].sock = s
        BY <2>3
      <3>2. x \in Links /\ x # Null /\ kernel[s].at # "free"
        BY <1>2, <3>1, Known, OneHas
      <3>3. kernel'[s] = [kernel[s] EXCEPT !.watched = x, !.news = kernel[s].news \/ kernel[s].at # "connecting"]
        BY <1>3, <1>9, <2>3, <3>1
      <3>4. \A l \in new : link[l].sock = s => l = x
        BY <1>9, <3>1
      <3>5. kernel'[s] \in KernelRecord /\ kernel'[s].at = kernel[s].at /\ kernel'[s].data = kernel[s].data
            /\ kernel'[s].watched = x
        BY <2>1, <3>2, <3>3 DEF KernelRecord
      <3> QED
        BY <3>1, <3>2, <3>4, <3>5
    <2> QED
      BY <2>2, <2>3
  <1> HIDE DEF Of
  <1>11. ASSUME NEW l \in Links
         PROVE  /\ link'[l] \in SVR_CONNECT /\ link'[l].state = link[l].state /\ link'[l].sock = link[l].sock
                /\ link'[l].tried = link[l].tried
                /\ l \in C => link'[l].inEpoll = (l \in new)
    <2>1. link[l] \in SVR_CONNECT
      BY Known
    <2>2. CASE l \in C
      <3>1. link'[l] = [link[l] EXCEPT !.inEpoll = l \in new] /\ (l \in new) \in BOOLEAN
        BY <1>4, <2>2
      <3> QED
        BY <2>1, <3>1 DEF SVR_CONNECT
    <2>3. CASE l \notin C
      BY <1>4, <2>1, <2>3
    <2> QED
      BY <2>2, <2>3
  <1>12. \A l \in Links, s \in Socks : Has(l, s)' <=> Has(l, s)
    BY <1>11 DEF Has
  <1>13. /\ poll' \in PollRecord /\ poll'.pc = "wait" /\ poll'.clients = InList /\ poll'.events = <<>>
         /\ poll'.mark = Null /\ poll.mark = Null
    <2>1. Resting \in PollRecord /\ Resting.events = <<>> /\ Resting.mark = Null
      BY DEF Resting, PollRecord
    <2>2. poll.mark = Null
      BY DEF LinksIInv, RoundInv
    <2> QED
      BY <1>1, <1>5, <1>6, <2>1, <2>2 DEF PollRecord
  <1>14. LinksTypeOK'
    <2>1. kernel' \in [Socks -> KernelRecord] /\ link' \in [Links -> SVR_CONNECT]
      BY <1>8, <1>10, <1>11
    <2> QED
      BY <1>6, <1>13, <2>1 DEF LinksIInv, LinksTypeOK, PollRecord, KernelRecord
  <1>15. SocketsInv'
    <2> SUFFICES ASSUME NEW s \in Socks
                 PROVE  /\ kernel'[s].at = "free" => kernel'[s] = NoSocket
                        /\ attached[s] # "none" => kernel'[s].at = "up"
                        /\ kernel'[s].news => kernel'[s].watched # Null
                        /\ kernel'[s].watched # Null => link'[kernel'[s].watched].sock = s
      BY DEF SocketsInv
    <2>1. kernel'[s].watched # Null => link'[kernel'[s].watched].sock = s
      BY <1>2, <1>10, <1>11, Known DEF LinksIInv, SocketsInv, KernelRecord
    <2> QED
      BY <1>10, <2>1 DEF LinksIInv, SocketsInv
  <1>16. StatesInv' /\ ToldInv'
    BY <1>11, <1>13 DEF LinksIInv, StatesInv, ToldInv
  <1>17. TasksInv'
    BY <1>10, <1>11, <1>12, <1>13 DEF LinksIInv, TasksInv
  <1>18. NoSocketLost'
    BY <1>10, <1>11, Known DEF LinksIInv, NoSocketLost
  <1>19. RoundInv'
    <2>1. ASSUME NEW l \in C
          PROVE  /\ link'[l].state = "connectting" /\ poll'.mark # l
                 /\ link'[l].inEpoll => kernel'[link'[l].sock].watched = l
      <3>1. l \in Links /\ link[l].state = "connectting" /\ link[l].sock \in Socks /\ l # Null
        BY Known
      <3> QED
        BY <1>10, <1>11, <1>13, <3>1
    <2>2. ToSet(poll'.events) = {}
      BY <1>13 DEF ToSet
    <2> QED
      BY <1>1, <1>13, <2>1, <2>2 DEF RoundInv
  <1>20. ReportsInv'
    <2> SUFFICES ASSUME engine = "mt" PROVE ReportsInv'
      BY DEF ReportsInv
    <2>1. \A s \in Socks : kernel[s].watched = Null
      BY DEF LinksIInv, ReportsInv
    <2>2. \A s \in Socks : LET l == kernel'[s].watched IN
            l # Null => l \in C /\ link'[l].inEpoll
      BY <1>7, <1>10, <1>11, <2>1
    <2> QED
      BY <1>1, <1>13, <2>2 DEF ReportsInv, ToSet
  <1> QED
    BY <1>14, <1>15, <1>16, <1>17, <1>18, <1>19, <1>20 DEF LinksIInv

-----------------------------------------------------------------------------
(* An attempt is made for a link that has no socket, on a free one, z, or  *)
(* without any: r, k, a, v are what becomes of the link, the socket, the   *)
(* connection and the callbacks, f whether a worker is asked to fail it.   *)
MayTry(x) ==
  \/ link[x].state = "free"
  \/ link[x].state = "unconnected" /\ (x \in Keep \/ ~link[x].tried)

Attempted(x, z, r, k, a, f, v) ==
  /\ MayTry(x)
  /\ r \in SVR_CONNECT /\ r.sock = z /\ r.tried
  /\ r.state \in {"connected", "connectting", "unconnectting", "unconnected"}
  /\ r.state = "unconnected" => z = Null
  /\ r.state = "connectting" => z # Null /\ a = "none" /\ v = 0
  /\ k \in KernelRecord /\ k.at # "free" /\ ~k.news /\ k.watched = Null
  /\ a \in {"none", "posted", "open"} /\ (a # "none" => k.at = "up") /\ (engine = "st" => a # "posted")
  /\ f => r.state = "unconnectting" /\ v = 0 /\ a = "none" /\ engine = "mt"

AttemptDone(x, z, r, k, a, f, v) ==
  /\ link' = [link EXCEPT ![x] = r]
  /\ kernel' = [s \in Socks |-> IF s = z THEN k ELSE kernel[s]]
  /\ attached' = [s \in Socks |-> IF s = z THEN a ELSE attached[s]]
  /\ tasks' = tasks \union (IF f THEN {<<"failed", x>>} ELSE {})
  /\ told' = [told EXCEPT ![x] = v] /\ tries' \in [Links -> 0 .. MaxTries] /\ signal' \in BOOLEAN
  /\ UNCHANGED <<engine, poll, start, faults, dangling>>

LEMMA AttemptKeeps ==
  ASSUME LinksIInv, Idle, NEW x \in Links, NEW z \in Free \union {Null}, NEW r, NEW k, NEW a, NEW f \in BOOLEAN,
         NEW v \in {0, 1}, Attempted(x, z, r, k, a, f, v), AttemptDone(x, z, r, k, a, f, v)
  PROVE  LinksIInv'
  <1>0. /\ link' = [link EXCEPT ![x] = r]
        /\ kernel' = [s \in Socks |-> IF s = z THEN k ELSE kernel[s]]
        /\ attached' = [s \in Socks |-> IF s = z THEN a ELSE attached[s]]
        /\ tasks' = tasks \union (IF f THEN {<<"failed", x>>} ELSE {})
        /\ told' = [told EXCEPT ![x] = v] /\ tries' \in [Links -> 0 .. MaxTries] /\ signal' \in BOOLEAN
        /\ UNCHANGED <<engine, poll, start, faults, dangling>>
    BY DEF AttemptDone
  <1> USE <1>0
  <1>1. /\ link[x].sock = Null /\ <<"failed", x>> \notin tasks /\ link[x].state \in {"free", "unconnected"}
        /\ poll.mark = x => x \in Keep
    BY Known DEF Attempted, MayTry, LinksIInv, StatesInv, TasksInv, RoundInv
  <1>2. /\ z # Null => /\ z \in Socks /\ kernel[z].at = "free" /\ kernel[z] = NoSocket /\ attached[z] = "none"
                       /\ <<"close", z>> \notin tasks /\ \A l \in Links : ~Has(l, z)
    BY OneHas DEF Free, LinksIInv, SocketsInv, TasksInv
  <1>3. /\ \A l \in Links : link'[l] = IF l = x THEN r ELSE link[l]
        /\ link' \in [Links -> SVR_CONNECT]
    BY DEF Attempted, LinksIInv, LinksTypeOK
  <1>4. /\ \A s \in Socks : kernel'[s] = IF s = z THEN k ELSE kernel[s]
        /\ kernel' \in [Socks -> KernelRecord]
        /\ \A s \in Socks : attached'[s] = IF s = z THEN a ELSE attached[s]
        /\ attached' \in [Socks -> {"none", "posted", "open", "closing", "told"}]
    BY Known DEF Attempted, LinksIInv, LinksTypeOK
  <1>5. /\ \A l \in Links : told'[l] = IF l = x THEN v ELSE told[l]
        /\ told' \in [Links -> 0 .. 2]
    BY DEF LinksIInv, LinksTypeOK
  <1>6. /\ \A s \in Socks : <<"close", s>> \in tasks' <=> <<"close", s>> \in tasks
        /\ \A l \in Links : <<"failed", l>> \in tasks' <=> <<"failed", l>> \in tasks \/ (f /\ l = x)
    OBVIOUS
  <1>7. \A l \in Links : link[l].state = "connectting" => l # x /\ link[l].sock \in Socks /\ link[l].sock # z
    BY <1>1, <1>2, Known DEF Has
  <1>8. \A l \in Links, s \in Socks : Has(l, s)' <=> (l # x /\ Has(l, s)) \/ (l = x /\ s = z)
    BY <1>3 DEF Has, Attempted
  <1>9. LinksTypeOK'
    <2>1. tasks' \subseteq ({"failed"} \X Links) \union ({"close"} \X Socks)
      BY DEF LinksIInv, LinksTypeOK
    <2> QED
      BY <1>3, <1>4, <1>5, <2>1 DEF LinksIInv, LinksTypeOK, KernelRecord
  <1>10. SocketsInv'
    <2> SUFFICES ASSUME NEW s \in Socks
                 PROVE  /\ kernel'[s].at = "free" => kernel'[s] = NoSocket
                        /\ attached'[s] # "none" => kernel'[s].at = "up"
                        /\ kernel'[s].news => kernel'[s].watched # Null
                        /\ kernel'[s].watched # Null => link'[kernel'[s].watched].sock = s
      BY DEF SocketsInv
    <2>1. CASE s = z
      BY <1>4, <2>1 DEF Attempted
    <2>2. CASE s # z
      <3>1. kernel[s].watched # Null => kernel[s].watched \in Links /\ kernel[s].watched # x
        BY <1>1, Known DEF LinksIInv, SocketsInv, KernelRecord
      <3> QED
        BY <1>3, <1>4, <2>2, <3>1 DEF LinksIInv, SocketsInv
    <2> QED
      BY <2>1, <2>2
  <1>11. StatesInv'
    <2> SUFFICES ASSUME NEW l \in Links
                 PROVE /\ link'[l].sock # Null => link'[l].tried
                       /\ link'[l].state = "free" => ~link'[l].tried
                       /\ link'[l].state \in {"free", "unconnected"} => link'[l].sock = Null
                       /\ link'[l].state = "connectting" =>
                            link'[l].sock # Null /\ (attached'[link'[l].sock] # "none" => poll'.mark = l)
      BY DEF StatesInv
    <2>1. CASE l = x
      BY <1>2, <1>3, <1>4, <2>1 DEF Attempted
    <2>2. CASE l # x
      BY <1>3, <1>4, <1>7, <2>2 DEF LinksIInv, StatesInv
    <2> QED
      BY <2>1, <2>2
  <1>12. TasksInv'
    <2>1. engine = "st" => tasks' = {} /\ \A s \in Socks : attached'[s] \in {"none", "open"}
      BY <1>4 DEF LinksIInv, TasksInv, Attempted
    <2>2. \A s \in Socks : <<"close", s>> \in tasks' => kernel'[s].at # "free" /\ attached'[s] = "none"
      BY <1>2, <1>4, <1>6, Known DEF LinksIInv, TasksInv
    <2>3. \A s \in Socks : <<"close", s>> \in tasks' \/ attached'[s] = "told" => \A l \in Links : ~Has(l, s)'
      BY <1>2, <1>4, <1>6, <1>8, Known DEF LinksIInv, TasksInv, Attempted
    <2>4. ASSUME NEW l \in Links, <<"failed", l>> \in tasks'
          PROVE  /\ link'[l].state \in {"unconnectting", "connected"} /\ told'[l] = 0
                 /\ link'[l].state = "connected" \/ poll'.mark = l => l \in Keep
                 /\ link'[l].sock # Null => attached'[link'[l].sock] = "none"
      <3>1. CASE l = x
        BY <1>1, <1>2, <1>3, <1>4, <1>5, <1>6, <2>4, <3>1 DEF Attempted
      <3>2. CASE l # x
        <4>1. link[l].sock # Null => link[l].sock \in Socks /\ link[l].sock # z
          BY <1>2, <1>6, <2>4, <3>2, Known DEF LinksIInv, TasksInv, Has
        <4> QED
          BY <1>3, <1>4, <1>5, <1>6, <2>4, <3>2, <4>1 DEF LinksIInv, TasksInv
      <3> QED
        BY <3>1, <3>2
    <2> QED
      BY <2>1, <2>2, <2>3, <2>4 DEF TasksInv
  <1>13. NoSocketLost'
    <2>1. \A s \in Socks : kernel'[s].at # "free" =>
            attached'[s] # "none" \/ <<"close", s>> \in tasks' \/ \E l \in Links : link'[l].sock = s
      <3> SUFFICES ASSUME NEW s \in Socks, kernel'[s].at # "free", attached'[s] = "none", <<"close", s>> \notin tasks'
                   PROVE  \E l \in Links : link'[l].sock = s
        OBVIOUS
      <3>1. CASE s = z
        BY <1>3, <3>1 DEF Attempted
      <3>2. CASE s # z
        <4>1. PICK l \in Links : link[l].sock = s
          BY <1>4, <1>6, <3>2 DEF LinksIInv, NoSocketLost
        <4>2. l # x
          BY <1>1, <4>1, Known
        <4> QED
          BY <1>3, <4>1, <4>2
      <3> QED
        BY <3>1, <3>2
    <2>2. \A m, l \in Links, s \in Socks : m # l => ~(Has(m, s)' /\ Has(l, s)')
      BY <1>2, <1>8, OneHas, Known
    <2>3. \A l \in Links, s \in Socks : Has(l, s)' => kernel'[s].at # "free"
      BY <1>4, <1>8, OneHas DEF Attempted
    <2>4. \A l \in Links : link'[l].sock \in Socks \union {Null}
      BY <1>3 DEF SVR_CONNECT
    <2> QED
      BY <2>1, <2>2, <2>3, <2>4 DEF NoSocketLost, Has
  <1>14. ToldInv'
    BY <1>3, <1>5 DEF LinksIInv, ToldInv, Attempted
  <1>15. \A l \in ToSet(poll.clients) : poll.pc \in {"wait", "A"} =>
           l \in Links /\ l # x /\ link[l].sock \in Socks /\ link[l].sock # z
    BY <1>7, Known DEF LinksIInv, RoundInv
  <1>16. \A e \in ToSet(poll.events) : e.link \in Links /\ e.link # x
    <2>1. CASE engine = "st"
      <3>1. poll.events = <<>>
        BY <2>1 DEF Idle, LinksIInv, RoundInv
      <3> QED
        BY <3>1 DEF ToSet
    <2>2. CASE engine = "mt"
      BY <1>7, <2>2, Known DEF LinksIInv, ReportsInv
    <2> QED
      BY <2>1, <2>2, EngineIs
  <1>17. RoundInv'
    <2>1. poll.mark # Null => poll.pc \in {"A", "B"} /\ link'[poll.mark].tried
      BY <1>3, Known DEF LinksIInv, RoundInv, Attempted, PollRecord
    <2>2. poll.pc \in {"wait", "A"} =>
            /\ IsInjective(poll.clients)
            /\ \A l \in ToSet(poll.clients) :
                 /\ link'[l].state = "connectting" /\ poll.mark # l
                 /\ link'[l].inEpoll => kernel'[link'[l].sock].watched = l
      BY <1>3, <1>4, <1>15 DEF LinksIInv, RoundInv
    <2>3. ASSUME NEW e \in ToSet(poll.events)
          PROVE link'[e.link].tried /\ (e.readable => \A s \in Socks : Has(e.link, s)' => kernel'[s].data)
      <3>1. \A s \in Socks : Has(e.link, s)' => s # z /\ Has(e.link, s)
        BY <1>2, <1>8, <1>16, Known
      <3> QED
        BY <1>3, <1>4, <1>16, <3>1 DEF LinksIInv, RoundInv
    <2> QED
      BY <2>1, <2>2, <2>3 DEF LinksIInv, RoundInv
  <1>18. ReportsInv'
    <2> SUFFICES ASSUME engine = "mt" PROVE ReportsInv'
      BY DEF ReportsInv
    <2>1. \A e \in ToSet(poll.events) : link'[e.link] = link[e.link]
      BY <1>3, <1>16
    <2>2. ASSUME NEW s \in Socks, kernel'[s].watched # Null
          PROVE  /\ poll.pc \in {"wait", "A"} /\ kernel'[s].watched \in ToSet(poll.clients)
                 /\ link'[kernel'[s].watched].inEpoll
      <3>1. s # z /\ kernel'[s] = kernel[s]
        BY <1>4, <2>2 DEF Attempted
      <3>2. /\ poll.pc \in {"wait", "A"} /\ kernel[s].watched \in ToSet(poll.clients) /\ link[kernel[s].watched].inEpoll
        BY <2>2, <3>1 DEF LinksIInv, ReportsInv
      <3> QED
        BY <1>3, <1>15, <3>1, <3>2
    <2> QED
      BY <2>1, <2>2 DEF LinksIInv, ReportsInv
  <1> QED
    BY <1>9, <1>10, <1>11, <1>12, <1>13, <1>14, <1>17, <1>18 DEF LinksIInv

LEMMA FreeIs ==
  ASSUME LinksIInv, Free # {}
  PROVE  /\ Min(Free) \in Free /\ Min(Free) \in Socks /\ Min(Free) # Null
         /\ kernel[Min(Free)] = NoSocket /\ attached[Min(Free)] = "none"
  <1>1. Free \in SUBSET Nat /\ Free \subseteq Socks
    BY LinksAssumption DEF Free
  <1>2. Min(Free) \in Free
    BY <1>1, LeastNumber DEF Min
  <1> QED
    BY <1>1, <1>2, Known DEF Free, LinksIInv, SocketsInv

LEMMA TriedIs ==
  ASSUME LinksIInv, NEW x \in Links
  PROVE  Tried(x) \in SVR_CONNECT /\ Tried(x).tried
  <1>1. link[x] \in SVR_CONNECT
    BY Known
  <1> QED
    BY <1>1 DEF Tried, SVR_CONNECT

GoneOn(x, st, z) == [Tried(x) EXCEPT !.state = st, !.sock = z]

LEMMA GoneOnIs ==
  ASSUME LinksIInv, NEW x \in Links, NEW st \in {"connected", "connectting", "unconnectting"}, NEW z \in Socks \union {Null}
  PROVE  LET r == GoneOn(x, st, z)
         IN  r \in SVR_CONNECT /\ r.tried /\ r.state = st /\ r.sock = z
  BY TriedIs DEF SVR_CONNECT, GoneOn

Opened(c) == [NoSocket EXCEPT !.at = c]

LEMMA OpenedIs ==
  ASSUME NEW c \in {"connecting", "up", "refused"}
  PROVE  Opened(c) \in KernelRecord /\ Opened(c).at = c /\ ~Opened(c).news /\ Opened(c).watched = Null
  BY DEF NoSocket, KernelRecord, Opened

SetOpen(z, c) == kernel' = [kernel EXCEPT ![z].at = c]

LEMMA Opens ==
  ASSUME LinksIInv, Free # {}, NEW c, NEW z, z = Min(Free), SetOpen(z, c)
  PROVE  kernel' = [s \in Socks |-> IF s = z THEN Opened(c) ELSE kernel[s]]
  <1>1. kernel' = [kernel EXCEPT ![z] = [kernel[z] EXCEPT !.at = c]]
    BY DEF SetOpen
  <1>2. kernel' = [kernel EXCEPT ![z] = Opened(c)]
    BY <1>1, FreeIs DEF Opened
  <1> QED
    BY <1>2, FreeIs, Known

LEMMA TryKeeps ==
  ASSUME LinksIInv, Idle, NEW x \in Links, Try(x),
         MayTry(x)
  PROVE  LinksIInv'
  <1>1. /\ tries' \in [Links -> 0 .. MaxTries] /\ signal \in BOOLEAN
        /\ UNCHANGED <<engine, poll, start, faults, dangling>>
    <2>1. tries[x] < MaxTries /\ tries' = [tries EXCEPT ![x] = tries[x] + 1]
      BY DEF Try
    <2>2. MaxTries \in Nat /\ tries \in [Links -> 0 .. MaxTries] /\ tries[x] + 1 \in 0 .. MaxTries
      BY <2>1, LinksAssumption DEF LinksIInv, LinksTypeOK
    <2> QED
      BY <2>1, <2>2, EngineIs DEF Try
  <1>2. /\ attached = [s \in Socks |-> attached[s]] /\ kernel = [s \in Socks |-> kernel[s]]
        /\ \A s \in Socks : s # Null
        /\ \A z \in Socks \union {Null} : (z # Null => attached[z] = "none") =>
             attached = [s \in Socks |-> IF s = z THEN "none" ELSE attached[s]]
    BY Known DEF LinksIInv, LinksTypeOK
  <1>3. tasks = tasks \union (IF FALSE THEN {<<"failed", x>>} ELSE {})
    OBVIOUS
  <1> DEFINE m == Min(Free)
  <1>4. CASE ConnectSucceeds(x)
    <2>1. PICK closed \in IF engine = "st" THEN BOOLEAN ELSE {FALSE} :
            /\ link' = [link EXCEPT ![x] = [Tried(x) EXCEPT !.state = "connected", !.sock = IF closed THEN Null ELSE m]]
            /\ kernel' = IF closed THEN kernel ELSE [kernel EXCEPT ![m].at = "up"]
            /\ attached' = IF closed THEN attached
                           ELSE [attached EXCEPT ![m] = IF engine = "st" THEN "open" ELSE "posted"]
      BY <1>4 DEF ConnectSucceeds
    <2>2. Free # {} /\ told' = [told EXCEPT ![x] = 1] /\ UNCHANGED <<tasks, signal>>
      BY <1>4 DEF ConnectSucceeds
    <2> DEFINE z == IF closed THEN Null ELSE m
               r == GoneOn(x, "connected", z)
               a == IF engine = "st" THEN "open" ELSE "posted"
    <2>3. z \in Free \union {Null} /\ z \in Socks \union {Null}
      BY <2>2, FreeIs
    <2>4. r \in SVR_CONNECT /\ r.tried /\ r.state = "connected" /\ r.sock = z
      BY <2>3, GoneOnIs
    <2> HIDE DEF r
    <2>5. Attempted(x, z, r, Opened("up"), a, FALSE, 1)
      BY <2>3, <2>4, OpenedIs DEF Attempted
    <2>6. kernel' = [s \in Socks |-> IF s = z THEN Opened("up") ELSE kernel[s]]
      <3>1. CASE closed
        BY <1>2, <2>1, <3>1
      <3>2. CASE ~closed
        <4>1. SetOpen(m, "up")
          BY <2>1, <3>2 DEF SetOpen
        <4> QED
          BY <2>2, <3>2, <4>1, Opens
      <3> QED
        BY <3>1, <3>2
    <2>7. attached' = [s \in Socks |-> IF s = z THEN a ELSE attached[s]]
      BY <1>2, <2>1, <2>2, FreeIs
    <2>8. link' = [link EXCEPT ![x] = r]
      BY <2>1 DEF r, GoneOn
    <2> HIDE DEF a, z, m
    <2>9. AttemptDone(x, z, r, Opened("up"), a, FALSE, 1)
      BY <1>1, <1>3, <2>2, <2>6, <2>7, <2>8 DEF AttemptDone
    <2> QED
      BY <2>3, <2>5, <2>9, AttemptKeeps
  <1>5. CASE ConnectWaits(x)
    <2>1. /\ Free # {}
          /\ link' = [link EXCEPT ![x] = [Tried(x) EXCEPT !.state = "connectting", !.sock = m]]
          /\ kernel' = [kernel EXCEPT ![m].at = "connecting"]
          /\ signal' \in BOOLEAN
          /\ told' = [told EXCEPT ![x] = 0]
          /\ UNCHANGED <<attached, tasks>>
      BY <1>1, <1>5 DEF ConnectWaits
    <2> DEFINE r == GoneOn(x, "connectting", m)
    <2>2. m \in Free /\ m \in Socks /\ m # Null /\ attached[m] = "none"
      BY <2>1, FreeIs
    <2>3. r \in SVR_CONNECT /\ r.tried /\ r.state = "connectting" /\ r.sock = m
      BY <2>2, GoneOnIs
    <2>4. kernel' = [s \in Socks |-> IF s = m THEN Opened("connecting") ELSE kernel[s]]
      <3>1. SetOpen(m, "connecting") /\ Free # {}
        BY <2>1 DEF SetOpen
      <3> QED
        BY <3>1, Opens
    <2> HIDE DEF r, m
    <2>5. Attempted(x, m, r, Opened("connecting"), "none", FALSE, 0)
      BY <2>2, <2>3, OpenedIs DEF Attempted
    <2>6. attached' = [s \in Socks |-> IF s = m THEN "none" ELSE attached[s]]
      BY <1>2, <2>1, <2>2
    <2>7. link' = [link EXCEPT ![x] = r]
      BY <2>1 DEF r, GoneOn
    <2>8. AttemptDone(x, m, r, Opened("connecting"), "none", FALSE, 0)
      BY <1>1, <1>3, <2>1, <2>4, <2>6, <2>7 DEF AttemptDone
    <2> QED
      BY <2>2, <2>5, <2>8, AttemptKeeps
  <1>6. CASE ConnectFails(x) /\ engine = "st"
    <2>1. /\ link' = [link EXCEPT ![x] = Failed(Tried(x))] /\ told' = [told EXCEPT ![x] = 1]
          /\ UNCHANGED <<kernel, attached, tasks, signal>>
      BY <1>6 DEF ConnectFails
    <2> DEFINE r == Failed(Tried(x))
    <2>2. r \in SVR_CONNECT /\ r.tried /\ r.state = "unconnected" /\ r.sock = Null
      BY TriedIs, FailedIs
    <2> HIDE DEF r
    <2>3. Attempted(x, Null, r, Opened("up"), "none", FALSE, 1)
      BY <2>2, OpenedIs DEF Attempted
    <2>4. kernel' = [s \in Socks |-> IF s = Null THEN Opened("up") ELSE kernel[s]]
      BY <1>2, <2>1
    <2>5. attached' = [s \in Socks |-> IF s = Null THEN "none" ELSE attached[s]]
      BY <1>2, <2>1
    <2>6. link' = [link EXCEPT ![x] = r]
      BY <2>1 DEF r, GoneOn
    <2>7. AttemptDone(x, Null, r, Opened("up"), "none", FALSE, 1)
      BY <1>1, <1>3, <2>1, <2>4, <2>5, <2>6 DEF AttemptDone
    <2> QED
      BY <2>3, <2>7, AttemptKeeps
  <1>7. CASE ConnectFails(x) /\ engine # "st"
    <2> DEFINE z == IF Free = {} THEN Null ELSE m
               r == GoneOn(x, "unconnectting", z)
    <2>1. /\ link' = [link EXCEPT ![x] = r] /\ told' = [told EXCEPT ![x] = 0]
          /\ kernel' = IF z = Null THEN kernel ELSE [kernel EXCEPT ![z].at = "refused"]
          /\ tasks' = tasks \union {<<"failed", x>>}
          /\ UNCHANGED <<attached, signal>>
      BY <1>7 DEF ConnectFails, GoneOn
    <2>2. z \in Free \union {Null} /\ z \in Socks \union {Null} /\ (z # Null => attached[z] = "none")
      BY FreeIs
    <2>3. r \in SVR_CONNECT /\ r.tried /\ r.state = "unconnectting" /\ r.sock = z
      BY <2>2, GoneOnIs
    <2>4. engine = "mt"
      BY <1>7, EngineIs
    <2>5. kernel' = [s \in Socks |-> IF s = z THEN Opened("refused") ELSE kernel[s]]
      <3>1. CASE z = Null
        BY <1>2, <2>1, <3>1
      <3>2. CASE z # Null
        <4>1. SetOpen(m, "refused") /\ Free # {} /\ z = m
          BY <2>1, <3>2 DEF SetOpen
        <4> QED
          BY <4>1, Opens
      <3> QED
        BY <3>1, <3>2
    <2>6. attached' = [s \in Socks |-> IF s = z THEN "none" ELSE attached[s]]
      BY <1>2, <2>1, <2>2
    <2> HIDE DEF r, z
    <2>7. Attempted(x, z, r, Opened("refused"), "none", TRUE, 0)
      BY <2>3, <2>4, OpenedIs DEF Attempted
    <2>8. tasks' = tasks \union (IF TRUE THEN {<<"failed", x>>} ELSE {})
      BY <2>1
    <2>9. AttemptDone(x, z, r, Opened("refused"), "none", TRUE, 0)
      BY <1>1, <2>1, <2>5, <2>6, <2>8 DEF AttemptDone
    <2> QED
      BY <2>2, <2>7, <2>9, AttemptKeeps
  <1> QED
    BY <1>4, <1>5, <1>6, <1>7 DEF Try

-----------------------------------------------------------------------------
LEMMA TellIs ==
  ASSUME LinksIInv, NEW x \in Links, Tell(x)
  PROVE  told' \in [Links -> 0 .. 2] /\ \A l \in Links : IF l = x THEN told[l] = 0 => told'[l] = 1 ELSE told'[l] = told[l]
  <1>1. told[x] \in 0 .. 2
    BY DEF LinksIInv, LinksTypeOK
  <1>2. Min({0 + 1, 2}) = 1 /\ Min({1 + 1, 2}) = 2 /\ Min({2 + 1, 2}) = 2
    BY DEF Min
  <1>3. Min({told[x] + 1, 2}) \in 0 .. 2 /\ (told[x] = 0 => Min({told[x] + 1, 2}) = 1)
    BY <1>1, <1>2
  <1>4. told' = [told EXCEPT ![x] = Min({told[x] + 1, 2})]
    BY DEF Tell
  <1> HIDE DEF Tell
  <1> QED
    BY <1>3, <1>4 DEF LinksIInv, LinksTypeOK

(* A socket is taken out of epoll, if u.                                   *)
Unwatched(s, u) == IF u THEN [kernel EXCEPT ![s].watched = Null, ![s].news = FALSE] ELSE kernel

LEMMA UnwatchedIs ==
  ASSUME LinksIInv, NEW s, NEW u \in BOOLEAN, u => s \in Socks, NEW k, k = Unwatched(s, u)
  PROVE  /\ k \in [Socks -> KernelRecord]
         /\ \A t \in Socks : /\ k[t].at = kernel[t].at /\ k[t].data = kernel[t].data
                             /\ t # s => k[t] = kernel[t]
                             /\ k[t].watched = IF u /\ t = s THEN Null ELSE kernel[t].watched
                             /\ k[t].news => k[t].watched # Null
                             /\ kernel[t] = NoSocket => k[t] = NoSocket
  <1>1. CASE u
    <2> DEFINE v == [kernel[s] EXCEPT !.watched = Null, !.news = FALSE]
    <2>1. kernel[s] \in KernelRecord
      BY <1>1, Known
    <2>2. /\ v \in KernelRecord /\ v.at = kernel[s].at /\ v.data = kernel[s].data /\ v.watched = Null /\ ~v.news
          /\ kernel[s] = NoSocket => v = NoSocket
      <3>1. v \in KernelRecord /\ v.at = kernel[s].at /\ v.data = kernel[s].data /\ v.watched = Null /\ ~v.news
        BY <2>1 DEF KernelRecord
      <3>2. ASSUME kernel[s] = NoSocket PROVE v = NoSocket
        <4>1. \A p, q \in KernelRecord :
                p.at = q.at /\ p.data = q.data /\ p.watched = q.watched /\ p.news = q.news => p = q
          BY DEF KernelRecord
        <4>2. NoSocket \in KernelRecord /\ NoSocket.watched = Null /\ NoSocket.news = FALSE
          BY DEF NoSocket, KernelRecord
        <4>3. v.news = FALSE
          BY <3>1 DEF KernelRecord
        <4> HIDE DEF v
        <4> QED
          BY <3>1, <3>2, <4>1, <4>2, <4>3
      <3> QED
        BY <3>1, <3>2
    <2>3. k = [kernel EXCEPT ![s] = v]
      BY <1>1 DEF Unwatched
    <2> HIDE DEF v
    <2>4. k \in [Socks -> KernelRecord] /\ \A t \in Socks : k[t] = IF t = s THEN v ELSE kernel[t]
      BY <2>2, <2>3, Known
    <2> QED
      BY <1>1, <2>2, <2>4 DEF LinksIInv, SocketsInv
  <1>2. CASE ~u
    BY <1>2, Known DEF Unwatched, LinksIInv, SocketsInv
  <1> QED
    BY <1>1, <1>2

(* What holds when the result of a link, x, is looked at; next is what is  *)
(* left to be looked at after it.                                          *)
Ready(x, next) ==
  /\ poll.pc \in {"A", "B"} /\ poll.mark = Null /\ x \in Links /\ link[x].tried
  /\ next \in PollRecord /\ next.pc = poll.pc /\ next.mark = Null /\ next.count = poll.count
  /\ poll.pc = "A" => IsInjective(next.clients) /\ ToSet(next.clients) \subseteq ToSet(poll.clients) \ {x}
  /\ ToSet(next.events) \subseteq ToSet(poll.events) /\ (next.events # <<>> => poll.events # <<>>)
  /\ engine = "mt" =>
       /\ link[x].state = "connectting"
       /\ \A i, j \in DOMAIN next.events : i # j => next.events[i].link # next.events[j].link
       /\ \A s \in Socks : LET l == kernel[s].watched IN
            l # Null /\ l # x => poll.pc = "A" /\ l \in ToSet(next.clients)

ClientsLeft(x, next) ==
  poll.pc = "A" => \A l \in ToSet(next.clients) :
    /\ l \in Links /\ l # x /\ link[l].state = "connectting" /\ link[l].sock \in Socks
    /\ link[l].inEpoll => kernel[link[l].sock].watched = l

EventsLeft(next) ==
  /\ next.events # <<>> => next.count > 0
  /\ \A e \in ToSet(next.events) :
       /\ e.link \in Links /\ link[e.link].tried
       /\ e.readable => \A s \in Socks : Has(e.link, s) => kernel[s].data
       /\ engine = "mt" => /\ link[e.link].state = "connectting"
                           /\ poll.pc = "A" /\ e.link \in ToSet(next.clients) => link[e.link].inEpoll

WatchedLeft(x, next) ==
  engine = "mt" => \A s \in Socks : LET l == kernel[s].watched IN
    l # Null /\ l # x => poll.pc = "A" /\ l \in ToSet(next.clients) /\ link[l].inEpoll

LEMMA ReadyKnown ==
  ASSUME LinksIInv, NEW x, NEW next, Ready(x, next)
  PROVE  /\ x \in Links /\ x # Null /\ link[x] \in SVR_CONNECT
         /\ ClientsLeft(x, next) /\ EventsLeft(next) /\ WatchedLeft(x, next)
         /\ \A l \in Links : link[l].state = "connectting" => link[l].sock \in Socks /\ attached[link[l].sock] = "none"
         /\ engine = "mt" => told[x] = 0 /\ <<"failed", x>> \notin tasks
  <1>1. x \in Links /\ x # Null /\ link[x] \in SVR_CONNECT
    BY Known DEF Ready
  <1>2. ClientsLeft(x, next)
    BY Known DEF ClientsLeft, Ready, LinksIInv, RoundInv
  <1>3. EventsLeft(next)
    <2>1. \A e \in ToSet(next.events) :
              /\ e.link \in Links /\ link[e.link].tried
              /\ e.readable => \A s \in Socks : Has(e.link, s) => kernel[s].data
      BY Known DEF Ready, LinksIInv, RoundInv
    <2>2. engine = "mt" => \A e \in ToSet(next.events) :
              /\ link[e.link].state = "connectting"
              /\ poll.pc = "A" /\ e.link \in ToSet(next.clients) => link[e.link].inEpoll
      BY DEF Ready, LinksIInv, ReportsInv
    <2>3. next.events # <<>> => next.count > 0
      BY DEF Ready, LinksIInv, RoundInv
    <2> QED
      BY <2>1, <2>2, <2>3 DEF EventsLeft
  <1>4. WatchedLeft(x, next)
    BY DEF WatchedLeft, Ready, LinksIInv, ReportsInv
  <1>5. \A l \in Links : link[l].state = "connectting" => link[l].sock \in Socks /\ attached[link[l].sock] = "none"
    BY Known DEF Ready, LinksIInv, StatesInv
  <1>6. engine = "mt" => told[x] = 0 /\ <<"failed", x>> \notin tasks
    BY <1>1 DEF Ready, LinksIInv, ToldInv, TasksInv
  <1> QED
    BY <1>1, <1>2, <1>3, <1>4, <1>5, <1>6

(* The outcome of it: r is what becomes of the link, k and a of its socket *)
(* z, if it has one, and of the connection there; f whether a worker is    *)
(* asked to fail it, m the link to be marked next.                         *)
Outcome(x, next, z, r, k, a, f, m) ==
  /\ z = link[x].sock /\ link[x].state # "deleted"
  /\ r \in SVR_CONNECT /\ r.tried /\ r.sock \in {z, Null}
  /\ r.state \in {"connectting", "unconnectting", "connected", "unconnected"}
  /\ r.state = "unconnected" => r.sock = Null
  /\ r.state = "connectting" => r.sock # Null /\ (a # "none" => m = x)
  /\ z # Null =>
       /\ k \in KernelRecord /\ k.watched \in {Null, kernel[z].watched} /\ (k.news => k.watched # Null)
       /\ \/ k.at = kernel[z].at /\ k.data = kernel[z].data /\ r.sock = z
          \/ k = NoSocket /\ a = "none" /\ r.sock = Null
       /\ engine = "mt" => k.watched # x
  /\ a \in {"none", "posted", "open"} /\ (a # "none" => z # Null /\ k.at = "up") /\ (engine = "st" => a # "posted")
  /\ f => r.state = "unconnectting" /\ m = Null /\ a = "none" /\ engine = "mt"
  /\ engine = "mt" => \A e \in ToSet(next.events) : e.link = x => r.state = "connectting" /\ m = Null

OutcomeDone(x, next, z, r, k, a, f, m) ==
  /\ link' = [link EXCEPT ![x] = r]
  /\ kernel' = [s \in Socks |-> IF s = z THEN k ELSE kernel[s]]
  /\ attached' = [s \in Socks |-> IF s = z THEN a ELSE attached[s]]
  /\ tasks' = tasks \union (IF f THEN {<<"failed", x>>} ELSE {})
  /\ poll' = [next EXCEPT !.mark = m]
  /\ told' \in [Links -> 0 .. 2] /\ \A l \in Links : l # x => told'[l] = told[l]
  /\ engine = "mt" => told'[x] <= 1 /\ (m # x => told'[x] = told[x])
  /\ UNCHANGED <<engine, signal, start, faults, tries, dangling>>

LEMMA OutcomeKeeps ==
  ASSUME LinksIInv, NEW x, NEW next, Ready(x, next), NEW z, NEW r, NEW k, NEW a, NEW f \in BOOLEAN, NEW m \in {x, Null},
         Outcome(x, next, z, r, k, a, f, m), OutcomeDone(x, next, z, r, k, a, f, m)
  PROVE  LinksIInv'
  <1>1. /\ x \in Links /\ link[x] \in SVR_CONNECT /\ x # Null
        /\ ClientsLeft(x, next) /\ EventsLeft(next) /\ WatchedLeft(x, next)
        /\ \A l \in Links : link[l].state = "connectting" => link[l].sock \in Socks /\ attached[link[l].sock] = "none"
        /\ engine = "mt" => told[x] = 0 /\ <<"failed", x>> \notin tasks
    BY ReadyKnown
  <1>2. /\ UNCHANGED <<engine, signal, start, faults, tries, dangling>>
        /\ link' = [link EXCEPT ![x] = r]
        /\ tasks' = tasks \union (IF f THEN {<<"failed", x>>} ELSE {})
        /\ told' \in [Links -> 0 .. 2] /\ \A l \in Links : l # x => told'[l] = told[l]
        /\ engine = "mt" => told'[x] <= 1 /\ (m # x => told'[x] = told[x])
    BY DEF OutcomeDone
  <1>3. /\ \A l \in Links : link'[l] = IF l = x THEN r ELSE link[l]
        /\ link' \in [Links -> SVR_CONNECT]
    BY <1>1, <1>2 DEF Outcome, LinksIInv, LinksTypeOK
  <1>4. /\ z \in Socks \union {Null} /\ z = link[x].sock
        /\ \A s \in Socks : Has(x, s) <=> s = z
        /\ \A l \in Links : l # x /\ link[l].state # "deleted" /\ link[l].sock # Null => link[l].sock # z
        /\ z # Null => /\ z \in Socks /\ kernel[z].at # "free" /\ <<"close", z>> \notin tasks /\ attached[z] # "told"
    <2>1. z \in Socks \union {Null} /\ z = link[x].sock /\ \A s \in Socks : Has(x, s) <=> s = z
      BY <1>1 DEF Outcome, SVR_CONNECT, Has
    <2>2. \A l \in Links : l # x /\ link[l].state # "deleted" /\ link[l].sock # Null => link[l].sock # z
      BY <1>1, <2>1, Known DEF LinksIInv, NoSocketLost, Outcome
    <2>3. z # Null => z \in Socks /\ kernel[z].at # "free" /\ <<"close", z>> \notin tasks /\ attached[z] # "told"
      BY <1>1, <2>1, OneHas DEF LinksIInv, TasksInv
    <2> QED
      BY <2>1, <2>2, <2>3
  <1>5. /\ \A s \in Socks : kernel'[s] = IF s = z THEN k ELSE kernel[s]
        /\ kernel' \in [Socks -> KernelRecord]
        /\ \A s \in Socks : attached'[s] = IF s = z THEN a ELSE attached[s]
        /\ attached' \in [Socks -> {"none", "posted", "open", "closing", "told"}]
        /\ \A s \in Socks : s # Null
    BY Known DEF OutcomeDone, Outcome, LinksIInv, LinksTypeOK
  <1>6. /\ poll' \in PollRecord /\ poll'.pc = poll.pc /\ poll'.mark = m /\ poll'.count = next.count
        /\ poll'.clients = next.clients /\ poll'.events = next.events /\ poll.mark = Null /\ poll.pc \in {"A", "B"}
    BY <1>1 DEF OutcomeDone, Ready, PollRecord
  <1>7. \A l \in Links, s \in Socks : Has(l, s)' <=> (l # x /\ Has(l, s)) \/ (l = x /\ s = z /\ r.sock = z)
    BY <1>3, <1>4, <1>5 DEF Has, Outcome
  <1>8. /\ \A s \in Socks : <<"close", s>> \in tasks' <=> <<"close", s>> \in tasks
        /\ \A l \in Links : <<"failed", l>> \in tasks' <=> <<"failed", l>> \in tasks \/ (f /\ l = x)
    BY <1>2
  <1>9. LinksTypeOK'
    <2>1. tasks' \subseteq ({"failed"} \X Links) \union ({"close"} \X Socks)
      BY <1>1, <1>2 DEF LinksIInv, LinksTypeOK
    <2> QED
      BY <1>2, <1>3, <1>5, <1>6, <2>1 DEF LinksIInv, LinksTypeOK, PollRecord, KernelRecord
  <1>10. SocketsInv'
    <2> SUFFICES ASSUME NEW s \in Socks
                 PROVE  /\ kernel'[s].at = "free" => kernel'[s] = NoSocket
                        /\ attached'[s] # "none" => kernel'[s].at = "up"
                        /\ kernel'[s].news => kernel'[s].watched # Null
                        /\ kernel'[s].watched # Null => link'[kernel'[s].watched].sock = s
      BY DEF SocketsInv
    <2>1. kernel[s].watched # Null => kernel[s].watched \in Links /\ link[kernel[s].watched].sock = s
      BY Known DEF LinksIInv, SocketsInv, KernelRecord
    <2>2. CASE s = z
      <3>1. kernel'[s] = k /\ attached'[s] = a /\ s # Null
        BY <1>5, <2>2
      <3>2. NoSocket.watched = Null
        BY DEF NoSocket
      <3>3. k.watched # Null => k.watched = kernel[s].watched /\ r.sock = s
        BY <2>2, <3>1, <3>2 DEF Outcome
      <3>4. k.watched # Null => link'[k.watched].sock = s
        BY <1>3, <2>1, <3>3
      <3> QED
        BY <1>4, <2>2, <3>1, <3>4 DEF Outcome
    <2>3. CASE s # z
      BY <1>3, <1>4, <1>5, <2>1, <2>3 DEF LinksIInv, SocketsInv
    <2> QED
      BY <2>2, <2>3
  <1>11. StatesInv'
    <2> SUFFICES ASSUME NEW l \in Links
                 PROVE /\ link'[l].sock # Null => link'[l].tried
                       /\ link'[l].state = "free" => ~link'[l].tried
                       /\ link'[l].state \in {"free", "unconnected"} => link'[l].sock = Null
                       /\ link'[l].state = "connectting" =>
                            link'[l].sock # Null /\ (attached'[link'[l].sock] # "none" => poll'.mark = l)
      BY DEF StatesInv
    <2>1. CASE l = x
      BY <1>3, <1>4, <1>5, <1>6, <2>1 DEF Outcome
    <2>2. CASE l # x
      <3>1. link[l].state = "connectting" => link[l].sock \in Socks /\ link[l].sock # z /\ attached[link[l].sock] = "none"
        BY <1>1, <1>4, <1>5, <2>2
      <3> QED
        BY <1>3, <1>5, <2>2, <3>1 DEF LinksIInv, StatesInv
    <2> QED
      BY <2>1, <2>2
  <1>12. TasksInv'
    <2>1. engine = "st" => tasks' = {} /\ \A t \in Socks : attached'[t] \in {"none", "open"}
      BY <1>2, <1>5 DEF LinksIInv, TasksInv, Outcome
    <2>2. \A t \in Socks : <<"close", t>> \in tasks' => kernel'[t].at # "free" /\ attached'[t] = "none"
      BY <1>4, <1>5, <1>8 DEF LinksIInv, TasksInv
    <2>3. \A t \in Socks : <<"close", t>> \in tasks' \/ attached'[t] = "told" => \A l \in Links : ~Has(l, t)'
      BY <1>4, <1>5, <1>7, <1>8 DEF LinksIInv, TasksInv, Outcome
    <2>4. ASSUME NEW l \in Links, <<"failed", l>> \in tasks'
          PROVE  /\ link'[l].state \in {"unconnectting", "connected"} /\ told'[l] = 0
                 /\ link'[l].state = "connected" \/ poll'.mark = l => l \in Keep
                 /\ link'[l].sock # Null => attached'[link'[l].sock] = "none"
      <3>1. engine = "mt"
        BY <1>8, <2>4, EngineIs DEF LinksIInv, TasksInv, Outcome
      <3>2. CASE l = x
        <4>1. f /\ r.state = "unconnectting" /\ m = Null /\ a = "none"
          BY <1>1, <1>8, <2>4, <3>1, <3>2 DEF Outcome
        <4>2. told'[l] = 0
          BY <1>1, <1>2, <3>1, <3>2, <4>1
        <4>3. r.sock # Null => r.sock = z /\ z \in Socks
          BY <1>4 DEF Outcome
        <4> QED
          BY <1>1, <1>3, <1>5, <1>6, <3>2, <4>1, <4>2, <4>3
      <3>3. CASE l # x
        <4>1. <<"failed", l>> \in tasks /\ link[l].state # "deleted" /\ told'[l] = told[l] /\ link'[l] = link[l] /\ poll'.mark # l
          BY <1>2, <1>3, <1>6, <1>8, <2>4, <3>3, Known DEF LinksIInv, TasksInv
        <4>2. link[l].sock # Null => link[l].sock \in Socks /\ link[l].sock # z
          BY <1>4, <3>3, <4>1, Known DEF SVR_CONNECT
        <4> QED
          BY <1>5, <4>1, <4>2 DEF LinksIInv, TasksInv
      <3> QED
        BY <3>2, <3>3
    <2> QED
      BY <1>2, <2>1, <2>2, <2>3, <2>4 DEF TasksInv
  <1>13. NoSocketLost'
    <2>1. \A s \in Socks : kernel'[s].at # "free" =>
            attached'[s] # "none" \/ <<"close", s>> \in tasks' \/ \E l \in Links : link'[l].sock = s
      <3> SUFFICES ASSUME NEW s \in Socks, kernel'[s].at # "free", attached'[s] = "none", <<"close", s>> \notin tasks'
                   PROVE  \E l \in Links : link'[l].sock = s
        OBVIOUS
      <3>1. CASE s = z
        <4>1. r.sock = s
          BY <1>5, <3>1 DEF Outcome, NoSocket
        <4> QED
          BY <1>1, <1>3, <4>1
      <3>2. CASE s # z
        <4>1. PICK l \in Links : link[l].sock = s
          BY <1>5, <1>8, <3>2 DEF LinksIInv, NoSocketLost
        <4> QED
          BY <1>3, <1>4, <3>2, <4>1
      <3> QED
        BY <3>1, <3>2
    <2>2. \A p, l \in Links, s \in Socks : p # l => ~(Has(p, s)' /\ Has(l, s)')
      BY <1>1, <1>4, <1>7, OneHas
    <2>3. \A l \in Links, s \in Socks : Has(l, s)' => kernel'[s].at # "free"
      <3> SUFFICES ASSUME NEW l \in Links, NEW s \in Socks, Has(l, s)' PROVE kernel'[s].at # "free"
        OBVIOUS
      <3>1. CASE l = x
        BY <1>4, <1>5, <1>7, <3>1 DEF Outcome
      <3>2. CASE l # x
        <4>1. Has(l, s) /\ s # z
          BY <1>1, <1>4, <1>7, <3>2, OneHas
        <4> QED
          BY <1>5, <4>1, OneHas
      <3> QED
        BY <3>1, <3>2
    <2>4. \A l \in Links : link'[l].sock \in Socks \union {Null}
      BY <1>3 DEF SVR_CONNECT
    <2> QED
      BY <2>1, <2>2, <2>3, <2>4 DEF NoSocketLost, Has
  <1>14. ToldInv'
    <2> SUFFICES ASSUME engine = "mt", NEW l \in Links
                 PROVE  told'[l] <= 1 /\ (link'[l].state = "connectting" /\ poll'.mark # l => told'[l] = 0)
      BY <1>2 DEF ToldInv
    <2>1. CASE l = x
      BY <1>1, <1>2, <1>6, <2>1
    <2>2. CASE l # x
      BY <1>2, <1>3, <1>6, <2>2, Known DEF LinksIInv, ToldInv
    <2> QED
      BY <2>1, <2>2
  <1>15. poll.pc = "A" => \A l \in ToSet(next.clients) :
           l \in Links /\ l # x /\ link'[l] = link[l] /\ link[l].sock \in Socks /\ link[l].sock # z
    BY <1>1, <1>3, <1>4, <1>5 DEF ClientsLeft
  <1>16. RoundInv'
    <2>1. poll.pc = "A" =>
            /\ IsInjective(next.clients)
            /\ \A l \in ToSet(next.clients) :
                 /\ link'[l].state = "connectting" /\ m # l
                 /\ link'[l].inEpoll => kernel'[link'[l].sock].watched = l
      BY <1>1, <1>5, <1>15, Known DEF Ready, ClientsLeft
    <2>2. ASSUME NEW e \in ToSet(next.events)
          PROVE link'[e.link].tried /\ (e.readable => \A t \in Socks : Has(e.link, t)' => kernel'[t].data)
      <3>1. e.link \in Links /\ link[e.link].tried /\ (e.readable => \A s \in Socks : Has(e.link, s) => kernel[s].data)
        BY <1>1 DEF EventsLeft
      <3>2. link'[e.link].tried
        BY <1>3, <3>1 DEF Outcome
      <3>3. ASSUME e.readable, NEW t \in Socks, Has(e.link, t)' PROVE kernel'[t].data
        <4>1. Has(e.link, t) /\ kernel[t].data
          BY <1>4, <1>7, <3>1, <3>3
        <4>2. CASE t = z
          <5>1. e.link = x /\ r.sock = z
            BY <1>1, <1>4, <1>7, <3>1, <3>3, <4>2, OneHas
          <5> QED
            BY <1>5, <4>1, <4>2, <5>1 DEF Outcome
        <4>3. CASE t # z
          BY <1>5, <4>1, <4>3
        <4> QED
          BY <4>2, <4>3
      <3> QED
        BY <3>2, <3>3
    <2>3. next.events # <<>> => next.count > 0
      BY <1>1 DEF EventsLeft
    <2>4. link'[x].tried
      BY <1>1, <1>3 DEF Outcome
    <2> QED
      BY <1>6, <2>1, <2>2, <2>3, <2>4 DEF RoundInv
  <1>17. ReportsInv'
    <2> SUFFICES ASSUME engine = "mt" PROVE ReportsInv'
      BY <1>2 DEF ReportsInv
    <2>1. ASSUME NEW e \in ToSet(next.events)
          PROVE  /\ link'[e.link].state = "connectting" /\ m # e.link
                 /\ poll.pc = "A" /\ e.link \in ToSet(next.clients) => link'[e.link].inEpoll
      <3>1. /\ e.link \in Links /\ link[e.link].state = "connectting"
            /\ poll.pc = "A" /\ e.link \in ToSet(next.clients) => link[e.link].inEpoll
        BY <1>1 DEF EventsLeft
      <3>2. CASE e.link = x
        <4>1. r.state = "connectting" /\ m = Null
          BY <3>2 DEF Outcome
        <4>2. poll.pc = "A" => x \notin ToSet(next.clients)
          BY <1>15
        <4> QED
          BY <1>1, <1>3, <3>2, <4>1, <4>2
      <3>3. CASE e.link # x
        <4>1. m # e.link
          BY <3>1, <3>3, Known
        <4> QED
          BY <1>3, <3>1, <3>3, <4>1
      <3> QED
        BY <3>2, <3>3
    <2>2. ASSUME NEW t \in Socks, kernel'[t].watched # Null
          PROVE  /\ poll.pc = "A" /\ kernel'[t].watched \in ToSet(next.clients) /\ link'[kernel'[t].watched].inEpoll
      <3>1. kernel'[t].watched = kernel[t].watched
        BY <1>5, <2>2 DEF Outcome
      <3>2. kernel[t].watched # x
        <4>1. kernel[t].watched = x => t = z
          BY <1>1, <1>4 DEF LinksIInv, SocketsInv
        <4> QED
          BY <1>1, <1>5, <3>1, <4>1 DEF Outcome
      <3>3. poll.pc = "A" /\ kernel[t].watched \in ToSet(next.clients) /\ link[kernel[t].watched].inEpoll
        BY <1>1, <2>2, <3>1, <3>2 DEF WatchedLeft
      <3> QED
        BY <1>15, <3>1, <3>3
    <2>3. \A i, j \in DOMAIN next.events : i # j => next.events[i].link # next.events[j].link
      BY DEF Ready
    <2> QED
      BY <1>2, <1>6, <2>1, <2>2, <2>3 DEF ReportsInv
  <1> QED
    BY <1>9, <1>10, <1>11, <1>12, <1>13, <1>14, <1>16, <1>17 DEF LinksIInv

LEMMA UnwatchedAt ==
  ASSUME LinksIInv, NEW s \in Socks \union {Null}, NEW u \in BOOLEAN, u => s \in Socks, NEW k, k = Unwatched(s, u)
  PROVE  /\ k = [t \in Socks |-> IF t = s THEN k[s] ELSE kernel[t]]
         /\ s # Null => /\ k[s] \in KernelRecord /\ k[s].at = kernel[s].at /\ k[s].data = kernel[s].data
                        /\ k[s].watched = IF u THEN Null ELSE kernel[s].watched
                        /\ k[s].news => k[s].watched # Null
                        /\ [k EXCEPT ![s] = NoSocket] = [t \in Socks |-> IF t = s THEN NoSocket ELSE kernel[t]]
  <1>1. /\ k \in [Socks -> KernelRecord]
        /\ \A t \in Socks : /\ k[t].at = kernel[t].at /\ k[t].data = kernel[t].data
                            /\ t # s => k[t] = kernel[t]
                            /\ k[t].watched = IF u /\ t = s THEN Null ELSE kernel[t].watched
                            /\ k[t].news => k[t].watched # Null
    BY UnwatchedIs
  <1>2. k = [t \in Socks |-> IF t = s THEN k[s] ELSE kernel[t]]
    BY <1>1
  <1>3. [k EXCEPT ![s] = NoSocket] = [t \in Socks |-> IF t = s THEN NoSocket ELSE kernel[t]]
    BY <1>1
  <1>4. ASSUME s # Null
        PROVE  /\ k[s] \in KernelRecord /\ k[s].at = kernel[s].at /\ k[s].data = kernel[s].data
               /\ k[s].watched = IF u THEN Null ELSE kernel[s].watched
               /\ k[s].news => k[s].watched # Null
    <2>1. s \in Socks
      BY <1>4
    <2>2. k[s] \in KernelRecord /\ k[s].at = kernel[s].at /\ k[s].data = kernel[s].data
      BY <1>1, <2>1
    <2>3. k[s].watched = IF u THEN Null ELSE kernel[s].watched
      BY <1>1, <2>1
    <2>4. k[s].news => k[s].watched # Null
      BY <1>1, <2>1
    <2> QED
      BY <2>2, <2>3, <2>4
  <1> QED
    BY <1>2, <1>3, <1>4

LEMMA LooksIs ==
  ASSUME LinksIInv, NEW x \in Links, NEW rec, rec = [link[x] EXCEPT !.inEpoll = FALSE]
  PROVE  /\ rec \in SVR_CONNECT /\ rec.state = link[x].state /\ rec.sock = link[x].sock /\ rec.tried = link[x].tried
         /\ rec.inEpoll = FALSE /\ rec.sock \in Socks \union {Null}
  <1>1. link[x] \in SVR_CONNECT
    BY Known
  <1> QED
    BY <1>1 DEF SVR_CONNECT

(* The attachment of a link's socket as it is.                             *)
AttachedAt(z) == IF z = Null THEN "none" ELSE attached[z]

LEMMA AttachedSame ==
  ASSUME LinksIInv, NEW z \in Socks \union {Null}
  PROVE  attached = [s \in Socks |-> IF s = z THEN AttachedAt(z) ELSE attached[s]]
  <1>1. \A s \in Socks : s # Null
    BY Known
  <1> QED
    BY <1>1 DEF LinksIInv, LinksTypeOK, AttachedAt

LEMMA ToldIs ==
  ASSUME LinksIInv, NEW x, NEW next, Ready(x, next), Tell(x) \/ UNCHANGED told
  PROVE  /\ told' \in [Links -> 0 .. 2] /\ \A l \in Links : l # x => told'[l] = told[l]
         /\ engine = "mt" => told'[x] <= 1
  <1>1. x \in Links /\ (engine = "mt" => told[x] = 0)
    BY ReadyKnown
  <1>2. CASE Tell(x)
    BY <1>1, <1>2, TellIs
  <1>3. CASE UNCHANGED told
    BY <1>1, <1>3 DEF LinksIInv, LinksTypeOK
  <1> QED
    BY <1>2, <1>3

(* ConnectIsFinished.                                                      *)
LEMMA FinishedKeeps ==
  ASSUME LinksIInv, NEW x, NEW next, Ready(x, next), NEW u \in BOOLEAN, NEW readable, NEW api,
         ConnectIsFinished(x, u, readable, api, next), UNCHANGED <<engine, signal, start, faults, tries>>,
         u => link[x].sock \in Socks,
         engine = "mt" => (\A s \in Socks : kernel[s].watched = x => u) /\ \A e \in ToSet(next.events) : e.link # x,
         link[x].state # "deleted" /\ AttachedAt(link[x].sock) # "none" => Works(link[x].sock, readable, api)
  PROVE  LinksIInv'
  <1> DEFINE rec == [link[x] EXCEPT !.inEpoll = FALSE]
             z   == rec.sock
             k1  == Unwatched(z, u)
  <1>1. /\ x \in Links /\ x # Null /\ link[x].tried /\ engine \in {"mt", "st"} /\ dangling \in BOOLEAN
        /\ poll.mark = Null /\ next \in PollRecord /\ next.mark = Null /\ next.pc = poll.pc
        /\ engine = "mt" => link[x].state = "connectting" /\ told[x] = 0
    BY ReadyKnown, EngineIs DEF Ready
  <1>2. /\ rec \in SVR_CONNECT /\ rec.state = link[x].state /\ z = link[x].sock /\ rec.tried
        /\ z \in Socks \union {Null}
    BY <1>1, LooksIs
  <1>3. /\ k1 = [t \in Socks |-> IF t = z THEN k1[z] ELSE kernel[t]]
        /\ z # Null => /\ k1[z] \in KernelRecord /\ k1[z].at = kernel[z].at /\ k1[z].data = kernel[z].data
                       /\ k1[z].watched = IF u THEN Null ELSE kernel[z].watched
                       /\ k1[z].news => k1[z].watched # Null
                       /\ [k1 EXCEPT ![z] = NoSocket] = [t \in Socks |-> IF t = z THEN NoSocket ELSE kernel[t]]
    <2>1. u => z \in Socks
      BY <1>2
    <2> HIDE DEF z, k1
    <2> QED
      BY <1>2, <2>1, UnwatchedAt DEF k1
  <1>4. rec.state \in {"free", "connectting", "unconnectting", "connected", "unconnected", "deleted"} /\ rec.state # "free"
    <2>1. link[x].state # "free"
      BY <1>1 DEF LinksIInv, StatesInv
    <2> HIDE DEF rec
    <2> QED
      BY <1>2, <2>1 DEF SVR_CONNECT
  <1>5. rec.state = "unconnected" => z = Null
    BY <1>1, <1>2 DEF LinksIInv, StatesInv
  <1>6. rec.state = "connectting" => z # Null /\ attached[z] = "none"
    BY <1>1, <1>2, ReadyKnown DEF LinksIInv, StatesInv
  <1>7. Failed(rec) \in SVR_CONNECT /\ Failed(rec).tried /\ Failed(rec).sock = Null /\ Failed(rec).state = "unconnected"
    <2> HIDE DEF rec
    <2> QED
      BY <1>2 DEF Failed, SVR_CONNECT
  <1>8. NoSocket \in KernelRecord /\ NoSocket.watched = Null /\ ~NoSocket.news
    BY DEF NoSocket, KernelRecord
  <1>9. engine = "mt" /\ z # Null => k1[z].watched # x
    <2> SUFFICES ASSUME engine = "mt", z # Null, k1[z].watched = x PROVE FALSE
      OBVIOUS
    <2> HIDE DEF z, k1, rec
    <2>1. z \in Socks /\ ~u /\ kernel[z].watched = x
      BY <1>1, <1>2, <1>3
    <2> QED
      BY <2>1
  <1>10. attached = [s \in Socks |-> IF s = z THEN AttachedAt(z) ELSE attached[s]]
    <2> HIDE DEF z
    <2> QED
      BY <1>2, AttachedSame
  <1>11. tasks = tasks \union (IF FALSE THEN {<<"failed", x>>} ELSE {})
    OBVIOUS
  <1>12. next = [next EXCEPT !.mark = Null]
    BY <1>1 DEF PollRecord
  <1>13. CASE rec.state = "deleted"
    <2>1. dangling' = TRUE /\ poll' = next /\ UNCHANGED <<link, kernel, attached, tasks, told>>
      BY <1>13 DEF ConnectIsFinished
    <2>2. engine = "st"
      BY <1>1, <1>2, <1>13
    <2>3. ReportsInv'
      BY <2>2 DEF ReportsInv
    <2>4. RoundInv'
      <3>1. /\ poll'.mark = Null /\ poll'.pc = poll.pc /\ poll'.clients = next.clients /\ poll'.events = next.events
            /\ poll'.count = next.count /\ poll.pc \in {"A", "B"}
            /\ UNCHANGED <<link, kernel>>
        BY <1>1, <2>1 DEF Ready
      <3>2. ClientsLeft(x, next) /\ EventsLeft(next) /\ (poll.pc = "A" => IsInjective(next.clients))
        BY ReadyKnown DEF Ready
      <3>3. \A l \in Links : l # Null
        BY Known
      <3>4. poll.pc = "A" => \A l \in ToSet(next.clients) :
              link[l].state = "connectting" /\ Null # l /\ (link[l].inEpoll => kernel[link[l].sock].watched = l)
        BY <3>2, <3>3 DEF ClientsLeft
      <3>5. \A l \in Links, s \in Socks : Has(l, s)' <=> Has(l, s)
        BY <3>1 DEF Has
      <3>6. \A e \in ToSet(next.events) :
              link[e.link].tried /\ (e.readable => \A s \in Socks : Has(e.link, s)' => kernel[s].data)
        BY <3>2, <3>5 DEF EventsLeft
      <3>7. next.events # <<>> => next.count > 0
        BY <3>2 DEF EventsLeft
      <3> QED
        BY <3>1, <3>2, <3>4, <3>6, <3>7 DEF RoundInv
    <2> QED
      BY <1>1, <2>1, <2>3, <2>4, EngineIs, PollTurns
  <1>14. CASE rec.state # "deleted" /\ Works(z, readable, api)
    <2>1. PICK closed \in IF engine = "st" THEN BOOLEAN ELSE {FALSE} :
            /\ Tell(x)
            /\ attached' = [attached EXCEPT ![z] = IF closed THEN "none" ELSE IF engine = "st" THEN "open" ELSE "posted"]
            /\ kernel' = IF closed THEN [kernel EXCEPT ![z] = NoSocket] ELSE k1
            /\ link' = [link EXCEPT ![x] = IF closed THEN Failed(rec) ELSE rec]
            /\ poll' = [next EXCEPT !.mark = x]
            /\ UNCHANGED <<tasks, dangling>>
      BY <1>14 DEF ConnectIsFinished, Unwatched
    <2> DEFINE a == IF closed THEN "none" ELSE IF engine = "st" THEN "open" ELSE "posted"
               k == IF closed THEN NoSocket ELSE k1[z]
               r == IF closed THEN Failed(rec) ELSE rec
    <2>2. z # Null /\ z \in Socks /\ kernel[z].at = "up"
      BY <1>2, <1>14 DEF Works
    <2>3. kernel' = [s \in Socks |-> IF s = z THEN k ELSE kernel[s]]
      <3>1. CASE closed
        <4> HIDE DEF z, k1, rec
        <4>1. kernel' = [kernel EXCEPT ![z] = NoSocket] /\ k = NoSocket
          BY <2>1, <3>1
        <4> QED
          BY <2>2, <4>1, Known
      <3>2. CASE ~closed
        <4> HIDE DEF z, k1, rec
        <4>1. kernel' = k1 /\ k = k1[z]
          BY <2>1, <3>2
        <4> HIDE DEF k
        <4> QED
          BY <1>3, <4>1
      <3> QED
        BY <3>1, <3>2
    <2>4. attached' = [s \in Socks |-> IF s = z THEN a ELSE attached[s]]
      BY <2>1, <2>2 DEF LinksIInv, LinksTypeOK
    <2>5. link' = [link EXCEPT ![x] = r]
      BY <2>1
    <2>6. told' \in [Links -> 0 .. 2] /\ (\A l \in Links : l # x => told'[l] = told[l]) /\ (engine = "mt" => told'[x] <= 1)
      BY <2>1, ToldIs
    <2> HIDE DEF rec, z, k1
    <2>7. Outcome(x, next, z, r, k, a, FALSE, x)
      <3>1. CASE closed
        <4>1. engine = "st"
          BY <2>1, <3>1
        <4> QED
          BY <1>2, <1>4, <1>7, <1>8, <1>14, <2>2, <3>1, <4>1 DEF Outcome
      <3>2. CASE ~closed
        <4>1. r = rec /\ k = k1[z] /\ a \in {"posted", "open"} /\ (engine = "st" => a # "posted")
          BY <3>2
        <4> HIDE DEF a, k, r
        <4>2. /\ k \in KernelRecord /\ k.watched \in {Null, kernel[z].watched} /\ (k.news => k.watched # Null)
              /\ k.at = kernel[z].at /\ k.data = kernel[z].data /\ r.sock = z
              /\ engine = "mt" => k.watched # x
          <5>1. r.sock = z
            BY <4>1 DEF z
          <5> QED
            BY <1>3, <1>9, <2>2, <4>1, <5>1
        <4>3. /\ r \in SVR_CONNECT /\ r.tried /\ r.state \in {"connectting", "unconnectting", "connected"}
          BY <1>2, <1>4, <1>5, <1>14, <2>2, <4>1
        <4> QED
          BY <1>2, <1>14, <2>2, <4>1, <4>2, <4>3 DEF Outcome
      <3> QED
        BY <3>1, <3>2
    <2> HIDE DEF a, k, r
    <2>8. OutcomeDone(x, next, z, r, k, a, FALSE, x)
      BY <1>11, <2>1, <2>3, <2>4, <2>5, <2>6 DEF OutcomeDone
    <2> QED
      BY <2>7, <2>8, OutcomeKeeps
  <1>15. CASE rec.state # "deleted" /\ ~Works(z, readable, api) /\ engine = "st"
    <2>1. /\ link' = [link EXCEPT ![x] = Failed(rec)] /\ Tell(x)
          /\ kernel' = IF z = Null THEN k1 ELSE [k1 EXCEPT ![z] = NoSocket]
          /\ poll' = next /\ UNCHANGED <<tasks, attached, dangling>>
      BY <1>15 DEF ConnectIsFinished, Unwatched
    <2>2. AttachedAt(z) = "none"
      BY <1>2, <1>15
    <2>3. kernel' = [s \in Socks |-> IF s = z THEN NoSocket ELSE kernel[s]]
      <3>1. CASE z = Null
        <4>1. \A t \in Socks : t # z
          BY <3>1, Known
        <4> HIDE DEF z, k1
        <4> QED
          BY <1>3, <2>1, <3>1, <4>1
      <3>2. CASE z # Null
        BY <1>3, <2>1, <3>2
      <3> QED
        BY <3>1, <3>2
    <2>4. told' \in [Links -> 0 .. 2] /\ (\A l \in Links : l # x => told'[l] = told[l]) /\ (engine = "mt" => told'[x] <= 1)
      BY <2>1, ToldIs
    <2> HIDE DEF rec, z, k1
    <2>5. Outcome(x, next, z, Failed(rec), NoSocket, "none", FALSE, Null)
      BY <1>2, <1>7, <1>8, <1>15 DEF Outcome
    <2>6. OutcomeDone(x, next, z, Failed(rec), NoSocket, "none", FALSE, Null)
      BY <1>10, <1>11, <1>12, <1>15, <2>1, <2>2, <2>3, <2>4 DEF OutcomeDone
    <2> QED
      BY <2>5, <2>6, OutcomeKeeps
  <1>16. CASE rec.state # "deleted" /\ ~Works(z, readable, api) /\ engine = "mt"
    <2> DEFINE r == [rec EXCEPT !.state = "unconnectting"]
    <2>1. /\ link' = [link EXCEPT ![x] = r]
          /\ tasks' = tasks \union {<<"failed", x>>}
          /\ kernel' = k1
          /\ poll' = next /\ UNCHANGED <<told, attached, dangling>>
      BY <1>16 DEF ConnectIsFinished, Unwatched
    <2>2. z # Null /\ AttachedAt(z) = "none"
      BY <1>1, <1>2, <1>6, <1>16 DEF AttachedAt
    <2>3. told' \in [Links -> 0 .. 2] /\ (\A l \in Links : l # x => told'[l] = told[l]) /\ (engine = "mt" => told'[x] <= 1)
      BY <2>1, ToldIs
    <2> HIDE DEF rec, k1
    <2>4. r \in SVR_CONNECT /\ r.tried /\ r.state = "unconnectting" /\ r.sock = z
      BY <1>2 DEF SVR_CONNECT
    <2> HIDE DEF z, r
    <2>5. Outcome(x, next, z, r, k1[z], "none", TRUE, Null)
      <3>1. /\ k1[z] \in KernelRecord /\ k1[z].watched \in {Null, kernel[z].watched}
            /\ k1[z].news => k1[z].watched # Null
            /\ k1[z].at = kernel[z].at /\ k1[z].data = kernel[z].data /\ k1[z].watched # x
        BY <1>3, <1>9, <1>16, <2>2
      <3>2. z = link[x].sock /\ link[x].state # "deleted" /\ \A e \in ToSet(next.events) : e.link # x
        BY <1>2, <1>16
      <3> QED
        BY <1>16, <2>2, <2>4, <3>1, <3>2 DEF Outcome
    <2>6. OutcomeDone(x, next, z, r, k1[z], "none", TRUE, Null)
      BY <1>3, <1>10, <1>12, <1>16, <2>1, <2>2, <2>3 DEF OutcomeDone
    <2> QED
      BY <2>5, <2>6, OutcomeKeeps
  <1> QED
    BY <1>1, <1>13, <1>14, <1>15, <1>16

(* What is taken first from any list.                                      *)
LEMMA FirstTaken ==
  ASSUME NEW E, NEW q \in Seq(E), q # <<>>
  PROVE  /\ Tail(q) \in Seq(E) /\ Head(q) \in ToSet(q) /\ Head(q) = q[1] /\ 1 \in DOMAIN q
         /\ \A i \in DOMAIN Tail(q) : i \in Nat /\ i + 1 \in DOMAIN q /\ i + 1 # 1 /\ Tail(q)[i] = q[i + 1]
         /\ ToSet(Tail(q)) \subseteq ToSet(q)
         /\ \A e \in ToSet(Tail(q)) : \E i \in DOMAIN q : i # 1 /\ e = q[i]
  <1> DEFINE t == Tail(q)
             n == Len(q)
  <1>1. /\ n \in Nat \ {0} /\ t \in Seq(E) /\ DOMAIN t = 1 .. n - 1 /\ DOMAIN q = 1 .. n
        /\ Head(q) = q[1] /\ \A i \in 1 .. n - 1 : t[i] = q[i + 1]
    BY HeadTailProperties, LenProperties, EmptySeq
  <1> HIDE DEF t, n
  <1>2. \A i \in 1 .. n - 1 : i \in Nat /\ i + 1 \in 1 .. n /\ i + 1 # 1
    BY <1>1
  <1>3. 1 \in 1 .. n
    BY <1>1
  <1>4. \A e \in ToSet(t) : \E i \in DOMAIN q : i # 1 /\ e = q[i]
    BY <1>1, <1>2 DEF ToSet
  <1>5. ToSet(t) \subseteq ToSet(q) /\ q[1] \in ToSet(q)
    BY <1>1, <1>3, <1>4 DEF ToSet
  <1> QED
    BY <1>1, <1>2, <1>3, <1>4, <1>5 DEF t

(* The first of the links looked at in step A.                             *)
LEMMA ClientReady ==
  ASSUME LinksIInv, poll.pc = "A", poll.mark = Null, poll.clients # <<>>, NEW x, x = Head(poll.clients)
  PROVE  /\ Ready(x, Next2A) /\ Next2A.events = poll.events
         /\ x \in ToSet(poll.clients) /\ link[x].state = "connectting" /\ link[x].sock \in Socks
         /\ link[x].inEpoll \in BOOLEAN /\ attached[link[x].sock] = "none"
         /\ engine = "mt" => \A s \in Socks : kernel[s].watched = x => link[x].inEpoll
  <1>1. poll \in PollRecord /\ poll.clients \in Seq(Links) /\ IsInjective(poll.clients)
    BY Known DEF PollRecord, LinksIInv, RoundInv
  <1>2. /\ Tail(poll.clients) \in Seq(Links) /\ IsInjective(Tail(poll.clients)) /\ x \in ToSet(poll.clients)
        /\ ToSet(Tail(poll.clients)) = ToSet(poll.clients) \ {x}
    BY <1>1, TailIs
  <1>3. /\ Next2A \in PollRecord /\ Next2A.pc = poll.pc /\ Next2A.mark = Null /\ Next2A.count = poll.count
        /\ Next2A.clients = Tail(poll.clients) /\ Next2A.events = poll.events
    BY <1>1, <1>2 DEF PollRecord, Next2A
  <1>4. x \in Links /\ x # Null /\ link[x].state = "connectting" /\ link[x].sock \in Socks
    BY <1>2, Known DEF LinksIInv, RoundInv
  <1>5. link[x].tried /\ attached[link[x].sock] = "none" /\ link[x].sock # Null
    BY <1>4, Known DEF LinksIInv, StatesInv
  <1>6. link[x].inEpoll \in BOOLEAN
    BY <1>4, Known DEF SVR_CONNECT
  <1>7. engine = "mt" => \A s \in Socks : LET l == kernel[s].watched IN
          l # Null => l \in ToSet(poll.clients) /\ link[l].inEpoll
    BY DEF LinksIInv, ReportsInv
  <1>8. engine = "mt" => \A i, j \in DOMAIN poll.events : i # j => poll.events[i].link # poll.events[j].link
    BY DEF LinksIInv, ReportsInv
  <1>9. engine = "mt" => \A s \in Socks : kernel[s].watched = x => link[x].inEpoll
    BY <1>4, <1>7
  <1> HIDE DEF Next2A
  <1>10. Ready(x, Next2A)
    BY <1>2, <1>3, <1>4, <1>5, <1>7, <1>8 DEF Ready
  <1> QED
    BY <1>2, <1>3, <1>4, <1>5, <1>6, <1>9, <1>10

LEMMA StepAKeeps == ASSUME LinksIInv, StepA PROVE LinksIInv'
  <1> DEFINE x == Head(poll.clients)
             z == link[x].sock
  <1>1. /\ poll.pc = "A" /\ poll.mark = Null /\ poll.clients # <<>>
        /\ UNCHANGED <<engine, signal, start, faults, tries>>
    BY DEF StepA
  <1>2. /\ Ready(x, Next2A) /\ Next2A.events = poll.events
        /\ x \in ToSet(poll.clients) /\ link[x].state = "connectting" /\ z \in Socks
        /\ link[x].inEpoll \in BOOLEAN /\ attached[z] = "none"
        /\ engine = "mt" => \A s \in Socks : kernel[s].watched = x => link[x].inEpoll
    BY <1>1, ClientReady
  <1>3. x \in Links /\ z # Null /\ AttachedAt(z) = "none"
    BY <1>2, Known DEF AttachedAt
  <1>4. CASE ~Untaken(x)
    <2>r. PICK u \in BOOLEAN : u = link[x].inEpoll
      BY <1>2
    <2> DEFINE rec == [link[x] EXCEPT !.inEpoll = FALSE]
               k1  == Unwatched(z, u)
    <2>0. u = TRUE
      BY <1>4, <2>r DEF Untaken
    <2>1. /\ link' = [link EXCEPT ![x] = rec]
          /\ kernel' = k1
          /\ poll' = Next2A
          /\ UNCHANGED <<attached, tasks, told, dangling>>
      BY <1>4, <2>0 DEF StepA, Unwatched
    <2>2. /\ rec \in SVR_CONNECT /\ rec.state = link[x].state /\ rec.sock = z /\ rec.tried
      BY <1>2, <1>3, LooksIs DEF Ready
    <2>3. /\ k1 = [t \in Socks |-> IF t = z THEN k1[z] ELSE kernel[t]]
          /\ k1[z] \in KernelRecord /\ k1[z].at = kernel[z].at /\ k1[z].data = kernel[z].data
          /\ k1[z].watched = Null /\ ~k1[z].news
      <3>1. z \in Socks \union {Null}
        BY <1>2
      <3>2. u \in BOOLEAN /\ z \in Socks /\ z # Null
        BY <1>2, <1>3
      <3> HIDE DEF z, k1, x, rec
      <3>3. /\ k1 = [t \in Socks |-> IF t = z THEN k1[z] ELSE kernel[t]]
            /\ z # Null => /\ k1[z] \in KernelRecord /\ k1[z].at = kernel[z].at /\ k1[z].data = kernel[z].data
                           /\ k1[z].watched = IF u THEN Null ELSE kernel[z].watched
                           /\ k1[z].news => k1[z].watched # Null
                           /\ [k1 EXCEPT ![z] = NoSocket] = [t \in Socks |-> IF t = z THEN NoSocket ELSE kernel[t]]
        BY <3>1, <3>2, UnwatchedAt DEF k1
      <3> QED
        <4>1. k1[z] \in KernelRecord /\ k1[z].watched = Null
          BY <2>0, <3>2, <3>3
        <4>2. k1[z].news \in BOOLEAN
          BY <4>1 DEF KernelRecord
        <4> QED
          BY <3>2, <3>3, <4>1, <4>2
    <2>4. attached = [s \in Socks |-> IF s = z THEN "none" ELSE attached[s]]
      BY <1>2, <1>3, AttachedSame
    <2>5. tasks = tasks \union (IF FALSE THEN {<<"failed", x>>} ELSE {})
      OBVIOUS
    <2>6. Next2A = [Next2A EXCEPT !.mark = Null]
      BY <1>2 DEF Ready, PollRecord
    <2>7. told' \in [Links -> 0 .. 2] /\ (\A l \in Links : l # x => told'[l] = told[l]) /\ (engine = "mt" => told'[x] <= 1)
      BY <1>2, <2>1, ToldIs
    <2>8. x # Null
      BY <1>3, Known
    <2> HIDE DEF rec, k1, z, x
    <2>9. Outcome(x, Next2A, z, rec, k1[z], "none", FALSE, Null)
      BY <1>2, <1>3, <2>2, <2>3, <2>8 DEF Outcome, z
    <2>10. OutcomeDone(x, Next2A, z, rec, k1[z], "none", FALSE, Null)
      BY <1>1, <2>1, <2>3, <2>4, <2>5, <2>6, <2>7 DEF OutcomeDone
    <2> QED
      BY <1>2, <2>9, <2>10, OutcomeKeeps
  <1>5. CASE Untaken(x)
    <2>1. ConnectIsFinished(x, link[x].inEpoll, TRUE, IF link[x].inEpoll THEN 0 ELSE 1, Next2A)
      BY <1>5 DEF StepA
    <2>2. engine = "mt" => \A e \in ToSet(Next2A.events) : e.link # x
      <3> SUFFICES ASSUME engine = "mt", NEW e \in ToSet(poll.events), e.link = x PROVE FALSE
        BY <1>2
      <3>1. link[x].inEpoll
        BY <1>1, <1>2 DEF LinksIInv, ReportsInv
      <3>2. poll.events # <<>>
        BY DEF ToSet
      <3>3. poll.count > 0 /\ poll.count \in Nat
        BY <3>2, Known DEF LinksIInv, RoundInv, PollRecord
      <3> QED
        BY <1>5, <3>1, <3>3 DEF Untaken
    <2> HIDE DEF x
    <2> QED
      BY <1>1, <1>2, <1>3, <2>1, <2>2, FinishedKeeps
  <1> QED
    BY <1>4, <1>5

LEMMA StepBKeeps == ASSUME LinksIInv, StepB PROVE LinksIInv'
  <1> DEFINE q == poll.events
             e == Head(q)
             x == e.link
             R == [link : Links, readable : BOOLEAN]
  <1>1. /\ poll.pc = "B" /\ poll.mark = Null /\ q # <<>>
        /\ ConnectIsFinished(x, FALSE, e.readable, poll.count, Next2B)
        /\ UNCHANGED <<engine, signal, start, faults, tries>>
    BY DEF StepB
  <1>2. poll \in PollRecord /\ q \in Seq(R)
    BY Known DEF PollRecord
  <1>3. /\ Tail(q) \in Seq(R) /\ e \in ToSet(q) /\ e = q[1] /\ 1 \in DOMAIN q
        /\ \A i \in DOMAIN Tail(q) : i \in Nat /\ i + 1 \in DOMAIN q /\ i + 1 # 1 /\ Tail(q)[i] = q[i + 1]
        /\ ToSet(Tail(q)) \subseteq ToSet(q)
        /\ \A d \in ToSet(Tail(q)) : \E i \in DOMAIN q : i # 1 /\ d = q[i]
    <2> HIDE DEF R
    <2> QED
      BY <1>1, <1>2, FirstTaken
  <1>4. /\ Next2B \in PollRecord /\ Next2B.pc = poll.pc /\ Next2B.mark = Null /\ Next2B.count = poll.count
        /\ Next2B.clients = poll.clients /\ Next2B.events = Tail(q)
    BY <1>1, <1>2, <1>3 DEF PollRecord, Next2B
  <1>5. x \in Links /\ link[x].tried /\ (e.readable => \A s \in Socks : Has(x, s) => kernel[s].data)
    BY <1>3, Known DEF LinksIInv, RoundInv
  <1>6. engine = "mt" => /\ \A i, j \in DOMAIN q : i # j => q[i].link # q[j].link
                         /\ link[x].state = "connectting"
                         /\ \A s \in Socks : kernel[s].watched = Null
    BY <1>1, <1>3 DEF LinksIInv, ReportsInv
  <1>7. engine = "mt" => \A i, j \in DOMAIN Tail(q) : i # j => Tail(q)[i].link # Tail(q)[j].link
    <2> SUFFICES ASSUME engine = "mt", NEW i \in DOMAIN Tail(q), NEW j \in DOMAIN Tail(q), i # j
                 PROVE  Tail(q)[i].link # Tail(q)[j].link
      OBVIOUS
    <2>1. i \in Nat /\ j \in Nat /\ i + 1 \in DOMAIN q /\ j + 1 \in DOMAIN q
          /\ Tail(q)[i] = q[i + 1] /\ Tail(q)[j] = q[j + 1]
      BY <1>3
    <2>2. i + 1 # j + 1
      BY <2>1
    <2> QED
      BY <1>6, <2>1, <2>2
  <1>8. engine = "mt" => \A d \in ToSet(Tail(q)) : d.link # x
    BY <1>3, <1>6
  <1>9. x # Null
    BY <1>5, Known
  <1> HIDE DEF q, e, x, R, Next2B
  <1>10. Ready(x, Next2B)
    BY <1>1, <1>3, <1>4, <1>5, <1>6, <1>7 DEF Ready, q
  <1>11. ASSUME link[x].state # "deleted", AttachedAt(link[x].sock) # "none"
         PROVE  Works(link[x].sock, e.readable, poll.count)
    <2>1. link[x].sock \in Socks /\ link[x].sock # Null /\ attached[link[x].sock] # "none"
      BY <1>5, <1>11, Known DEF AttachedAt
    <2>2. kernel[link[x].sock].at = "up" /\ (e.readable => kernel[link[x].sock].data)
      BY <1>5, <1>11, <2>1 DEF LinksIInv, SocketsInv, Has
    <2>3. poll.count > 0
      BY <1>1 DEF LinksIInv, RoundInv, q
    <2> QED
      BY <2>1, <2>2, <2>3 DEF Works
  <1> QED
    BY <1>1, <1>4, <1>6, <1>8, <1>9, <1>10, <1>11, FinishedKeeps

LEMMA StepKeepsLinks == ASSUME LinksIInv, LinksNext PROVE LinksIInv'
  <1>1. CASE Network
    BY <1>1, NetworkKeeps
  <1>2. CASE Server
    <2>1. PICK l \in Links : Connect(l)
      BY <1>2 DEF Server
    <2>2. /\ Idle /\ Try(l)
          /\ MayTry(l)
      BY <2>1 DEF Connect, MayTry
    <2> QED
      BY <2>2, TryKeeps
  <1>3. CASE Main
    BY <1>3, TryKeeps, DeleteLinkKeeps DEF Main, ConnectAgain, MayTry
  <1>4. CASE Poller
    <2>1. CASE Select
      BY <2>1, WatchKeeps DEF Select
    <2>2. CASE ConnectThread
      BY <2>2, WatchKeeps DEF ConnectThread
    <2>3. CASE WaitReturns \/ WaitEnds \/ Later
      BY <2>3, WaitReturnsKeeps, WaitEndsKeeps, LaterKeeps
    <2>4. CASE StepA \/ EndA \/ StepB \/ EndB
      BY <2>4, StepAKeeps, EndAKeeps, StepBKeeps, EndBKeeps
    <2>5. CASE MarkConnected \/ Wake \/ Again
      BY <2>5, MarkConnectedKeeps, WakeKeeps, AgainKeeps
    <2> QED
      BY <1>4, <2>1, <2>2, <2>3, <2>4, <2>5 DEF Poller
  <1>5. CASE Workers
    BY <1>5, ConnectFailedKeeps, CloseFailedKeeps, ConnectWorkerKeeps, CloseWorkerKeeps, CloseLinkSocketKeeps DEF Workers
  <1>6. CASE \E s \in Socks : CloseLink(s)
    BY <1>6, CloseLinkKeeps
  <1> QED
    BY <1>1, <1>2, <1>3, <1>4, <1>5, <1>6 DEF LinksNext

(* A step that changes nothing.                                            *)
LEMMA StutterKeepsLinks == ASSUME LinksIInv, UNCHANGED linksVars PROVE LinksIInv'
  <1> USE DEF linksVars
  <1>1. LinksTypeOK'
    BY DEF LinksIInv, LinksTypeOK
  <1>2. SocketsInv' /\ StatesInv' /\ ToldInv' /\ NoSocketLost'
    BY DEF LinksIInv, SocketsInv, StatesInv, ToldInv, NoSocketLost
  <1>3. TasksInv' /\ RoundInv'
    BY DEF LinksIInv, TasksInv, RoundInv, Has
  <1>4. ReportsInv'
    BY DEF LinksIInv, ReportsInv
  <1> QED
    BY <1>1, <1>2, <1>3, <1>4 DEF LinksIInv

(* All of it holds at every moment (NetEngine.cpp and STNetEngine.cpp,     *)
(* the functions on m_keepIPList and m_wakeConnectThread).                 *)
THEOREM LinksIInvHolds == LinksSpec => []LinksIInv
  <1>1. LinksIInv /\ [LinksNext]_linksVars => LinksIInv'
    BY StepKeepsLinks, StutterKeepsLinks
  <1> QED
    BY InitLinks, <1>1, PTL DEF LinksSpec

(* What the engines assert holds: a link that waits for a result has a     *)
(* socket, a socket given to epoll is there when it is taken out; no       *)
(* socket of a link is lost or shared, and the server of the               *)
(* multi-threaded engine hears of an attempt once.                         *)
THEOREM LinksInvHolds == LinksSpec => []LinksInv
  <1>1. ASSUME LinksIInv PROVE LinksInv
    <2>1. LinksTypeOK /\ NoSocketLost
      BY <1>1 DEF LinksIInv
    <2>2. \A l \in Links : link[l].state = "connectting" => link[l].sock # Null
      BY <1>1 DEF LinksIInv, StatesInv
    <2>3. poll.pc = "A" => \A l \in ToSet(poll.clients) :
            link[l].inEpoll => link[l].sock # Null /\ kernel[link[l].sock].watched = l
      BY <1>1, <2>2, Known DEF LinksIInv, RoundInv
    <2>4. ToldOnce
      BY <1>1 DEF LinksIInv, ToldInv, ToldOnce
    <2> QED
      BY <2>1, <2>2, <2>3, <2>4 DEF LinksInv, Asserted
  <1>2. LinksIInv => LinksInv
    BY <1>1
  <1> QED
    BY LinksIInvHolds, <1>2, PTL
=============================================================================
