------------------------------ MODULE SendFlow ------------------------------
(***************************************************************************)
(* Sending on one connection of the multi-threaded network engine (mdk     *)
(* NetConnect, IOBuffer, IOBufferBlock, EpollFrame, EpollMonitor).          *)
(*                                                                         *)
(* A thread that sends writes to the socket when nothing is waiting, and    *)
(* puts what the socket does not take into the send buffer, from which the *)
(* threads that wait for sockets to become writable send it on.  The       *)
(* senders exclude each other by m_sendMutex; a sender and a monitor share *)
(* the buffer without a lock, and m_nSendCount is to see to it that one     *)
(* monitor at a time is sending and that none stops too early.             *)
(*                                                                         *)
(* A byte is the pair of its sender and a number.  A block of the buffer   *)
(* holds Block bytes and the socket Room bytes the peer has not taken.     *)
(***************************************************************************)
EXTENDS Integers, SequencesExt

CONSTANTS
  Senders,   \* threads of the server that send on the connection
  Monitors,  \* threads of m_ioThreads in SendAbleMonitor
  Connector, \* the worker that calls OnConnect
  Block,     \* BUFBLOCK_SIZE
  Room,      \* what the socket takes when the peer reads nothing
  Sizes,     \* lengths of the messages of each sender
  MaxSent,   \* bound of the model: bytes each sender sends
  None

Threads == Senders \union Monitors \union {Connector}

ASSUME SendAssumption ==
  /\ Block \in Nat \ {0} /\ Room \in Nat \ {0}
  /\ Sizes \in [Senders -> SUBSET (Nat \ {0})] /\ MaxSent \in [Senders -> Nat]
  /\ Senders \intersect Monitors = {} /\ Connector \notin Senders \union Monitors
  /\ None \notin Threads

VARIABLES
  listed,    \* the connection is in m_connectList
  connected, \* m_bConnect
  socket,    \* "open", "reset" by the peer, or "closed"
  room,      \* bytes the socket takes now
  armed,     \* epoll reports that the socket is writable
  count,     \* m_nSendCount
  mutex,     \* who holds m_sendMutex, or None
  blocks,    \* m_recvBufferList of the send buffer; the last is the one written to
  size,      \* m_uDataSize of the send buffer
  pc,        \* what each thread does next
  rest,      \* bytes a sender has still to put somewhere
  part,      \* bytes a monitor has read to send
  sent,      \* of these, how many it has still to take out of the buffer
  more,      \* cs of EpollFrame::SendData is ok: there was more than a block,
             \* and all that was read has been sent
  said,      \* bytes in the order their senders got the mutex (history)
  wire       \* bytes the socket has taken (history)

connection == <<listed, connected, socket>>
buffer     == <<blocks, size>>
sending    == <<part, sent, more>>
vars == <<connection, room, armed, count, mutex, buffer, pc, rest, sending, said, wire>>

NewBlock == [bytes |-> <<>>, pos |-> 0]

Init ==
  /\ listed = TRUE /\ connected = TRUE /\ socket = "open"
  /\ room = Room
  /\ armed = FALSE
  /\ count = 0
  /\ mutex = None
  /\ blocks = <<>> /\ size = 0
  /\ pc = [t \in Threads |-> IF t = Connector THEN "sendStart" ELSE "idle"]
  /\ rest = [s \in Senders |-> <<>>]
  /\ part = [m \in Monitors |-> <<>>]
  /\ sent = [m \in Monitors |-> 0]
  /\ more = [m \in Monitors |-> FALSE]
  /\ said = <<>> /\ wire = <<>>

Go(t, from, to) == pc[t] = from /\ pc' = [pc EXCEPT ![t] = to]

Smaller(m, n) == IF m < n THEN m ELSE n

First(s, n) == SubSeq(s, 1, n)
Rest(s, n)  == SubSeq(s, n + 1, Len(s))

(* SendStart: the one who finds 0 starts the flow.                         *)
SendStartAlways(t, from, first, other) ==   \* mutant: whatever is running
  /\ Go(t, from, first)
  /\ count' = count + 1

SendStart(t, from, first, other) ==
  /\ Go(t, from, IF count = 0 THEN first ELSE other)
  /\ count' = count + 1

(* EpollMonitor::AddSend, which fails when the socket is closed.           *)
AddSend == armed' = (armed \/ socket # "closed")

(* Socket::Send: the system takes what it has room for.                    *)
Transmit(bytes) ==
  LET n == Smaller(Len(bytes), room) IN
    /\ wire' = wire \o First(bytes, n)
    /\ room' = room - n

-----------------------------------------------------------------------------
(* ConnectWorker: the flow is started before the server knows of the       *)
(* connection, and the first event ends it.                                *)
StartFirst ==
  /\ SendStart(Connector, "sendStart", "addSendable", "addSendable")
  /\ UNCHANGED <<connection, room, armed, mutex, buffer, rest, sending, said, wire>>

AddSendableMonitor ==
  /\ Go(Connector, "addSendable", "done")
  /\ AddSend
  /\ UNCHANGED <<connection, room, count, mutex, buffer, rest, sending, said, wire>>

(* The server sends by a NetHost, by the id of the connection, or to a     *)
(* group the connection is in; the last two look at the list first.        *)
Sent(s) == Cardinality({i \in DOMAIN said : said[i][1] = s})

NewBytes(s, n) == [i \in 1..n |-> <<s, Sent(s) + i>>]

Say(s, to) ==
  \E n \in Sizes[s] :
    /\ Sent(s) + n <= MaxSent[s]
    /\ pc[Connector] = "done"
    /\ Go(s, "idle", to)
    /\ rest' = [rest EXCEPT ![s] = NewBytes(s, n)]

Send(s) == Say(s, "lock")

SendMsg(s) == listed /\ Say(s, "check")

CheckConnected(s) ==
  /\ Go(s, "check", IF connected THEN "lock" ELSE "idle")
  /\ rest' = IF connected THEN rest ELSE [rest EXCEPT ![s] = <<>>]

Ask(s) ==
  /\ Send(s) \/ SendMsg(s) \/ CheckConnected(s)
  /\ UNCHANGED <<connection, room, armed, count, mutex, buffer, sending, said, wire>>

-----------------------------------------------------------------------------
(* NetConnect::SendData.                                                   *)
LockAndSend(s) ==   \* mutant: what waits in the buffer is overtaken
  /\ mutex = None
  /\ mutex' = s
  /\ Go(s, "lock", "direct")
  /\ said' = said \o rest[s]
  /\ UNCHANGED <<connection, room, armed, count, buffer, rest, sending, wire>>

Lock(s) ==
  /\ mutex = None
  /\ mutex' = s
  /\ Go(s, "lock", IF size = 0 THEN "direct" ELSE "store")
  /\ said' = said \o rest[s]
  /\ UNCHANGED <<connection, room, armed, count, buffer, rest, sending, wire>>

Unlock == mutex' = None

SendDirect(s) ==
  /\ socket = "open"
  /\ Transmit(rest[s])
  /\ rest' = [rest EXCEPT ![s] = Rest(@, Smaller(Len(@), room))]
  /\ Go(s, "direct", IF Len(rest[s]) <= room THEN "idle" ELSE "store")
  /\ IF Len(rest[s]) <= room THEN Unlock ELSE UNCHANGED mutex
  /\ UNCHANGED <<connection, armed, count, buffer, sending, said>>

SendFails(s) ==
  /\ socket # "open"
  /\ Go(s, "direct", "idle")
  /\ Unlock
  /\ rest' = [rest EXCEPT ![s] = <<>>]
  /\ UNCHANGED <<connection, room, armed, count, buffer, sending, said, wire>>

Chunk(s) == First(rest[s], Smaller(Len(rest[s]), Block))

(* PrepareBuffer: a chunk that does not fit in the last block starts a new *)
(* one.                                                                    *)

HasSpace(chunk) == blocks # <<>> /\ Len(Last(blocks).bytes) + Len(chunk) <= Block

PrepareBuffer(s) ==
  /\ Go(s, "store", "write")
  /\ blocks' = IF HasSpace(Chunk(s)) THEN blocks ELSE Append(blocks, NewBlock)
  /\ UNCHANGED <<connection, room, armed, count, mutex, size, rest, sending, said, wire>>

(* memcpy and IOBufferBlock::WriteFinished.                                *)
Write(s) ==
  /\ Go(s, "write", "count")
  /\ blocks' = [blocks EXCEPT ![Len(blocks)].bytes = @ \o Chunk(s)]
  /\ UNCHANGED <<connection, room, armed, count, mutex, size, rest, sending, said, wire>>

WriteFinished(s) ==
  /\ Go(s, "count", IF Len(rest[s]) > Block THEN "store" ELSE "start")
  /\ size' = size + Len(Chunk(s))
  /\ rest' = [rest EXCEPT ![s] = Rest(@, Len(Chunk(s)))]
  /\ UNCHANGED <<connection, room, armed, count, mutex, blocks, sending, said, wire>>

StartFlow(s) ==
  /\ SendStart(s, "start", "add", "unlock")
  /\ UNCHANGED <<connection, room, armed, mutex, buffer, rest, sending, said, wire>>

Add(s) ==
  /\ Go(s, "add", "unlock")
  /\ AddSend
  /\ UNCHANGED <<connection, room, count, mutex, buffer, rest, sending, said, wire>>

Return(s) ==
  /\ Go(s, "unlock", "idle")
  /\ Unlock
  /\ UNCHANGED <<connection, room, armed, count, buffer, rest, sending, said, wire>>

SendData(s) ==
  \/ Lock(s) \/ SendDirect(s) \/ SendFails(s)
  \/ PrepareBuffer(s) \/ Write(s) \/ WriteFinished(s)
  \/ StartFlow(s) \/ Add(s) \/ Return(s)

-----------------------------------------------------------------------------
(* A monitor gets the event, which is reported once, and calls OnSend      *)
(* until the connection has no more to send now.                           *)
Writable == armed /\ (socket = "reset" \/ (socket = "open" /\ room > 0))

WaitSendable(m) ==
  /\ Writable
  /\ armed' = FALSE
  /\ Go(m, "idle", "find")
  /\ UNCHANGED <<connection, room, count, mutex, buffer, rest, sending, said, wire>>

OnSend(m) ==
  /\ Go(m, "find", IF listed THEN "connected" ELSE "idle")
  /\ UNCHANGED <<connection, room, armed, count, mutex, buffer, rest, sending, said, wire>>

CheckBeforeSend(m) ==
  /\ Go(m, "connected", IF connected THEN "length" ELSE "idle")
  /\ UNCHANGED <<connection, room, armed, count, mutex, buffer, rest, sending, said, wire>>

(* EpollFrame::SendData reads a block of bytes at most, without taking     *)
(* them out of the buffer.                                                 *)
Left(b) == Rest(b.bytes, b.pos)

Held == FlattenSeq([i \in DOMAIN blocks |-> Left(blocks[i])])

Peek(m) ==
  /\ Go(m, "length", IF size = 0 THEN "end" ELSE "send")
  /\ part' = [part EXCEPT ![m] = First(Held, Smaller(size, Block))]
  /\ more' = [more EXCEPT ![m] = size > Block]
  /\ UNCHANGED <<connection, room, armed, count, mutex, buffer, rest, sent, said, wire>>

SendPart(m) ==
  /\ socket = "open"
  /\ Transmit(part[m])
  /\ sent' = [sent EXCEPT ![m] = Smaller(Len(part[m]), room)]
  /\ more' = [more EXCEPT ![m] = @ /\ Len(part[m]) <= room]
  /\ Go(m, "send", IF room > 0 THEN "delete" ELSE "end")
  /\ UNCHANGED <<connection, armed, count, mutex, buffer, rest, part, said>>

PartFails(m) ==
  /\ socket # "open"
  /\ Go(m, "send", "idle")
  /\ part' = [part EXCEPT ![m] = <<>>]
  /\ more' = [more EXCEPT ![m] = FALSE]
  /\ UNCHANGED <<connection, room, armed, count, mutex, buffer, rest, sent, said, wire>>

(* IOBuffer::ReadData takes what was sent out block by block; a block is   *)
(* deleted when something is needed from the one after it.                 *)
FirstLeft == Len(Left(Head(blocks)))

AfterSend(m) == IF more[m] THEN "find" ELSE "end"

TakeAndDelete(m) ==   \* mutant: a block is deleted as soon as it is used up
  /\ sent' = [sent EXCEPT ![m] = 0]
  /\ blocks' = IF FirstLeft = sent[m] THEN Tail(blocks) ELSE [blocks EXCEPT ![1].pos = @ + sent[m]]
  /\ size' = size - sent[m]

TakeLast(m) ==
  /\ sent' = [sent EXCEPT ![m] = 0]
  /\ blocks' = [blocks EXCEPT ![1].pos = @ + sent[m]]
  /\ size' = size - sent[m]

TakeBlock(m) ==
  /\ sent' = [sent EXCEPT ![m] = @ - FirstLeft]
  /\ blocks' = Tail(blocks)
  /\ size' = size - FirstLeft

ReadData(m) ==
  /\ pc[m] = "delete"
  /\ \/ /\ sent[m] <= FirstLeft
        /\ TakeLast(m)
        /\ pc' = [pc EXCEPT ![m] = AfterSend(m)]
     \/ /\ sent[m] > FirstLeft
        /\ TakeBlock(m)
        /\ UNCHANGED pc
  /\ UNCHANGED <<connection, room, armed, count, mutex, rest, part, more, said, wire>>

(* SendEnd, and then whether somebody has written to the buffer since.     *)
SendEnd(m) ==
  /\ Go(m, "end", "look")
  /\ count' = 0
  /\ part' = [part EXCEPT ![m] = <<>>]
  /\ more' = [more EXCEPT ![m] = FALSE]
  /\ UNCHANGED <<connection, room, armed, mutex, buffer, rest, sent, said, wire>>

LookNot(m) ==   \* mutant: what came in the meantime is not looked for
  /\ Go(m, "look", "idle")
  /\ UNCHANGED <<connection, room, armed, count, mutex, buffer, rest, sending, said, wire>>

Look(m) ==
  /\ Go(m, "look", IF size = 0 THEN "idle" ELSE "restart")
  /\ UNCHANGED <<connection, room, armed, count, mutex, buffer, rest, sending, said, wire>>

Restart(m) ==
  /\ SendStart(m, "restart", "again", "idle")
  /\ UNCHANGED <<connection, room, armed, mutex, buffer, rest, sending, said, wire>>

AddAgain(m) ==
  /\ Go(m, "again", "idle")
  /\ AddSend
  /\ UNCHANGED <<connection, room, count, mutex, buffer, rest, sending, said, wire>>

SendAbleMonitor(m) ==
  \/ WaitSendable(m) \/ OnSend(m) \/ CheckBeforeSend(m)
  \/ Peek(m) \/ SendPart(m) \/ PartFails(m) \/ ReadData(m)
  \/ SendEnd(m) \/ Look(m) \/ Restart(m) \/ AddAgain(m)

-----------------------------------------------------------------------------
(* The peer reads or resets the connection; the server closes it: off the  *)
(* list, then m_bConnect, and a worker closes the socket in the end.       *)
PeerReads ==
  /\ room < Room
  /\ room' = Room
  /\ UNCHANGED <<connection, armed, count, mutex, buffer, pc, rest, sending, said, wire>>

PeerResets ==
  /\ socket = "open"
  /\ socket' = "reset"
  /\ UNCHANGED <<listed, connected, room, armed, count, mutex, buffer, pc, rest, sending, said, wire>>

CloseConnect ==
  /\ pc[Connector] = "done"
  /\ listed
  /\ listed' = FALSE
  /\ UNCHANGED <<connected, socket, room, armed, count, mutex, buffer, pc, rest, sending, said, wire>>

SetUnconnected ==
  /\ ~listed /\ connected
  /\ connected' = FALSE
  /\ UNCHANGED <<listed, socket, room, armed, count, mutex, buffer, pc, rest, sending, said, wire>>

CloseSocket ==
  /\ ~connected /\ socket # "closed"
  /\ socket' = "closed" /\ armed' = FALSE
  /\ UNCHANGED <<listed, connected, room, count, mutex, buffer, pc, rest, sending, said, wire>>

Next ==
  \/ StartFirst \/ AddSendableMonitor
  \/ \E s \in Senders : Ask(s) \/ SendData(s)
  \/ \E m \in Monitors : SendAbleMonitor(m)
  \/ PeerReads \/ PeerResets
  \/ CloseConnect \/ SetUnconnected \/ CloseSocket

Spec == Init /\ [][Next]_vars

(* The threads of the engine go on, and the peer reads.                    *)
Fairness ==
  /\ WF_vars(StartFirst) /\ WF_vars(AddSendableMonitor)
  /\ \A s \in Senders : WF_vars(SendData(s)) /\ WF_vars(CheckConnected(s) /\ Ask(s))
  /\ \A m \in Monitors : WF_vars(SendAbleMonitor(m))
  /\ WF_vars(PeerReads)

LiveSpec == Spec /\ Fairness

-----------------------------------------------------------------------------
SenderSteps == {"idle", "check", "lock", "direct", "store", "write", "count", "start", "add", "unlock"}

MonitorSteps ==
  {"idle", "find", "connected", "length", "send", "delete", "end", "look", "restart", "again"}

Bytes == {b \in Senders \X Nat : b[2] \in 1..MaxSent[b[1]]}

(* What the variables hold: in particular no block holds more than its     *)
(* size, and m_uDataSize never goes below zero.                            *)
Blocks == [bytes : Seq(Bytes), pos : Nat]

TypeOK ==
  /\ listed \in BOOLEAN /\ connected \in BOOLEAN /\ armed \in BOOLEAN
  /\ socket \in {"open", "reset", "closed"}
  /\ room \in 0..Room
  /\ count \in Nat
  /\ mutex \in Senders \union {None}
  /\ blocks \in Seq(Blocks) /\ size \in Nat
  /\ \A i \in DOMAIN blocks : Len(blocks[i].bytes) <= Block /\ blocks[i].pos <= Len(blocks[i].bytes)
  /\ pc[Connector] \in {"sendStart", "addSendable", "done"}
  /\ \A s \in Senders : pc[s] \in SenderSteps
  /\ \A m \in Monitors : pc[m] \in MonitorSteps
  /\ rest \in [Senders -> Seq(Bytes)] /\ part \in [Monitors -> Seq(Bytes)]
  /\ sent \in [Monitors -> Nat] /\ more \in [Monitors -> BOOLEAN]
  /\ \A m \in Monitors : Len(part[m]) <= Block /\ sent[m] <= Len(part[m])
  /\ said \in Seq(Bytes) /\ wire \in Seq(Bytes)

(* "Only one sending flow is allowed" (NetConnect.cpp:175): the one who     *)
(* has begun a flow hands it over to epoll, epoll to a monitor, and the     *)
(* monitor back; there is one of them, and while there is, m_nSendCount    *)
(* keeps others from beginning.                                            *)
FlowSteps == MonitorSteps \ {"idle", "look", "restart"}

Carriers ==
  {m \in Monitors : pc[m] \in FlowSteps} \union {s \in Senders : pc[s] = "add"}
    \union {c \in {Connector} : pc[c] = "addSendable"} \union {n \in {None} : armed}

OneFlow ==
  /\ \A a, b \in Carriers : a = b
  /\ Carriers # {} => count > 0

(* Bytes reach the socket in the order in which their senders got the      *)
(* mutex, none twice and none left out, whoever sends them.                *)
InOrder == IsPrefix(wire, said)

(* "Reading and writing at the same time never conflict, without a lock"   *)
(* (IOBuffer.cpp:132): the block a sender writes to is not deleted, and a  *)
(* monitor that takes a block out never needs more of it than it holds.    *)
Apart ==
  /\ mutex # None /\ pc[mutex] = "write" => HasSpace(Chunk(mutex))
  /\ \A m \in Monitors : pc[m] = "delete" => sent[m] <= size /\ size <= Len(Held)

(* Nothing is left behind: as long as the connection lasts, all that was    *)
(* said gets to the socket.                                                *)
AllSent == <>[](wire = said \/ socket # "open" \/ ~listed)

(* What holds of the send buffer at every moment.                          *)
Inv == TypeOK /\ Apart
=============================================================================
