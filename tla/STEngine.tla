----------------------------- MODULE STEngine -----------------------------
(***************************************************************************)
(* The single-threaded network engine (mdk STNetEngine, STNetConnect,      *)
(* STNetHost, STEpoll), on which the nodes of GMap run: connections that   *)
(* clients open, over one process's socket numbers.                        *)
(*                                                                         *)
(* One thread waits for events, accepts, receives, sends, runs the         *)
(* handlers of the server and the heart beat.  Handlers call back into the *)
(* engine, close connections in the middle of it and so nest; `stack` has  *)
(* the calls that are open.  A connection is known by the number of its    *)
(* socket, which the system uses again as soon as it is closed.            *)
(*                                                                         *)
(* Between two steps of the thread the clients and the kernel do what they *)
(* like.  Connections to other servers are in module ServerLinks.          *)
(***************************************************************************)
EXTENDS Naturals, FiniteSetsExt, SequencesExt

CONSTANTS
  Conns,      \* connections clients will open
  Fds,        \* socket numbers
  Block,      \* BUFBLOCK_SIZE, what is sent at once
  RecvMax,    \* what is received before other connections have their turn (1 MB)
  Room,       \* what the kernel takes before the client reads
  MaxIn,      \* bound of the model: what each client sends
  MaxOut,     \* bound of the model: what the server sends to each client
  Sizes,      \* bound of the model: lengths of messages, received and sent
  MaxFaults,  \* bound of the model: system calls that fail
  Faulty,     \* bound of the model: connections for which they do
  None

ASSUME STAssumption ==
  /\ IsFiniteSet(Conns) /\ Fds \subseteq Nat /\ IsFiniteSet(Fds)
  /\ {Block, RecvMax, Room} \subseteq Nat \ {0}
  /\ MaxIn \in [Conns -> Nat] /\ MaxOut \in [Conns -> Nat] /\ MaxFaults \in Nat
  /\ Faulty \subseteq Conns /\ Sizes \subseteq Nat \ {0}
  /\ None \notin Conns \union Fds

VARIABLES
  peer,       \* each client: where it is, what it has sent and not read
  backlog,    \* connections the kernel has and nobody has accepted
  edge,       \* the listening socket has news (it is watched edge-triggered)
  conn,       \* the STNetConnect of each connection, its socket and what epoll knows of it
  table,      \* m_connectList: socket number -> connection
  ioList,     \* m_ioList: socket number -> "r", "w"
  turns,      \* what is left of the pass over m_ioList
  pc,         \* where the main loop is
  stack,      \* the calls in progress, the innermost first
  kept,       \* connections of which the server keeps an STNetHost
  stop,       \* m_stop
  faults,     \* system calls that have failed
  refused,    \* connections epoll has not taken (history)
  told        \* the callbacks of each connection (history)

vars == <<peer, backlog, edge, conn, table, ioList, turns, pc, stack, kept, stop, faults,
          refused, told>>

-----------------------------------------------------------------------------
(* A connection: the fields of its object, its socket, what has been sent  *)
(* and said, and what epoll knows: is it watched, and for which events.    *)
STNetConnects ==
  [sock : Fds \union {None}, id : Fds \union {None}, connected : BOOLEAN, useCount : Nat,
   readCount : Nat, closeCount : Nat, sendCount : Nat, monSend : BOOLEAN, monRecv : BOOLEAN,
   readable : BOOLEAN, recvLen : Nat, sendBuf : Seq(Nat), wire : Seq(Nat), said : Nat,
   watched : BOOLEAN, armed : SUBSET {"in", "out"}]

Unborn ==
  [sock |-> None, id |-> None, connected |-> FALSE, useCount |-> 0,
   readCount |-> 0, closeCount |-> 0, sendCount |-> 0, monSend |-> FALSE, monRecv |-> FALSE,
   readable |-> FALSE, recvLen |-> 0, sendBuf |-> <<>>, wire |-> <<>>, said |-> 0,
   watched |-> FALSE, armed |-> {}]

Init ==
  /\ peer = [c \in Conns |-> [at |-> "away", sent |-> 0, inbox |-> 0, unread |-> 0]]
  /\ backlog = <<>> /\ edge = FALSE
  /\ conn = [c \in Conns |-> Unborn]
  /\ table = [f \in Fds |-> None]
  /\ ioList = [f \in Fds |-> {}] /\ turns = {}
  /\ pc = "wait" /\ stack = <<>> /\ kept = {}
  /\ stop = FALSE /\ faults = 0 /\ refused = {}
  /\ told = [c \in Conns |-> [connect |-> "no", close |-> "no"]]

SumSeq(s) == FoldLeft(+, 0, s)

Listed == {table[f] : f \in Fds} \ {None}
Free   == {f \in Fds : \A c \in Conns : conn[c].sock # f}
Gone(c) == peer[c].at = "gone"

(* One open call: a handler ("connect", "msg", "close"), the end of        *)
(* OnConnect ("monitor") or MsgWorker between two OnMsg ("worker").  drops *)
(* are the references given up when it returns; looked says that OnMsg has *)
(* taken data, or has asked for more than there is.                        *)
Frame(kind, c, drops) == [kind |-> kind, conn |-> c, drops |-> drops, looked |-> FALSE]

Top == Head(stack)
In(kinds) == stack # <<>> /\ Top.kind \in kinds

-----------------------------------------------------------------------------
(* STEpoll::AddIO by STNetConnect::AddEpollRecv and AddEpollSend: the      *)
(* one-shot event is set anew, for all that this connection waits for.     *)
Interest(o) == (IF o.monRecv THEN {"in"} ELSE {}) \union (IF o.monSend THEN {"out"} ELSE {})

AddIO(o) == IF o.watched THEN [o EXCEPT !.armed = Interest(o)] ELSE o

AddEpollRecvOnly(o) ==   \* mutant: waits for data only
  [o EXCEPT !.monRecv = TRUE, !.armed = IF o.watched THEN {"in"} ELSE {}]
AddEpollRecv(o) == AddIO([o EXCEPT !.monRecv = TRUE])

AddEpollSend(o) == AddIO([o EXCEPT !.monSend = TRUE])

SendStart(o) == IF o.sendCount = 0 THEN AddEpollSend([o EXCEPT !.sendCount = 1])
                                   ELSE [o EXCEPT !.sendCount = @ + 1]

SendEnd(o) == [o EXCEPT !.sendCount = 0, !.monSend = FALSE]

(* Socket::Send on the socket of c, of at most n: what the kernel takes.   *)
(* A client that is gone may be noticed or not.                            *)
Taken(c, n) == Min({n, Room - peer[c].unread})
SendErrs(c, o) == IF o.sock = None THEN {TRUE} ELSE IF Gone(c) THEN BOOLEAN ELSE {FALSE}

(* STNetConnect::SendData of n units, numbered on from what was said.      *)
Direct(o) == o.sendBuf = <<>>

Said(o, n) == [i \in 1..n |-> o.said + i]

SendNow(c, o, n, err) == IF Direct(o) /\ ~err THEN Taken(c, n) ELSE 0

SendData(c, o, n, err) ==
  LET k    == SendNow(c, o, n, err)
      rest == SubSeq(Said(o, n), k + 1, n)
      o1   == [o EXCEPT !.said = @ + n, !.wire = @ \o SubSeq(Said(o, n), 1, k),
                        !.sendBuf = @ \o rest]
  IN  IF Direct(o) /\ err THEN o
      ELSE IF k = n THEN o1 ELSE SendStart(o1)

(* STNetConnect::Release, n times: without users the object is no more.    *)
Release(o, n) == IF o.useCount = n THEN [Unborn EXCEPT !.id = o.id]
                                   ELSE [o EXCEPT !.useCount = @ - n]

-----------------------------------------------------------------------------
(* Clients, until the server is told that their connection is closed or    *)
(* stops; what they do after that makes no difference.                     *)
Arrive(c) ==
  /\ peer[c].at = "away" /\ ~stop
  /\ peer' = [peer EXCEPT ![c].at = "up"]
  /\ backlog' = Append(backlog, c) /\ edge' = TRUE
  /\ UNCHANGED <<conn, table, ioList, turns, pc, stack, kept, stop, faults, refused, told>>

Here(c) == peer[c].at = "up" /\ told[c].close = "no" /\ ~stop

PeerSend(c) ==
  /\ Here(c) /\ peer[c].sent < MaxIn[c]
  /\ peer' = [peer EXCEPT ![c].sent = @ + 1, ![c].inbox = @ + 1]
  /\ UNCHANGED <<backlog, edge, conn, table, ioList, turns, pc, stack, kept, stop, faults, refused, told>>

PeerRead(c) ==
  /\ Here(c) /\ peer[c].unread > 0
  /\ peer' = [peer EXCEPT ![c].unread = @ - 1]
  /\ UNCHANGED <<backlog, edge, conn, table, ioList, turns, pc, stack, kept, stop, faults, refused, told>>

PeerClose(c) ==
  /\ Here(c)
  /\ peer' = [peer EXCEPT ![c].at = "gone"]
  /\ UNCHANGED <<backlog, edge, conn, table, ioList, turns, pc, stack, kept, stop, faults, refused, told>>

(* STNetEngine::Stop, called by another thread at any time; the main loop  *)
(* and MsgWorker look at m_stop, so that only these moments differ.        *)
Stop ==
  /\ ~stop /\ stop' = TRUE
  /\ pc = "wait" \/ In({"worker"})
  /\ UNCHANGED <<peer, backlog, edge, conn, table, ioList, turns, pc, stack, kept, faults, refused, told>>

-----------------------------------------------------------------------------
(* CloseConnect: off the list, socket closed; then OnCloseConnect, unless  *)
(* OnMsg is running, and the list's own reference is released.  The caller *)
(* gives up `more` references then, and goes on with `rest`.               *)
NotifiesAlways(o) == o.closeCount = 0   \* mutant: although OnMsg is running
Notifies(o) == o.readCount = 0 /\ o.closeCount = 0

LeaveListed(f) == table   \* mutant: the entry stays
Unlist(f) == [table EXCEPT ![f] = None]

CloseConnect(c, o, more, rest) ==
  LET now == Notifies(o)
  IN  /\ table' = Unlist(o.id)
      /\ conn' = [conn EXCEPT ![c] =
           Release([o EXCEPT !.sock = None, !.watched = FALSE, !.armed = {}, !.connected = FALSE,
                             !.readCount = @ + 1,
                             !.closeCount = IF o.readCount = 0 THEN @ + 1 ELSE @],
                   IF now THEN 1 ELSE 2 + more)]
      /\ stack' = IF now THEN <<Frame("close", c, 1 + more)>> \o rest ELSE rest
      /\ told' = IF now THEN [told EXCEPT ![c].close = "running"] ELSE told

(* OnCloseConnect returns.                                                 *)
EndClose ==
  /\ In({"close"})
  /\ told' = [told EXCEPT ![Top.conn].close = "done"]
  /\ conn' = [conn EXCEPT ![Top.conn] = Release(@, Top.drops)]
  /\ stack' = Tail(stack)
  /\ UNCHANGED <<peer, backlog, edge, table, ioList, turns, pc, kept, stop, faults, refused>>

-----------------------------------------------------------------------------
(* LinuxIO takes the events: a one-shot event is reported once, what can   *)
(* be written counts as readable as well.                                  *)
Ready(c) ==
  conn[c].armed \intersect
    ((IF peer[c].inbox > 0 \/ Gone(c) THEN {"in"} ELSE {}) \union
     (IF peer[c].unread < Room \/ Gone(c) THEN {"out"} ELSE {}))

Marks(events) ==
  IF events = {} THEN {} ELSE IF "out" \in events THEN {"r", "w"} ELSE {"r"}

(* One pass over m_ioList, in the order of the socket numbers, receiving   *)
(* before sending.                                                         *)
Pass(list) == {turn \in Fds \X {"r", "w"} : turn[2] \in list[turn[1]]}

Before(a, b) == a[1] < b[1] \/ (a[1] = b[1] /\ (a[2] = "r" \/ b[2] = "w"))

Current == CHOOSE turn \in turns : \A other \in turns : Before(turn, other)

WaitEvent ==
  /\ pc = "wait" /\ ~stop
  /\ ioList' = [f \in Fds |-> ioList[f] \union
                  UNION {Marks(Ready(c)) : c \in {x \in Conns : conn[x].sock = f}}]
  /\ conn' = [c \in Conns |-> IF Ready(c) = {} THEN conn[c] ELSE [conn[c] EXCEPT !.armed = {}]]
  /\ pc' = IF edge THEN "accept" ELSE "io"
  /\ turns' = Pass(ioList')
  /\ edge' = FALSE
  /\ UNCHANGED <<peer, backlog, table, stack, kept, stop, faults, refused, told>>

(* Socket::Accept, and OnConnect up to the handler.                        *)
Born(f) ==
  [Unborn EXCEPT !.sock = f, !.id = f, !.connected = TRUE, !.useCount = 3]

Accept ==
  /\ pc = "accept" /\ stack = <<>> /\ backlog # <<>> /\ Free # {}
  /\ LET c == Head(backlog)
         f == Min(Free)
     IN  /\ conn' = [conn EXCEPT ![c] = Born(f)]
         /\ table' = IF table[f] = None THEN [table EXCEPT ![f] = c] ELSE table
         /\ stack' = <<Frame("connect", c, 1)>>
         /\ told' = [told EXCEPT ![c].connect = "running"]
  /\ backlog' = Tail(backlog)
  /\ UNCHANGED <<peer, edge, ioList, turns, pc, kept, stop, faults, refused>>

(* Nobody is left, or accept() fails: the loop ends either way.            *)
AcceptedAll ==
  /\ pc = "accept" /\ stack = <<>> /\ (backlog = <<>> \/ Free = {})
  /\ pc' = "io"
  /\ UNCHANGED <<peer, backlog, edge, conn, table, ioList, turns, stack, kept, stop, faults, refused, told>>

AcceptFails ==
  /\ pc = "accept" /\ stack = <<>> /\ backlog # <<>> /\ Head(backlog) \in Faulty /\ faults < MaxFaults
  /\ pc' = "io" /\ faults' = faults + 1
  /\ UNCHANGED <<peer, backlog, edge, conn, table, ioList, turns, stack, kept, stop, refused, told>>

EndConnect ==
  /\ In({"connect"})
  /\ told' = [told EXCEPT ![Top.conn].connect = "done"]
  /\ stack' = <<Frame("monitor", Top.conn, 1)>> \o Tail(stack)
  /\ UNCHANGED <<peer, backlog, edge, conn, table, ioList, turns, pc, kept, stop, faults, refused>>

(* The rest of OnConnect: epoll is told of the socket, unless the handler  *)
(* has closed it.                                                          *)
Monitor ==
  /\ In({"monitor"})
  /\ LET c == Top.conn
         o == conn[c]
     IN  conn' = [conn EXCEPT ![c] =
                    LET o1 == Release(o, 1)
                    IN  IF o.sock = None THEN o1 ELSE AddEpollRecv([o1 EXCEPT !.watched = TRUE])]
  /\ stack' = Tail(stack)
  /\ UNCHANGED <<peer, backlog, edge, table, ioList, turns, pc, kept, stop, faults, refused, told>>

(* epoll_ctl fails to add the socket: it stays on the list, without event. *)
AddMonitorFails ==
  /\ In({"monitor"}) /\ Top.conn \in Faulty /\ faults < MaxFaults
  /\ conn[Top.conn].sock # None
  /\ conn' = [conn EXCEPT ![Top.conn] = Release(@, 1)]
  /\ refused' = refused \union {Top.conn} /\ faults' = faults + 1
  /\ stack' = Tail(stack)
  /\ UNCHANGED <<peer, backlog, edge, table, ioList, turns, pc, kept, stop, told>>

(* It adds the socket but does not set the event.                          *)
AddRecvFails ==
  /\ In({"monitor"}) /\ Top.conn \in Faulty /\ faults < MaxFaults
  /\ LET c == Top.conn
     IN  /\ conn[c].sock # None
         /\ CloseConnect(c, [conn[c] EXCEPT !.watched = TRUE, !.monRecv = TRUE], 1, Tail(stack))
  /\ faults' = faults + 1
  /\ UNCHANGED <<peer, backlog, edge, ioList, turns, pc, kept, stop, refused>>

-----------------------------------------------------------------------------
Turn(mark) == pc = "io" /\ stack = <<>> /\ turns # {} /\ Current[2] = mark
Fd == Current[1]

NextTurn(keep) ==
  /\ turns' = turns \ {Current}
  /\ ioList' = IF keep THEN ioList ELSE [ioList EXCEPT ![Fd] = @ \ {Current[2]}]

(* The connection has been closed since.                                   *)
Skip ==
  /\ pc = "io" /\ stack = <<>> /\ turns # {}
  /\ table[Fd] = None
  /\ NextTurn(FALSE)
  /\ UNCHANGED <<peer, backlog, edge, conn, table, pc, stack, kept, stop, faults, refused, told>>

(* OnData: RefreshHeart, RecvData, MsgWorker.                              *)
Received(c) == Min({peer[c].inbox, RecvMax})

OnData ==
  /\ Turn("r") /\ table[Fd] # None
  /\ LET c == table[Fd]
         n == Received(c)
         o == [conn[c] EXCEPT !.recvLen = @ + n, !.useCount = @ + 1]
     IN  /\ peer' = [peer EXCEPT ![c].inbox = @ - n]
         /\ NextTurn(n = RecvMax)
         /\ IF n < RecvMax /\ Gone(c)
            THEN CloseConnect(c, o, 1, <<>>)
            ELSE /\ conn' = [conn EXCEPT ![c] =
                       [(IF n = RecvMax THEN o ELSE AddEpollRecv(o)) EXCEPT
                          !.readCount = @ + 1,
                          !.useCount = IF o.readCount = 0 THEN @ ELSE @ - 1]]
                 /\ stack' = IF o.readCount = 0 THEN <<Frame("worker", c, 1)>> ELSE <<>>
                 /\ UNCHANGED <<table, told>>
  /\ UNCHANGED <<backlog, edge, pc, kept, stop, faults, refused>>

(* OnSend, SendData: one block; then the flow ends, or starts anew.        *)
BlockGone(o, n, k) ==   \* mutant: the block counts as sent although the kernel took less
  SubSeq(o.sendBuf, n + 1, Len(o.sendBuf))
Unsent(o, n, k) == SubSeq(o.sendBuf, k + 1, Len(o.sendBuf))

AfterSend(o) == LET e == SendEnd(o) IN IF e.sendBuf = <<>> THEN e ELSE SendStart(e)

OnSend ==
  /\ Turn("w") /\ table[Fd] # None
  /\ LET c == table[Fd]
         o == conn[c]
         n == Min({Block, Len(o.sendBuf)})
         k == Taken(c, n)
     IN  \E err \in IF n = 0 THEN {FALSE} ELSE SendErrs(c, o) :
           LET o1  == [o EXCEPT !.wire = @ \o SubSeq(o.sendBuf, 1, k),
                                !.sendBuf = Unsent(o, n, k)]
               more == Len(o.sendBuf) > Block /\ k = n
           IN  /\ NextTurn(~err /\ more)
               /\ conn' = [conn EXCEPT ![c] = IF err THEN o ELSE IF more THEN o1 ELSE AfterSend(o1)]
               /\ peer' = [peer EXCEPT ![c].unread = IF err THEN @ ELSE @ + k]
  /\ UNCHANGED <<backlog, edge, table, pc, stack, kept, stop, faults, refused, told>>

(* HeartMonitor closes connections from which nothing has come for some    *)
(* time, one after the other; how long that is for each is left open.      *)
HeartMonitor(c) ==
  /\ pc = "io" /\ stack = <<>> /\ turns = {}
  /\ c \in Listed
  /\ CloseConnect(c, conn[c], 0, <<>>)
  /\ UNCHANGED <<peer, backlog, edge, ioList, turns, pc, kept, stop, faults, refused>>

HeartChecked ==
  /\ pc = "io" /\ stack = <<>> /\ turns = {}
  /\ pc' = "wait"
  /\ UNCHANGED <<peer, backlog, edge, conn, table, ioList, turns, stack, kept, stop, faults, refused, told>>

(* The main loop ends, and Stop, which waits for that, empties m_ioList.   *)
Finish ==
  /\ pc = "wait" /\ stop
  /\ pc' = "done"
  /\ ioList' = [f \in Fds |-> {}]
  /\ UNCHANGED <<peer, backlog, edge, conn, table, turns, stack, kept, stop, faults, refused, told>>

-----------------------------------------------------------------------------
(* MsgWorker: OnMsg while it takes something and there is more.            *)
More(o) == o.connected /\ o.readable /\ o.recvLen > 0

BeginMsg ==
  /\ In({"worker"}) /\ ~stop
  /\ ~Top.looked \/ More(conn[Top.conn])
  /\ stack' = <<Frame("msg", Top.conn, 1)>> \o Tail(stack)
  /\ UNCHANGED <<peer, backlog, edge, conn, table, ioList, turns, pc, kept, stop, faults, refused, told>>

EndMsg ==
  /\ In({"msg"}) /\ Top.looked
  /\ stack' = <<[Top EXCEPT !.kind = "worker"]>> \o Tail(stack)
  /\ UNCHANGED <<peer, backlog, edge, conn, table, ioList, turns, pc, kept, stop, faults, refused, told>>

(* OnMsg has said all: the count goes back, and a close that came while it *)
(* was running is reported.                                                *)
Unread(o) == [o EXCEPT !.readCount = @ - 1]

ForgetClose(o) == FALSE   \* mutant: the close that OnMsg has made is not reported
ReportsClose(o) == ~o.connected /\ o.closeCount = 0

LeaveWorker ==
  /\ In({"worker"})
  /\ stop \/ (Top.looked /\ ~More(conn[Top.conn]))
  /\ LET c == Top.conn
         o == Unread(conn[c])
     IN  IF ReportsClose(o)
         THEN /\ conn' = [conn EXCEPT ![c] = [o EXCEPT !.closeCount = @ + 1]]
              /\ stack' = <<Frame("close", c, 1)>> \o Tail(stack)
              /\ told' = [told EXCEPT ![c].close = "running"]
         ELSE /\ conn' = [conn EXCEPT ![c] = Release(o, 1)]
              /\ stack' = Tail(stack)
              /\ UNCHANGED told
  /\ UNCHANGED <<peer, backlog, edge, table, ioList, turns, pc, kept, stop, faults, refused>>

-----------------------------------------------------------------------------
(* What handlers may do, with the connection they are called for, those    *)
(* whose host they have kept, and those they know the number of.           *)
Handlers == {"connect", "msg", "close"}
Known == {Top.conn} \union {c \in kept : told[c].close = "no"}

(* STNetHost::Recv of k units.                                             *)
Recv(k) ==
  /\ In({"msg"})
  /\ LET o == conn[Top.conn]
     IN  conn' = [conn EXCEPT ![Top.conn] =
                    IF k <= o.recvLen THEN [o EXCEPT !.recvLen = @ - k, !.readable = TRUE]
                                      ELSE [o EXCEPT !.readable = FALSE]]
  /\ stack' = <<[Top EXCEPT !.looked = TRUE]>> \o Tail(stack)
  /\ UNCHANGED <<peer, backlog, edge, table, ioList, turns, pc, kept, stop, faults, refused, told>>

(* The same message to some connections.                                   *)
Say(S, n) ==
  /\ \A c \in S : conn[c].said + n <= MaxOut[c]
  /\ \E failing \in SUBSET S :
       /\ \A c \in S : Direct(conn[c]) => (c \in failing) \in SendErrs(c, conn[c])
       /\ conn' = [c \in Conns |-> IF c \in S THEN SendData(c, conn[c], n, c \in failing)
                                             ELSE conn[c]]
       /\ peer' = [c \in Conns |-> IF c \in S
                      THEN [peer[c] EXCEPT !.unread = @ + SendNow(c, conn[c], n, c \in failing)]
                      ELSE peer[c]]
  /\ UNCHANGED <<backlog, edge, table, ioList, turns, pc, stack, kept, stop, faults, refused, told>>

(* STNetHost::Send, which does not look whether the connection is closed.  *)
Send(c, n) == In(Handlers) /\ c \in Known /\ Say({c}, n)

(* By its number, which may be the host's or one remembered.               *)
SendMsg(f, n) ==
  /\ In(Handlers) /\ table[f] # None
  /\ conn[table[f]].connected /\ Say({table[f]}, n)

(* To all connections of some groups.                                      *)
BroadcastMsg(S, n) ==
  /\ In(Handlers) /\ S # {} /\ S \subseteq Listed
  /\ Say({c \in S : conn[c].connected}, n)

(* STNetHost::Close and CloseConnect of a number.                          *)
Close(c) ==
  /\ In(Handlers) /\ c \in Known \union Listed
  /\ LET victim == table[conn[c].id]
     IN  victim # None /\ CloseConnect(victim, conn[victim], 0, stack)
  /\ UNCHANGED <<peer, backlog, edge, ioList, turns, pc, kept, stop, faults, refused>>

KeepHost ==
  /\ In({"connect"}) /\ Top.conn \notin kept
  /\ kept' = kept \union {Top.conn}
  /\ conn' = [conn EXCEPT ![Top.conn].useCount = @ + 1]
  /\ UNCHANGED <<peer, backlog, edge, table, ioList, turns, pc, stack, stop, faults, refused, told>>

DropHost(c) ==
  /\ In({"close"}) /\ c \in kept
  /\ kept' = kept \ {c}
  /\ conn' = [conn EXCEPT ![c] = Release(@, 1)]
  /\ UNCHANGED <<peer, backlog, edge, table, ioList, turns, pc, stack, stop, faults, refused, told>>

-----------------------------------------------------------------------------
Outside == Stop \/ \E c \in Conns : Arrive(c) \/ PeerSend(c) \/ PeerRead(c) \/ PeerClose(c)

Engine ==
  \/ WaitEvent \/ Accept \/ AcceptedAll \/ Monitor \/ Skip \/ OnData \/ OnSend
  \/ HeartChecked \/ BeginMsg \/ LeaveWorker \/ Finish

Fault == AcceptFails \/ AddMonitorFails \/ AddRecvFails

Returns == EndConnect \/ EndMsg \/ EndClose

Handler ==
  \/ \E k \in Sizes \union {1} : Recv(k)
  \/ \E n \in Sizes : \/ \E c \in Conns : Send(c, n)
                     \/ \E f \in Fds : SendMsg(f, n)
                     \/ \E S \in SUBSET Conns : BroadcastMsg(S, n)
  \/ \E c \in Conns : Close(c) \/ DropHost(c)
  \/ KeepHost

Next == Outside \/ Engine \/ (\E c \in Conns : HeartMonitor(c)) \/ Fault \/ Returns \/ Handler

Spec == Init /\ [][Next]_vars

(* The thread goes on, and handlers look at what has come and return.      *)
Thread == Engine \/ Returns \/ (In({"msg"}) /\ ~Top.looked /\ Recv(1))

LiveSpec == Spec /\ WF_vars(Thread)

-----------------------------------------------------------------------------
TypeOK ==
  /\ peer \in [Conns -> [at : {"away", "up", "gone"}, sent : Nat, inbox : Nat, unread : 0..Room]]
  /\ backlog \in Seq(Conns) /\ edge \in BOOLEAN
  /\ conn \in [Conns -> STNetConnects]
  /\ table \in [Fds -> Conns \union {None}]
  /\ ioList \in [Fds -> SUBSET {"r", "w"}]
  /\ turns \subseteq Fds \X {"r", "w"}
  /\ pc \in {"wait", "accept", "io", "done"}
  /\ stack \in Seq([kind : Handlers \union {"monitor", "worker"}, conn : Conns, drops : Nat, looked : BOOLEAN])
  /\ kept \subseteq Conns /\ stop \in BOOLEAN /\ faults \in 0..MaxFaults /\ refused \subseteq Conns
  /\ told \in [Conns -> [connect : {"no", "running", "done"}, close : {"no", "running", "done"}]]

(* What a client is sent is what the server has said to it, in that order  *)
(* and without gaps, whether it was sent at once by SendData, or buffered  *)
(* and sent by OnSend, and whoever closes in between.                      *)
StreamInOrder ==
  \A c \in Conns : conn[c].wire \o conn[c].sendBuf = [i \in 1..conn[c].said |-> i]

(* A connection that is open is not forgotten by the event loop: data that *)
(* comes, and room for data that waits to be sent, will be reported or are *)
(* on m_ioList already.  One-shot events, the two flags of a connection    *)
(* and the marks of the pass must agree for that at every moment.          *)
Opening(c) == \E i \in DOMAIN stack : stack[i].conn = c /\ stack[i].kind \in {"connect", "monitor"}

NothingForgotten ==
  pc # "done" => \A c \in Conns \ refused : conn[c].connected =>
    /\ Opening(c) \/ "in" \in conn[c].armed \/ "r" \in ioList[conn[c].sock]
    /\ conn[c].sendBuf # <<>> =>
         \/ "out" \in conn[c].armed \/ "w" \in ioList[conn[c].sock]
         \/ conn[c].monSend /\ (Opening(c) \/ "r" \in ioList[conn[c].sock])
         \/ Gone(c)

(* The use count of a connection is the number of its users: two for the   *)
(* list it is on, one for each open call and each STNetHost the server     *)
(* keeps.  So it is freed, once, when nobody can use it any more.          *)
Uses(c, calls) == SumSeq([i \in DOMAIN calls |-> IF calls[i].conn = c THEN calls[i].drops ELSE 0])

Holders(c) ==
  (IF c \in Listed THEN 2 ELSE 0) + (IF c \in kept THEN 1 ELSE 0) + Uses(c, stack)

UseCounted == \A c \in Conns : conn[c].useCount = Holders(c)

(* A number leads to the connection it was given for, or to none, until    *)
(* the server has been told that the connection is closed: closing or      *)
(* sending by number, which STNetHost::Close does too, hits no other.      *)
NumbersLeadHome ==
  \A c \in Conns : conn[c].id # None /\ told[c].close # "done" => table[conn[c].id] \in {c, None}

(* The callbacks of each connection come in the promised order, although   *)
(* handlers close connections, their own included, while they run.         *)
CB(c) == INSTANCE Callbacks WITH
  Workers <- {"main"},
  connect <- told[c].connect, close <- told[c].close,
  readers <- IF \E i \in DOMAIN stack : stack[i].kind = "msg" /\ stack[i].conn = c THEN {"main"} ELSE {}

Ordered ==
  /\ \A c \in Conns : CB(c)!Init
  /\ [][\A c \in Conns : [CB(c)!Next]_(CB(c)!vars)]_vars

(* A client that has connected and gone is accepted, its connection closed *)
(* and the server told so, also when it has left before it was accepted;   *)
(* unless accept() or epoll has failed for it, or the engine was stopped.  *)
CloseReported ==
  \A c \in Conns : Gone(c) ~>
    \/ told[c].close = "done"
    \/ c \in refused \/ (told[c].connect = "no" /\ faults > 0)
    \/ stop

(* What holds of the connections at every moment.                          *)
Inv == TypeOK /\ UseCounted /\ NumbersLeadHome
=============================================================================
