---------------------------- MODULE ServerLinks ----------------------------
(***************************************************************************)
(* Connections a server opens to other servers and keeps up (m_keepIPList  *)
(* of mdk NetEngine and STNetEngine).                                      *)
(*                                                                         *)
(* Each link is a SVR_CONNECT: it is connected without waiting, and its    *)
(* socket then watched by epoll until the result is known.  In the         *)
(* multi-threaded engine ("mt") a thread of its own does that, the main    *)
(* thread tries again what is not connected, and workers run the           *)
(* callbacks.  In the single-threaded engine ("st") the main loop does all *)
(* of it, one after the other, and does not wait in epoll.                 *)
(***************************************************************************)
EXTENDS Naturals, FiniteSetsExt, SequencesExt

CONSTANTS
  Engines,    \* "mt", "st"
  Links,      \* the addresses asked for, in the order of m_keepIPList
  Keep,       \* those with reConnectSecond >= 0
  Socks,      \* socket numbers
  Patience,   \* passes until 20 s are over (single-threaded engine)
  MaxTries,   \* bound of the model: attempts for each link
  MaxFaults,  \* bound of the model: sockets epoll does not take
  Null        \* no link, or no socket

ASSUME LinksAssumption ==
  /\ Engines \subseteq {"mt", "st"} /\ Links \subseteq Nat /\ IsFiniteSet(Links)
  /\ Keep \subseteq Links /\ Socks \subseteq Nat /\ IsFiniteSet(Socks)
  /\ {Patience, MaxTries, MaxFaults} \subseteq Nat /\ Null \notin Links \union Socks

VARIABLES
  engine,    \* which engine this is
  link,      \* the SVR_CONNECT of each link
  kernel,    \* each socket: its state, is something to be read, does epoll watch it
  attached,  \* the engine's connection on a socket
  poll,      \* the thread that waits for results: what it has got and where it is
  tasks,     \* ConnectFailed tasks of the workers, and sockets they still have to close
  signal,    \* m_wakeConnectThread
  start,     \* passes since the clock of the timeout was started
  faults,    \* sockets epoll has not taken
  tries,     \* attempts made (history)
  told,      \* callbacks about the last attempt (history)
  dangling   \* a deleted SVR_CONNECT has been used (history)

linksVars == <<engine, link, kernel, attached, poll, tasks, signal, start, faults, tries, told, dangling>>

-----------------------------------------------------------------------------
SVR_CONNECT ==
  [state : {"free", "unconnected", "connectting", "unconnectting", "connected", "deleted"},
   sock : Socks \union {Null}, tried : BOOLEAN, inEpoll : BOOLEAN]

NoSocket == [at |-> "free", data |-> FALSE, watched |-> Null, news |-> FALSE]
Resting  == [pc |-> "idle", clients |-> <<>>, events |-> <<>>, count |-> 0,
             monitored |-> 0, finished |-> TRUE, mark |-> Null]

(* A link may be asked for before the engine starts.                       *)
LinksInit ==
  /\ engine \in Engines
  /\ link \in [Links -> {[state |-> s, sock |-> Null, tried |-> FALSE, inEpoll |-> FALSE] :
                           s \in {"free", "unconnected"}}]
  /\ kernel = [s \in Socks |-> NoSocket]
  /\ attached = [s \in Socks |-> "none"]
  /\ poll = Resting
  /\ tasks = {} /\ signal = FALSE /\ start = 0 /\ faults = 0
  /\ tries = [l \in Links |-> 0] /\ told = [l \in Links |-> 0] /\ dangling = FALSE

Free == {s \in Socks : kernel[s].at = "free"}

(* Links and sockets in the order in which lists and arrays have them.     *)
Sorted(S) == LET n == Cardinality(S)
             IN  CHOOSE s \in [1..n -> S] : \A i, j \in 1..n : i < j => s[i] < s[j]

InList == Sorted({l \in Links : link[l].state = "connectting"})

(* The single thread does one thing at a time.                             *)
Idle == engine = "st" => poll.pc = "io"

Tell(l) == told' = [told EXCEPT ![l] = Min({@ + 1, 2})]

-----------------------------------------------------------------------------
(* What servers and the network do.                                        *)
Establish(s) ==
  /\ kernel[s].at = "connecting"
  /\ kernel' = [kernel EXCEPT ![s].at = "up", ![s].news = kernel[s].watched # Null]
  /\ UNCHANGED <<engine, link, attached, poll, tasks, signal, start, faults, tries, told, dangling>>

Refuse(s) ==
  /\ kernel[s].at = "connecting"
  /\ kernel' = [kernel EXCEPT ![s].at = "refused", ![s].data = TRUE, ![s].news = kernel[s].watched # Null]
  /\ UNCHANGED <<engine, link, attached, poll, tasks, signal, start, faults, tries, told, dangling>>

(* The server sends something or closes.                                   *)
Arrives(s) ==
  /\ kernel[s].at = "up" /\ ~kernel[s].data
  /\ kernel' = [kernel EXCEPT ![s].data = TRUE, ![s].news = kernel[s].watched # Null]
  /\ UNCHANGED <<engine, link, attached, poll, tasks, signal, start, faults, tries, told, dangling>>

-----------------------------------------------------------------------------
(* ConnectFailed.                                                          *)
Failed(rec) == [rec EXCEPT !.sock = Null, !.state = "unconnected"]

(* ConnectOtherServer: a new socket and connect(), which is done at once,  *)
(* goes on, or fails; or there is no socket.                               *)
Tried(l) == [link[l] EXCEPT !.tried = TRUE]

ConnectSucceeds(l) ==
  /\ Free # {}
  /\ LET s == Min(Free)
     IN  \* the handler of the single-threaded engine may close it at once
         \E closed \in IF engine = "st" THEN BOOLEAN ELSE {FALSE} :
           /\ link' = [link EXCEPT ![l] =
                [Tried(l) EXCEPT !.state = "connected", !.sock = IF closed THEN Null ELSE s]]
           /\ kernel' = IF closed THEN kernel ELSE [kernel EXCEPT ![s].at = "up"]
           /\ attached' = IF closed THEN attached
                          ELSE [attached EXCEPT ![s] = IF engine = "st" THEN "open" ELSE "posted"]
  /\ told' = [told EXCEPT ![l] = 1]
  /\ UNCHANGED <<tasks, signal>>

ForgetNotify(l) ==   \* mutant: the thread that waits for results is not told
  /\ Free # {}
  /\ LET s == Min(Free)
     IN  /\ link' = [link EXCEPT ![l] = [Tried(l) EXCEPT !.state = "connectting", !.sock = s]]
         /\ kernel' = [kernel EXCEPT ![s].at = "connecting"]
  /\ told' = [told EXCEPT ![l] = 0]
  /\ UNCHANGED <<signal, attached, tasks>>
ConnectWaits(l) ==
  /\ Free # {}
  /\ LET s == Min(Free)
     IN  /\ link' = [link EXCEPT ![l] = [Tried(l) EXCEPT !.state = "connectting", !.sock = s]]
         /\ kernel' = [kernel EXCEPT ![s].at = "connecting"]
  /\ signal' = IF engine = "mt" THEN TRUE ELSE signal
  /\ told' = [told EXCEPT ![l] = 0]
  /\ UNCHANGED <<attached, tasks>>

ConnectFails(l) ==
  /\ IF engine = "st"
     THEN /\ link' = [link EXCEPT ![l] = Failed(Tried(l))]
          /\ told' = [told EXCEPT ![l] = 1]
          /\ UNCHANGED <<kernel, tasks>>
     ELSE LET s == IF Free = {} THEN Null ELSE Min(Free)
          IN  /\ link' = [link EXCEPT ![l] = [Tried(l) EXCEPT !.state = "unconnectting", !.sock = s]]
              /\ kernel' = IF s = Null THEN kernel ELSE [kernel EXCEPT ![s].at = "refused"]
              /\ tasks' = tasks \union {<<"failed", l>>}
              /\ told' = [told EXCEPT ![l] = 0]
  /\ UNCHANGED <<attached, signal>>

Try(l) ==
  /\ tries[l] < MaxTries /\ tries' = [tries EXCEPT ![l] = @ + 1]
  /\ ConnectSucceeds(l) \/ ConnectWaits(l) \/ ConnectFails(l)
  /\ UNCHANGED <<engine, poll, start, faults, dangling>>

(* Connect, called by the server.                                          *)
Connect(l) == Idle /\ link[l].state = "free" /\ Try(l)

(* ConnectAll, for one link after the other: what is not connected, or has *)
(* been, and time has come; a link that is not to be kept is tried once.   *)
ConnectAgain(l) ==
  /\ Idle /\ link[l].state = "unconnected" /\ (l \in Keep \/ ~link[l].tried)
  /\ Try(l)

DeleteLink(l) ==
  /\ Idle /\ l \notin Keep
  /\ \/ link[l].state = "connected"
     \/ link[l].state = "unconnected" /\ link[l].tried
  /\ link' = [link EXCEPT ![l].state = "deleted"]
  /\ UNCHANGED <<engine, kernel, attached, poll, tasks, signal, start, faults, tries, told, dangling>>

-----------------------------------------------------------------------------
(* EpollConnect begins: epoll is to watch the links that wait for a        *)
(* result.  It does not take a socket that it watches already, and others  *)
(* when it has no room.                                                    *)
Watch(list, bad) ==
  LET new == {l \in ToSet(list) \ bad : kernel[link[l].sock].watched = Null}
  IN  /\ link' = [l \in Links |-> IF l \in ToSet(list)
                     THEN [link[l] EXCEPT !.inEpoll = l \in new] ELSE link[l]]
      /\ kernel' = [s \in Socks |->
           LET ls == {l \in new : link[l].sock = s}
           IN  IF ls = {} THEN kernel[s]
               ELSE [kernel[s] EXCEPT !.watched = Min(ls), !.news = @ \/ kernel[s].at # "connecting"]]
      /\ poll' = [Resting EXCEPT !.pc = "wait", !.clients = list, !.monitored = Cardinality(new)]
      /\ faults' = faults + Cardinality(bad) /\ faults' <= MaxFaults

(* The single-threaded engine, from its main loop.                         *)
Select ==
  /\ engine = "st" /\ poll.pc = "idle"
  /\ \E bad \in SUBSET ToSet(InList) : Watch(InList, bad)
  /\ UNCHANGED <<engine, attached, tasks, signal, start, tries, told, dangling>>

(* The thread of the multi-threaded one.                                   *)
ConnectThread ==
  /\ engine = "mt" /\ poll.pc = "idle"
  /\ \E bad \in SUBSET ToSet(InList) : Watch(InList, bad)
  /\ UNCHANGED <<engine, attached, tasks, signal, start, tries, told, dangling>>

(* epoll_wait.  Sockets are reported once for every change of theirs.      *)
News == {s \in Socks : kernel[s].news}

WaitReturns ==
  /\ poll.pc = "wait" /\ News # {}
  /\ poll' = [poll EXCEPT !.pc = "A", !.count = Cardinality(News),
       !.events = [i \in 1..Cardinality(News) |->
                     LET s == Sorted(News)[i]
                     IN  [link |-> kernel[s].watched, readable |-> kernel[s].data]]]
  /\ kernel' = [s \in Socks |-> [kernel[s] EXCEPT !.news = FALSE]]
  /\ UNCHANGED <<engine, link, attached, tasks, signal, start, faults, tries, told, dangling>>

(* Null has happened for 20 s.                                          *)
WaitEnds ==
  /\ poll.pc = "wait" /\ News = {} /\ (engine = "st" => start >= Patience)
  /\ poll' = [poll EXCEPT !.pc = "A"]
  /\ start' = 0
  /\ UNCHANGED <<engine, link, kernel, attached, tasks, signal, faults, tries, told, dangling>>

(* The single thread has other things to do and comes back.                *)
Later ==
  /\ poll.pc = "wait" /\ News = {} /\ engine = "st" /\ start < Patience
  /\ poll' = [poll EXCEPT !.pc = "io"]
  /\ start' = start + 1
  /\ UNCHANGED <<engine, link, kernel, attached, tasks, signal, faults, tries, told, dangling>>

(* ConnectIsFinished: nothing to be sent and one byte to be looked at, if  *)
(* that is said to be possible, are tried; api <= 0 is a failure.          *)
Works(s, readable, api) ==
  api > 0 /\ s # Null /\ kernel[s].at = "up" /\ (readable => kernel[s].data)

Next2A == [poll EXCEPT !.clients = Tail(@)]
Next2B == [poll EXCEPT !.events = Tail(@)]

ConnectIsFinished(l, unwatched, readable, api, next) ==
  LET rec == [link[l] EXCEPT !.inEpoll = FALSE]
      s   == rec.sock
      k1  == IF unwatched THEN [kernel EXCEPT ![s].watched = Null, ![s].news = FALSE] ELSE kernel
  IN  IF rec.state = "deleted"
      THEN dangling' = TRUE /\ poll' = next /\ UNCHANGED <<link, kernel, attached, tasks, told>>
      ELSE IF Works(s, readable, api)
      THEN \E closed \in IF engine = "st" THEN BOOLEAN ELSE {FALSE} :
           /\ Tell(l)
           /\ attached' = [attached EXCEPT ![s] = IF closed THEN "none" ELSE IF engine = "st" THEN "open" ELSE "posted"]
           /\ kernel' = IF closed THEN [kernel EXCEPT ![s] = NoSocket] ELSE k1
           /\ link' = [link EXCEPT ![l] = IF closed THEN Failed(rec) ELSE rec]
           /\ poll' = [next EXCEPT !.mark = l]
           /\ UNCHANGED <<tasks, dangling>>
      ELSE /\ IF engine = "st"
              THEN /\ link' = [link EXCEPT ![l] = Failed(rec)] /\ Tell(l)
                   /\ kernel' = IF s = Null THEN k1 ELSE [k1 EXCEPT ![s] = NoSocket]
                   /\ UNCHANGED tasks
              ELSE /\ link' = [link EXCEPT ![l] = [rec EXCEPT !.state = "unconnectting"]]
                   /\ tasks' = tasks \union {<<"failed", l>>}
                   /\ kernel' = k1 /\ UNCHANGED told
           /\ poll' = next /\ UNCHANGED <<attached, dangling>>

Untaken(l) == ~link[l].inEpoll \/ poll.count = 0

(* Step A: every socket that was added is taken out of epoll again, and    *)
(* those it had not taken are tried; when nothing was reported, all are.   *)
StepA ==
  /\ poll.pc = "A" /\ poll.mark = Null /\ poll.clients # <<>>
  /\ LET l == Head(poll.clients)
     IN  IF ~Untaken(l)
         THEN /\ link' = [link EXCEPT ![l].inEpoll = FALSE]
              /\ kernel' = [kernel EXCEPT ![link[l].sock].watched = Null, ![link[l].sock].news = FALSE]
              /\ poll' = Next2A
              /\ UNCHANGED <<attached, tasks, told, dangling>>
         ELSE ConnectIsFinished(l, link[l].inEpoll, TRUE, IF link[l].inEpoll THEN 0 ELSE 1, Next2A)
  /\ UNCHANGED <<engine, signal, start, faults, tries>>

EndA ==
  /\ poll.pc = "A" /\ poll.mark = Null /\ poll.clients = <<>>
  /\ poll' = [poll EXCEPT !.pc = "B", !.finished = poll.count = 0 \/ poll.count >= poll.monitored]
  /\ UNCHANGED <<engine, link, kernel, attached, tasks, signal, start, faults, tries, told, dangling>>

(* Step B: what epoll has reported.                                        *)
StepB ==
  /\ poll.pc = "B" /\ poll.mark = Null /\ poll.events # <<>>
  /\ LET e == Head(poll.events)
     IN  ConnectIsFinished(e.link, FALSE, e.readable, poll.count, Next2B)
  /\ UNCHANGED <<engine, signal, start, faults, tries>>

(* After OnConnect has returned.                                           *)
MarkConnected ==
  /\ poll.mark # Null
  /\ link' = [link EXCEPT ![poll.mark].state = IF @ = "deleted" THEN @ ELSE "connected"]
  /\ dangling' = (dangling \/ link[poll.mark].state = "deleted")
  /\ poll' = [poll EXCEPT !.mark = Null]
  /\ UNCHANGED <<engine, kernel, attached, tasks, signal, start, faults, tries, told>>

Goes == IF poll.finished THEN "sleep" ELSE "idle"

EndB ==
  /\ poll.pc = "B" /\ poll.mark = Null /\ poll.events = <<>>
  /\ poll' = [Resting EXCEPT !.pc = IF engine = "st" THEN "io" ELSE Goes]
  /\ UNCHANGED <<engine, link, kernel, attached, tasks, signal, start, faults, tries, told, dangling>>

(* m_wakeConnectThread.Wait, which ends once however often it was told.    *)
Wake ==
  /\ poll.pc = "sleep" /\ signal
  /\ signal' = FALSE /\ poll' = [poll EXCEPT !.pc = "idle"]
  /\ UNCHANGED <<engine, link, kernel, attached, tasks, start, faults, tries, told, dangling>>

(* The main loop of the single-threaded engine begins anew.                *)
Again ==
  /\ poll.pc = "io"
  /\ poll' = Resting
  /\ UNCHANGED <<engine, link, kernel, attached, tasks, signal, start, faults, tries, told, dangling>>

-----------------------------------------------------------------------------
(* The workers.  ConnectFailed gives the link free before it closes the    *)
(* socket, so that the next attempt has another one.                       *)
ConnectFailed(l) ==
  /\ <<"failed", l>> \in tasks
  /\ tasks' = (tasks \ {<<"failed", l>>}) \union
              (IF link[l].sock = Null THEN {} ELSE {<<"close", link[l].sock>>})
  /\ link' = [link EXCEPT ![l] = Failed(@)]
  /\ Tell(l)
  /\ UNCHANGED <<engine, kernel, attached, poll, signal, start, faults, tries, dangling>>

CloseFailed(s) ==
  /\ <<"close", s>> \in tasks
  /\ tasks' = tasks \ {<<"close", s>>}
  /\ kernel' = [kernel EXCEPT ![s] = NoSocket]
  /\ UNCHANGED <<engine, link, attached, poll, signal, start, faults, tries, told, dangling>>

ConnectWorker(s) ==
  /\ attached[s] = "posted"
  /\ attached' = [attached EXCEPT ![s] = "open"]
  /\ UNCHANGED <<engine, link, kernel, poll, tasks, signal, start, faults, tries, told, dangling>>

(* SetServerClose, by socket number.                                       *)
SetServerClose(s) ==
  link' = [l \in Links |-> IF link[l].sock = s /\ link[l].state # "deleted"
                           THEN Failed(link[l]) ELSE link[l]]

(* A connection is closed, by either side, and the server told.            *)
CloseLink(s) ==
  /\ Idle /\ attached[s] = "open"
  /\ IF engine = "st"
     THEN /\ attached' = [attached EXCEPT ![s] = "none"]
          /\ kernel' = [kernel EXCEPT ![s] = NoSocket]
          /\ SetServerClose(s)
     ELSE attached' = [attached EXCEPT ![s] = "closing"] /\ UNCHANGED <<kernel, link>>
  /\ UNCHANGED <<engine, poll, tasks, signal, start, faults, tries, told, dangling>>

CloseUnset(s) ==   \* mutant: the link is not told
  /\ attached[s] = "closing"
  /\ attached' = [attached EXCEPT ![s] = "told"]
  /\ UNCHANGED <<engine, link, kernel, poll, tasks, signal, start, faults, tries, told, dangling>>
CloseWorker(s) ==
  /\ attached[s] = "closing"
  /\ attached' = [attached EXCEPT ![s] = "told"]
  /\ SetServerClose(s)
  /\ UNCHANGED <<engine, kernel, poll, tasks, signal, start, faults, tries, told, dangling>>

CloseLinkSocket(s) ==
  /\ attached[s] = "told"
  /\ attached' = [attached EXCEPT ![s] = "none"]
  /\ kernel' = [kernel EXCEPT ![s] = NoSocket]
  /\ UNCHANGED <<engine, link, poll, tasks, signal, start, faults, tries, told, dangling>>

-----------------------------------------------------------------------------
Network == \E s \in Socks : Establish(s) \/ Refuse(s) \/ Arrives(s)
Server  == \E l \in Links : Connect(l)
Main    == \E l \in Links : ConnectAgain(l) \/ DeleteLink(l)
Poller  == Select \/ ConnectThread \/ WaitReturns \/ WaitEnds \/ Later \/ StepA \/ EndA \/ StepB \/ MarkConnected
           \/ EndB \/ Wake \/ Again
Workers == \/ \E l \in Links : ConnectFailed(l)
           \/ \E s \in Socks : CloseFailed(s) \/ ConnectWorker(s) \/ CloseWorker(s) \/ CloseLinkSocket(s)

LinksNext == Network \/ Server \/ Main \/ Poller \/ Workers \/ \E s \in Socks : CloseLink(s)

LinksSpec == LinksInit /\ [][LinksNext]_linksVars

(* The thread that waits for results goes on, and so do the workers; epoll *)
(* returns at last.  Of servers, closes and attempts nothing is assumed.   *)
LiveLinks == LinksSpec /\ WF_linksVars(Poller) /\ WF_linksVars(Workers)

-----------------------------------------------------------------------------
LinksTypeOK ==
  /\ engine \in Engines /\ link \in [Links -> SVR_CONNECT]
  /\ kernel \in [Socks -> [at : {"free", "connecting", "up", "refused"}, data : BOOLEAN,
                           watched : Links \union {Null}, news : BOOLEAN]]
  /\ attached \in [Socks -> {"none", "posted", "open", "closing", "told"}]
  /\ poll \in [pc : {"idle", "wait", "A", "B", "sleep", "io"}, clients : Seq(Links),
               events : Seq([link : Links, readable : BOOLEAN]), count : Nat, monitored : Nat,
               finished : BOOLEAN, mark : Links \union {Null}]
  /\ tasks \subseteq ({"failed"} \X Links) \union ({"close"} \X Socks)
  /\ {signal, dangling} \subseteq BOOLEAN /\ start \in 0..Patience /\ faults \in 0..MaxFaults
  /\ tries \in [Links -> 0..MaxTries] /\ told \in [Links -> 0..2]

(* What the engine asserts (mdk_assert in Select, ConnectThread and        *)
(* EpollConnect): a link that waits for a result has a socket, and a       *)
(* socket that was given to epoll is still there when it is taken out,     *)
(* whatever workers have closed in the meantime.                           *)
Asserted ==
  /\ \A l \in Links : link[l].state = "connectting" => link[l].sock # Null
  /\ poll.pc = "A" => \A l \in ToSet(poll.clients) :
       link[l].inEpoll => link[l].sock # Null /\ kernel[link[l].sock].watched = l

(* No socket is lost: each that is open has a link, a connection or a task *)
(* that will close it, and no two links have the same.                     *)
NoSocketLost ==
  /\ \A s \in Socks : kernel[s].at # "free" =>
       attached[s] # "none" \/ <<"close", s>> \in tasks \/ \E l \in Links : link[l].sock = s
  /\ \A k, l \in Links : k # l /\ link[k].sock # Null /\ link[k].state # "deleted"
                           /\ link[l].state # "deleted" => link[k].sock # link[l].sock
  /\ \A l \in Links : link[l].sock # Null /\ link[l].state # "deleted" => kernel[link[l].sock].at # "free"

(* In the multi-threaded engine the server hears of an attempt once:       *)
(* OnConnect or OnConnectFailed.  (The single-threaded engine tries a      *)
(* socket twice when epoll watched it before.)                             *)
ToldOnce == engine = "mt" => \A l \in Links : told[l] <= 1

(* An attempt does not stay without result: the thread that waits for      *)
(* results sleeps only when nobody waits, and is woken in time.            *)
AttemptEnds == \A l \in Links : link[l].state \in {"connectting", "unconnectting"}
                                  ~> link[l].state \notin {"connectting", "unconnectting"}

(* A link that is to be kept and has lost its connection is not connected  *)
(* for ever: it becomes one that ConnectAll tries again.                   *)
Reconnects == \A l \in Keep : (link[l].state = "connected" /\ link[l].sock = Null)
                                ~> link[l].state # "connected"

(* What holds of the links and their sockets at every moment.              *)
LinksInv == LinksTypeOK /\ Asserted /\ NoSocketLost /\ ToldOnce
=============================================================================
