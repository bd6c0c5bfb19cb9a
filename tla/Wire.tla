-------------------------------- MODULE Wire --------------------------------
(***************************************************************************)
(* Requests and replies between a client and the servers: the C++ client   *)
(* (Client, GMap, GSrc, the rounds of GCluster::Move), the batches of the  *)
(* Java client (GCluster.AddPoints over NetConnect), and the handlers of   *)
(* the nodes (gmap/Worker.cpp) and of the cluster's registry               *)
(* (gsrc/Worker.cpp).                                                      *)
(*                                                                         *)
(* A request has no number by which its reply could be told: the next      *)
(* message on the connection is taken for it.  A server handles a message  *)
(* when all of it has arrived; a client that gives up waiting closes the   *)
(* connection.  A connection may break at any time; a server may still     *)
(* handle what it has received on one that is broken or closed.            *)
(*                                                                         *)
(* Client::ReadMsg looks at the head of a message until it has seen eight  *)
(* bytes, each time from the first byte on, and puts what it sees behind   *)
(* what it has seen: if the first look shows less than the four bytes of   *)
(* the length, a wrong length comes of it.                                 *)
(***************************************************************************)
EXTENDS Messages

CONSTANTS
  Servers,        \* the nodes and the registry
  Gsrc,           \* the registry
  Config,         \* Config[i]: [line, node] of node i in the registry's file
  Plans,          \* the tasks clients of the model have
  MaxLinks,       \* bound of the model: connections
  MaxBreaks,      \* bound of the model: connections that break
  MaxLen,         \* the space StartGet compares a length with (MAX_MSG_SIZE)
  PointOf(_), LineOf(_),  \* the point and the line of an id
  Reached(_),     \* the end points a node finds from ids, as a sequence
  Left(_),        \* the ids of lines a node leaves to others
  NoOpts          \* no search is set up

ASSUME WireAssumption ==
  /\ Servers \subseteq Nat /\ Gsrc \in Servers
  /\ {MaxLinks, MaxBreaks, MaxLen} \subseteq Nat

VARIABLES
  plan,      \* the tasks of this client, which do not change
  no,        \* number of the task it is at
  todo,      \* messages of the task that are not sent, [to, m]
  waiting,   \* servers it has to hear from, in order, [from, replies]
  got,       \* what it has heard for the task, [from, id, p]
  result,    \* how the task has ended: "success", "refused", "error"; "none"
  stuck,     \* it waits for the rest of a message that is not as long
  conn,      \* conn[s]: its connection to server s, 0 if none
  links,     \* the connections there have been
  breaks,    \* connections that have broken
  stored,    \* stored[s]: the batches server s has executed (history)
  done       \* the requests executed (history)

client == <<no, todo, waiting, got, result, stuck>>
vars == <<plan, client, conn, links, breaks, stored, done>>

-----------------------------------------------------------------------------
(* Tasks.  A query is one request; a search is a round of GCluster::Move;  *)
(* a batch is created at several nodes; "services" asks the registry for   *)
(* the nodes until it names no more.                                       *)
Task == plan[no]

Request(id, p) == [id |-> id, result |-> FALSE, code |-> "success", p |-> p]
Reply(id, code, p) == [id |-> id, result |-> TRUE, code |-> code, p |-> p]

\* callCount: MsgMove takes MaxIds ids, and a reply is awaited for each.
CallCount(ids) == Len(ids) \div MaxIds + (IF Len(ids) % MaxIds # 0 THEN 1 ELSE 0)

\* Only the last has what comes after the ids, and starts the search.
MoveRequests(ids, end) ==
  [k \in 1 .. CallCount(ids) |->
     LET moveStart == k = CallCount(ids)
         part == SubSeq(ids, (k - 1) * MaxIds + 1, IF moveStart THEN Len(ids) ELSE k * MaxIds)
         search == [searchId |-> no, moveStart |-> moveStart, ids |-> part]
     IN Request("move", IF moveStart THEN search @@ end ELSE search)]

SearchRequests(t, s) ==
  <<Request("setMoveOpt", t.opt)>>
    \o MoveRequests(t.ids[s], [fromPoint |-> t.fromPoint, filterStart |-> FALSE])

SetPointsRequests(points) ==
  LET list(isEnd, ps) == Request("setPoints", [isEnd |-> isEnd, isCreate |-> TRUE, points |-> ps])
      parcels == Parcels(points, LAMBDA p : AddPoint(p, TRUE, {}), <<Char(0), Char(0)>>)
  IN [i \in DOMAIN parcels |-> list(FALSE, parcels[i])] \o <<list(TRUE, <<>>)>>

ClusterRequest(start) == Request("getCluster", [serviceType |-> "gmap", start |-> start])

Asked(t) == {s \in Servers : t.ids[s] # <<>>}
InOrder(S) == SetToSortSeq(S, <)
To(s, ms) == [i \in DOMAIN ms |-> [to |-> s, m |-> ms[i]]]

Sends(t) ==
  CASE t.kind = "query" -> To(t.server, <<t.m>>)
    [] t.kind = "services" -> To(Gsrc, <<ClusterRequest(1)>>)
    [] t.kind = "search" ->
         FlattenSeq([i \in 1 .. Cardinality(Asked(t)) |->
                       LET s == InOrder(Asked(t))[i] IN To(s, SearchRequests(t, s))])
    [] t.kind = "batch" ->
         FlattenSeq([i \in 1 .. Cardinality(Asked(t)) |->
                       LET s == InOrder(Asked(t))[i] IN To(s, SetPointsRequests(t.ids[s]))])

Hears(t) ==
  CASE t.kind = "query" -> <<[from |-> t.server, replies |-> 1]>>
    [] t.kind = "services" -> <<[from |-> Gsrc, replies |-> 1]>>
    [] t.kind \in {"search", "batch"} ->
         [i \in 1 .. Cardinality(Asked(t)) |->
            LET s == InOrder(Asked(t))[i]
            IN [from |-> s, replies |-> IF t.kind = "search" THEN CallCount(t.ids[s]) ELSE 1]]

Begin ==
  /\ no < Len(plan) /\ result # "none"
  /\ no' = no + 1 /\ got' = <<>>
  /\ todo' = Sends(plan[no + 1]) /\ waiting' = Hears(plan[no + 1])
  /\ result' = "none" /\ stuck' = FALSE
  /\ UNCHANGED <<plan, conn, links, breaks, stored, done>>

-----------------------------------------------------------------------------
(* Connections.                                                            *)
NewLink(s) == [server |-> s, open |-> TRUE, alive |-> TRUE, up |-> <<>>, down |-> <<>>,
               opts |-> NoOpts, batch |-> <<>>]

\* Client::Close, and GCluster::CloseCluster, which closes all.
CloseTo(S) ==
  /\ conn' = [s \in Servers |-> IF s \in S THEN 0 ELSE conn[s]]
  /\ links' = [c \in DOMAIN links |->
                 IF \E s \in S : conn[s] = c THEN [links[c] EXCEPT !.open = FALSE, !.down = <<>>]
                 ELSE links[c]]

\* A task of one server closes its connection if that is out of step; one of
\* several closes all.
Closes(s) == IF Task.kind \in {"search", "batch"} THEN Servers ELSE s

End(r) == result' = r /\ todo' = <<>> /\ waiting' = <<>> /\ stuck' = FALSE /\ UNCHANGED <<no, got>>

GiveUp(r, s) ==
  /\ End(r) /\ CloseTo(Closes(s))
  /\ UNCHANGED <<plan, breaks, stored, done>>

Break(c) ==
  /\ links[c].alive /\ links[c].open /\ breaks < MaxBreaks
  /\ links' = [links EXCEPT ![c].alive = FALSE]
  /\ breaks' = breaks + 1
  /\ UNCHANGED <<plan, client, conn, stored, done>>

-----------------------------------------------------------------------------
(* Sending.                                                                *)
Next1 == Head(todo)
Parcel(m) == [no |-> <<no, Len(got), Len(todo)>>, m |-> m, w |-> Wire(m)]
Sent == /\ todo' = Tail(todo)
        /\ UNCHANGED <<plan, no, waiting, got, result, stuck, breaks, stored, done>>

\* Build fails: nothing is sent.
NotBuilt ==
  /\ todo # <<>> /\ ~ Build(Next1.m)
  /\ GiveUp("error", {})

\* A message goes out on the connection there is, or is lost with it.
Send ==
  LET c == conn[Next1.to] IN
  /\ todo # <<>> /\ Build(Next1.m)
  /\ c # 0
  /\ Sent /\ UNCHANGED conn
  /\ IF links[c].alive THEN links' = [links EXCEPT ![c].up = Append(@, Parcel(Next1.m))]
     ELSE UNCHANGED links

\* Mutant: Send of a batch, too, is tried again on a new connection.
ReconnectAlways ==
  LET s == Next1.to
      c == conn[s]
      closed == [d \in DOMAIN links |->
                   IF d = c THEN [links[d] EXCEPT !.open = FALSE, !.down = <<>>] ELSE links[d]]
  IN /\ todo # <<>> /\ Build(Next1.m)
     /\ c # 0 => ~ links[c].alive
     /\ Len(links) < MaxLinks
     /\ links' = Append(closed, [NewLink(s) EXCEPT !.up = <<Parcel(Next1.m)>>])
     /\ conn' = [conn EXCEPT ![s] = Len(links) + 1]
     /\ Sent

\* Connect and Send: the connection is new, or takes the place of one on
\* which Send has failed.  The Java client does not try a second time.
Reconnect ==
  LET s == Next1.to
      c == conn[s]
      closed == [d \in DOMAIN links |->
                   IF d = c THEN [links[d] EXCEPT !.open = FALSE, !.down = <<>>] ELSE links[d]]
  IN /\ todo # <<>> /\ Build(Next1.m)
     /\ c # 0 => ~ links[c].alive /\ Task.kind # "batch"
     /\ Len(links) < MaxLinks
     /\ links' = Append(closed, [NewLink(s) EXCEPT !.up = <<Parcel(Next1.m)>>])
     /\ conn' = [conn EXCEPT ![s] = Len(links) + 1]
     /\ Sent

\* No server answers, or Send fails and is not tried again.
SendFails ==
  LET c == conn[Next1.to] IN
  /\ todo # <<>> /\ Build(Next1.m)
  /\ c # 0 => ~ links[c].alive
  /\ GiveUp("error", {Next1.to})

-----------------------------------------------------------------------------
(* Reading.                                                                *)
From == Head(waiting).from
Reading == todo = <<>> /\ waiting # <<>>
Link == links[conn[From]]
ReadMsgFails == GiveUp("error", {From})

\* Mutants: the connection is kept after a timeout; there is no timeout; a
\* query that has not been answered is sent once more.
TimeoutKeeps == Reading /\ End("error") /\ UNCHANGED <<plan, conn, links, breaks, stored, done>>
TimeoutNever == FALSE /\ ReadMsgFails

\* Nothing has come in time.
Timeout == Reading /\ ReadMsgFails

\* The connection is found broken or closed.
ReceiveFails == Reading /\ ~ Link.alive /\ ReadMsgFails

\* The length in a head of which the first look has shown k bytes.
LengthRead(len, k) ==
  CASE k = 0 -> len
    [] k = 1 -> len + 256 * len
    [] k \in {2, 3} -> MaxLen + 1

\* The head is read wrong: the length is impossible, or more than comes.
ReadHeaderTorn ==
  /\ Reading /\ ~ stuck /\ Task.kind # "batch" /\ Link.down # <<>>
  /\ \E k \in 1 .. 3 :
       IF LengthRead(Bytes(Head(Link.down).w), k) > MaxLen THEN ReadMsgFails
       ELSE /\ stuck' = TRUE
            /\ UNCHANGED <<plan, no, todo, waiting, got, result, conn, links, breaks, stored, done>>

\* A node is heard out when the replies awaited from it are in.
Heard(replies) ==
  /\ IF replies = 0 THEN waiting' = Tail(waiting)
     ELSE waiting' = <<[Head(waiting) EXCEPT !.replies = replies]>> \o Tail(waiting)
  /\ result' = IF waiting' = <<>> THEN "success" ELSE "none"

MovePart(w) ==
  /\ w.id \in {"move", "points", "moveMids"}
  /\ Heard(Head(waiting).replies - (IF w.id = "move" THEN 1 ELSE 0))
  /\ UNCHANGED todo

NodesNamed(cluster) == FoldLeft(LAMBDA n, g : n + Len(g.nodes), 0, cluster)

ServicesPart(p) ==
  IF p.cluster = <<>> THEN Heard(0) /\ UNCHANGED todo
  ELSE /\ todo' = To(Gsrc, <<ClusterRequest(p.start + NodesNamed(p.cluster))>>)
       /\ UNCHANGED <<waiting, result>>

Take(w) ==
  /\ CASE Task.kind = "search" -> MovePart(w)
       [] Task.kind = "services" -> ServicesPart(Parse(w))
       [] OTHER -> Heard(0) /\ UNCHANGED todo
  /\ got' = Append(got, [from |-> From, id |-> w.id, p |-> Parse(w)])
  /\ links' = [links EXCEPT ![conn[From]].down = Tail(@)]
  /\ UNCHANGED <<plan, no, stuck, conn, breaks, stored, done>>

Wrong(w) == \/ ~ Reads(w)
            \/ Task.kind = "search" /\ w.id \notin {"move", "points", "moveMids"}

\* An error keeps the connection of a query.
Refused ==
  /\ End("refused")
  /\ LET read == [links EXCEPT ![conn[From]].down = Tail(@)] IN
     IF Closes({}) = {} THEN links' = read /\ UNCHANGED conn ELSE CloseTo(Servers)
  /\ UNCHANGED <<plan, breaks, stored, done>>

ReadMsg ==
  /\ Reading /\ ~ stuck /\ Link.down # <<>>
  /\ LET w == Head(Link.down).w
     IN IF Wrong(w) THEN ReadMsgFails
        ELSE IF w.code # "success" THEN Refused
        ELSE Take(w)

-----------------------------------------------------------------------------
(* Handling.  A handler replies, and changes what the server keeps for the *)
(* connection: the set-up of its searches and the points of its batch.     *)
Kept(l, replies) == [replies |-> replies, opts |-> l.opts, batch |-> l.batch]
Refusal(id) == Reply(id, "refuse", <<>>)
OneOf(l, id, p) == {Kept(l, <<Reply(id, "success", p)>>), Kept(l, <<Refusal(id)>>)}

OnNewId(l, p) == OneOf(l, "newId", [count |-> p.count, newId |-> 1])
OnSetPoint(l, p) == OneOf(l, "setPoint", <<>>)
OnAddLineForPoint(l, p) == OneOf(l, "addLineForPoint", <<>>)
OnDelLineForPoint(l, p) == OneOf(l, "delLineForPoint", <<>>)
OnGetPoint(l, p) == OneOf(l, "getPoint", [point |-> PointOf(p.pointId)])
OnAddLine(l, p) == OneOf(l, "addLine", <<>>)
OnDelLine(l, p) ==
  OneOf(l, "delLine", [startId |-> LineOf(p.lineId).startId, endId |-> LineOf(p.lineId).endId])
OnGetLine(l, p) == OneOf(l, "getLine", [line |-> LineOf(p.lineId)])
OnDelPoint(l, p) == OneOf(l, "delPoint", <<>>)
OnGetClientId(l, p) == OneOf(l, "getClientId", [clientId |-> 1])

\* Mutant: opt.ids is not cleared.
OnSetMoveOptKeeps(l, p) ==
  {[replies |-> <<>>, batch |-> l.batch,
    opts |-> [set |-> p, ids |-> IF l.opts = NoOpts THEN <<>> ELSE l.opts.ids]]}

\* There is no reply to it.
OnSetMoveOpt(l, p) == {[replies |-> <<>>, opts |-> [set |-> p, ids |-> <<>>], batch |-> l.batch]}

SearchReplies(opts) ==
  LET names == ToSet(opts.set.getFields)
      points == Parcels(Reached(opts.ids), LAMBDA q : AddPoint(q, opts.set.selectAll, names), <<>>)
      mids == Parcels(Left(opts.ids), LAMBDA i : <<Int64(i)>>, <<Char(0), Char(TRUE)>>)
  IN [i \in DOMAIN points |->
        Reply("points", "success", [points |-> points[i], selectAll |-> opts.set.selectAll, names |-> names])]
     \o [i \in DOMAIN mids |->
          Reply("moveMids", "success", [lineIndex |-> 0, isLine |-> TRUE, ids |-> mids[i]])]
     \o <<Reply("move", "success", <<>>)>>

OnMove(l, p) ==
  IF l.opts = NoOpts THEN {Kept(l, <<Refusal("move")>>)}
  ELSE LET opts == [l.opts EXCEPT !.ids = @ \o p.ids]
           with(replies) == [replies |-> replies, opts |-> opts, batch |-> l.batch]
       IN IF ~ p.moveStart THEN {with(<<>>)}
          ELSE {with(SearchReplies(opts)), with(<<Refusal("move")>>)}

OnSetPoints(l, p) ==
  IF p.isEnd THEN {[r EXCEPT !.batch = <<>>] : r \in OneOf(l, "setPoints", <<>>)}
  ELSE {[replies |-> <<>>, opts |-> l.opts, batch |-> l.batch \o p.points]}

\* Two nodes a reply, by network.
OnGetCluster(l, p) ==
  LET named == {i \in DOMAIN Config : i \in p.start .. p.start + 1}
      lines == SetToSortSeq({Config[i].line : i \in named}, <)
      of(line) == SetToSortSeq({i \in named : Config[i].line = line}, <)
      nodes(line) == [k \in DOMAIN of(line) |-> Config[of(line)[k]].node]
  IN {Kept(l, <<Reply("getCluster", "success",
        p @@ [cluster |-> [k \in DOMAIN lines |-> [line |-> lines[k], nodes |-> nodes(lines[k])]]])>>),
      Kept(l, <<>>)}

Handler(l, id, p) ==
  CASE id = "newId" -> OnNewId(l, p)
    [] id = "setPoint" -> OnSetPoint(l, p)
    [] id = "addLineForPoint" -> OnAddLineForPoint(l, p)
    [] id = "delLineForPoint" -> OnDelLineForPoint(l, p)
    [] id = "getPoint" -> OnGetPoint(l, p)
    [] id = "addLine" -> OnAddLine(l, p)
    [] id = "delLine" -> OnDelLine(l, p)
    [] id = "getLine" -> OnGetLine(l, p)
    [] id = "delPoint" -> OnDelPoint(l, p)
    [] id = "setMoveOpt" -> OnSetMoveOpt(l, p)
    [] id = "move" -> OnMove(l, p)
    [] id = "setPoints" -> OnSetPoints(l, p)
    [] id = "getCluster" -> OnGetCluster(l, p)
    [] id = "getClientId" -> OnGetClientId(l, p)

\* OnMsg: a message that has arrived as a whole; one that cannot be parsed
\* closes the connection.
OnMsg(c) ==
  LET l == links[c]
      e == Head(l.up)
      answer(r) == [k \in DOMAIN r.replies |-> [no |-> e.no, m |-> r.replies[k], w |-> Wire(r.replies[k])]]
  IN /\ l.up # <<>>
     /\ done' = Append(done, e.no)
     /\ IF ~ Reads(e.w)
        THEN links' = [links EXCEPT ![c].alive = FALSE, ![c].up = <<>>] /\ UNCHANGED stored
        ELSE \E r \in Handler(l, e.w.id, Parse(e.w)) :
               /\ links' = [links EXCEPT ![c].up = Tail(@), ![c].opts = r.opts, ![c].batch = r.batch,
                                         ![c].down = IF l.alive /\ l.open THEN @ \o answer(r) ELSE @]
               /\ stored' = IF e.w.id = "setPoints" /\ Parse(e.w).isEnd
                            THEN [stored EXCEPT ![l.server] = @ \union {l.batch}] ELSE stored
     /\ UNCHANGED <<plan, client, conn, breaks>>

\* A server finds a connection closed or broken: what it has not handled is
\* gone, and what it has kept.
OnCloseConnect(c) ==
  /\ ~ (links[c].open /\ links[c].alive)
  /\ links[c] # [NewLink(links[c].server) EXCEPT !.open = links[c].open, !.alive = FALSE]
  /\ links' = [links EXCEPT ![c] = [NewLink(@.server) EXCEPT !.open = links[c].open, !.alive = FALSE]]
  /\ UNCHANGED <<plan, client, conn, breaks, stored, done>>

-----------------------------------------------------------------------------
Init ==
  /\ plan \in Plans
  /\ no = 0 /\ todo = <<>> /\ waiting = <<>> /\ got = <<>>
  /\ result = "success" /\ stuck = FALSE
  /\ conn = [s \in Servers |-> 0] /\ links = <<>> /\ breaks = 0
  /\ stored = [s \in Servers |-> {}] /\ done = <<>>

ClientStep == \/ Begin \/ NotBuilt \/ Send \/ Reconnect \/ SendFails
              \/ Timeout \/ ReceiveFails \/ ReadHeaderTorn \/ ReadMsg

Next == \/ ClientStep
        \/ \E c \in DOMAIN links : OnMsg(c) \/ OnCloseConnect(c) \/ Break(c)

Spec == Init /\ [][Next]_vars /\ WF_vars(ClientStep)
-----------------------------------------------------------------------------
(* Properties.                                                             *)

\* What is in the variables is of their types.
TypeOK ==
  /\ no \in 0 .. Len(plan) /\ result \in {"none", "success", "refused", "error"}
  /\ stuck \in BOOLEAN /\ breaks \in 0 .. MaxBreaks /\ Len(links) <= MaxLinks
  /\ \A s \in Servers : conn[s] \in 0 .. Len(links)
  /\ \A s \in Servers : conn[s] # 0 => links[conn[s]].server = s /\ links[conn[s]].open
  /\ \A i \in DOMAIN todo : todo[i].to \in Servers
  /\ \A i \in DOMAIN waiting : waiting[i].from \in Servers /\ waiting[i].replies \in Nat \ {0}

\* What the receiver has to learn from a message: no filters of a route that
\* takes all lines, and of points only the fields that are chosen.
Meaning(m) ==
  CASE m.id = "setMoveOpt" ->
         [m.p EXCEPT !.routes = [i \in DOMAIN @ |->
            IF @[i].moveAll THEN [@[i] EXCEPT !.fields = <<>>] ELSE @[i]]]
    [] m.id = "points" ->
         [points |-> [i \in DOMAIN m.p.points |->
            [m.p.points[i] EXCEPT !.data =
               SelectSeq(@, LAMBDA f : m.p.selectAll \/ f.name \in m.p.names)]]]
    [] OTHER -> m.p

\* What is on its way is understood as it is meant, by Parse of the code that
\* did not write it, however a list is cut into messages and whatever the byte
\* order of either host.
Understood ==
  /\ OrdersAgree
  /\ \A c \in DOMAIN links :
       \A e \in ToSet(links[c].up) \union ToSet(links[c].down) : Parse(e.w) = Meaning(e.m)

\* A client that waits for a reply finds on the connection replies to the task
\* it is at and to no earlier one, though nothing in a reply tells them apart:
\* it closes the connections on which something may still come (Client.cpp:74,
\* GCluster::CloseCluster).
OwnReply ==
  \A s \in Servers : conn[s] # 0 =>
    \A i \in DOMAIN links[conn[s]].down :
      /\ links[conn[s]].down[i].no[1] = no
      /\ result = "none"

\* No request is executed twice, although the client sends it a second time
\* when Send fails (Client.cpp:72-90).
Once == IsInjective(done)

\* A batch is executed with all the points that the client has put into it:
\* the parts of one that has broken off do not mix with those of another.
BatchWhole ==
  \A s \in Servers : \A batch \in stored[s] :
    \E i \in 1 .. no : plan[i].kind = "batch" /\ batch = plan[i].ids[s]

Heard1(s, id, list(_)) ==
  FlattenSeq([i \in DOMAIN got |-> IF got[i].from = s /\ got[i].id = id THEN list(got[i].p) ELSE <<>>])

Named(p) == FlattenSeq([i \in DOMAIN p.cluster |-> p.cluster[i].nodes])

\* The answer a task has to have.
Answered(t) ==
  CASE t.kind = "query" ->
         \E l \in {NewLink(t.server)} : \E r \in Handler(l, t.m.id, t.m.p) :
           r.replies[1].code = "success" /\ got[1].p = r.replies[1].p /\ Len(got) = 1
    [] t.kind = "services" ->
         ToSet(Heard1(Gsrc, "getCluster", Named)) = {Config[i].node : i \in DOMAIN Config}
    [] t.kind = "search" ->
         \A s \in Servers :
           /\ Heard1(s, "points", LAMBDA p : p.points)
                = Meaning(Reply("points", "success",
                    [points |-> Reached(t.ids[s]), selectAll |-> t.opt.selectAll,
                     names |-> ToSet(t.opt.getFields)])).points
           /\ Heard1(s, "moveMids", LAMBDA p : p.ids) = Left(t.ids[s])
    [] t.kind = "batch" -> \A s \in Asked(t) : t.ids[s] \in stored[s]

\* A task that ends in success has all of its answer, and nothing else: the
\* reply to a query, all nodes of the cluster, every point and line that the
\* nodes have found for the ids of this search, the batch at every node.
Whole == no > 0 /\ result = "success" => Answered(Task)

\* Every task ends: a client that hears nothing gives up.
Ends == (result = "none") ~> (result # "none")

(* What holds of the connections and of the nodes at every moment.         *)
Inv == TypeOK /\ OwnReply /\ Once /\ BatchWhole
=============================================================================
