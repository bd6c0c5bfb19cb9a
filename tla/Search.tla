------------------------------- MODULE Search -------------------------------
(***************************************************************************)
(* A search over the cluster (GCluster::Move of the C++ and Java clients,  *)
(* Worker::OnMove and GridStore::Move of the nodes) that gets points.      *)
(*                                                                         *)
(* A search starts from points and follows routes: along each, from every  *)
(* point reached, over the lines the route selects to the points at their  *)
(* other ends that pass the filter.  A node walks as far as its own points *)
(* and lines allow and answers with the end points it has reached and, for *)
(* each route, the lines and points it has to leave to other nodes.  The   *)
(* client asks these, one round after the other, until nothing is left.    *)
(*                                                                         *)
(* Graphs stand still while they are searched; the lists of points and the *)
(* lines they name need not agree.  A reply is one message (MsgPoints, then *)
(* MsgMoveMids, then MsgMove in the code); a client asks a node for at most *)
(* 1000 ids a round, and a search has less than ten routes.                *)
(***************************************************************************)
EXTENDS Objects, Naturals, Sequences, FiniteSets

CONSTANTS
  Nodes,        \* node numbers
  Worlds,       \* the clusters and clients of the model, see WorldSet
  MaxRoutes     \* bound of the model: routes of a search

Ends   == [Sides -> Points]
Routes == [side : Sides, take : SUBSET Lines]

QuerySet == [starts : SUBSET Points \ {{}}, filter : SUBSET Points,
             routes : UNION {[1 .. n -> Routes] : n \in 0 .. MaxRoutes}]

\* owner: the node of a point or line; points and lines: those that exist;
\* ends[l]: the points in whose lists line l is; sdk: the client's library;
\* plan: the searches it makes.
WorldSet == [owner : [Points \union Lines -> Nodes],
             points : SUBSET Points, lines : SUBSET Lines, ends : [Lines -> Ends],
             sdk : {"java", "cpp"}, plan : Seq(QuerySet)]

Ids == Points \union Lines

MidsSet == [1 .. MaxRoutes -> [lines : SUBSET Lines, points : SUBSET Points]]

SearchSet ==
  [query : QuerySet, routes : UNION {[1 .. n -> Routes] : n \in 0 .. MaxRoutes},
   found : SUBSET Points, mids : MidsSet, fromPoint : BOOLEAN, startFilter : BOOLEAN,
   ids : SUBSET Ids, unsent : SUBSET Nodes, unread : SUBSET Nodes]

ASSUME SearchAssumption ==
  /\ Nodes \subseteq Nat /\ IsFiniteSet(Nodes)
  /\ Points \intersect Lines = {}
  /\ MaxRoutes \in 1 .. 9
  /\ Worlds \subseteq WorldSet
  /\ None \notin SearchSet

VARIABLES
  world,     \* the cluster and the client, which do not change
  search,    \* the search the client is at, or None
  asked,     \* number of searches so far
  requests,  \* requests[n]: sent on the connection to node n, not executed
  replies,   \* replies[n]: sent by node n, not read
  mark,      \* mark[p]: the last search p was an end point of (searchNo)
  failed,    \* a search has failed (history)
  answer     \* what the last search has returned, None if it failed (history)

net == <<requests, replies>>
searchVars == <<world, search, asked, requests, replies, mark, failed, answer>>

-----------------------------------------------------------------------------
(* Walking.  A route leads over the lines in the lists of one side of the  *)
(* points to the points at the lines' other ends.                          *)
Opposite(side) == IF side = "out" THEN "in" ELSE "out"

Listed(S, side) == {l \in Lines : world.ends[l][side] \in S}

(* LoadPoint and LoadLine: a line or point that is listed may be gone, or  *)
(* not be there yet; it is passed over and stays listed.                   *)
LoadPoint(L) == L \intersect world.lines
LoadLine(S)  == S \intersect world.points

FarEnds(L, route) ==
  {world.ends[l][Opposite(route.side)] : l \in LoadPoint(L) \intersect route.take}

Own(n, S)  == {x \in S : world.owner[x] = n}
Away(n, S) == S \ Own(n, S)

(* What a search has to find: the points at the end of its routes.         *)
Reference(q) ==
  LET reached[k \in 0 .. Len(q.routes)] ==
        IF k = 0
        THEN IF q.routes = <<>> THEN q.starts \intersect world.points \intersect q.filter
                                ELSE q.starts \intersect world.points
        ELSE FarEnds(Listed(reached[k - 1], q.routes[k].side), q.routes[k])
               \intersect world.points \intersect q.filter
  IN reached[Len(q.routes)]

-----------------------------------------------------------------------------
(* The nodes (GridStore::Move).  The last points of a walk are marked with *)
(* the number of the search and are not reported twice.                    *)
Started(r) ==
  IF ~r.fromPoint THEN {}
  ELSE IF r.startFilter THEN r.ids \intersect world.points \intersect r.filter
  ELSE r.ids \intersect world.points

Unmarked(r, S) == {p \in S : mark[p] # r.no}

(* The lines of route k that lie ahead after the points in prev.           *)
Ahead(r, k, prev) ==
  IF k = 1 /\ ~r.fromPoint THEN r.ids ELSE Listed(prev, r.routes[k].side)

Arrived(n, r, k, prev) == FarEnds(Own(n, Ahead(r, k, prev)), r.routes[k])

(* Walk(n, r)[k]: the points of node n reached on route k; Walk(n, r)[0]:  *)
(* those it starts from.                                                   *)
Walk(n, r) ==
  LET reached[k \in 0 .. Len(r.routes)] ==
        IF k = 0 THEN Started(r)
        ELSE LoadLine(Own(n, Arrived(n, r, k, reached[k - 1]))) \intersect r.filter
  IN reached

Left(n, r, k) ==
  [lines  |-> Away(n, Ahead(r, k, Walk(n, r)[k - 1])),
   points |-> Away(n, Arrived(n, r, k, Walk(n, r)[k - 1]))]

Nothing == [lines |-> {}, points |-> {}]

Reply(n, r) ==
  [ok   |-> TRUE,
   ends |-> Unmarked(r, Walk(n, r)[Len(r.routes)]),
   mids |-> [k \in 1 .. MaxRoutes |-> IF k <= Len(r.routes) THEN Left(n, r, k) ELSE Nothing]]

(* The end points that are marked, those the filter drops included.        *)
MarkedBy(n, r) ==
  IF r.routes = <<>> THEN r.ids \intersect world.points
  ELSE LET k == Len(r.routes)
       IN LoadLine(Own(n, Arrived(n, r, k, Walk(n, r)[k - 1])))

Refused == [ok |-> FALSE, ends |-> {}, mids |-> [k \in 1 .. MaxRoutes |-> Nothing]]

(* Worker::OnMove; a connection on which no MsgSetMoveOpt came is refused. *)
OnMove(n) ==
  /\ requests[n] # <<>>
  /\ LET r == Head(requests[n])
     IN IF r.opts
        THEN /\ replies' = [replies EXCEPT ![n] = Append(@, Reply(n, r))]
             /\ mark' = [p \in Points |-> IF p \in MarkedBy(n, r) THEN r.no ELSE mark[p]]
        ELSE /\ replies' = [replies EXCEPT ![n] = Append(@, Refused)]
             /\ UNCHANGED mark
  /\ requests' = [requests EXCEPT ![n] = Tail(@)]
  /\ UNCHANGED <<world, search, asked, failed, answer>>

(* A search of another client marks the point, or 30 seconds have gone by. *)
Forget(p) ==
  /\ mark[p] # 0
  /\ mark' = [mark EXCEPT ![p] = 0]
  /\ UNCHANGED <<world, search, asked, net, failed, answer>>

-----------------------------------------------------------------------------
(* The client.  Nodes are asked, and their replies read, in their order.   *)
First(S) == CHOOSE n \in S : \A m \in S : n <= m

Round(s, fromPoint, startFilter, ids) ==
  LET nodes == {world.owner[id] : id \in ids}
  IN [s EXCEPT !.fromPoint = fromPoint, !.startFilter = startFilter, !.ids = ids,
               !.unsent = nodes, !.unread = nodes]

Move ==
  /\ search = None /\ asked < Len(world.plan)
  /\ asked' = asked + 1
  /\ LET q == world.plan[asked + 1]
     IN search' = Round([query |-> q, routes |-> q.routes, found |-> {}, mids |-> Refused.mids,
                         fromPoint |-> TRUE, startFilter |-> TRUE, ids |-> {},
                         unsent |-> {}, unread |-> {}],
                        TRUE, q.routes = <<>>, q.starts)
  /\ UNCHANGED <<world, net, mark, failed, answer>>

Request(n, opts) ==
  [no |-> asked, fromPoint |-> search.fromPoint, startFilter |-> search.startFilter,
   ids |-> Own(n, search.ids), routes |-> search.routes, filter |-> search.query.filter,
   opts |-> opts]

Sent(n) == search' = [search EXCEPT !.unsent = @ \ {n}]

Sending(n) == search # None /\ search.unsent # {} /\ n = First(search.unsent)

Send(n) ==
  /\ Sending(n)
  /\ requests' = [requests EXCEPT ![n] = Append(@, Request(n, TRUE))]
  /\ Sent(n)
  /\ UNCHANGED <<world, asked, replies, mark, failed, answer>>

(* Client::Send connects again when sending fails and sends the request    *)
(* once more, but not the options that went before it.                     *)
Resend(n) ==
  /\ Sending(n) /\ world.sdk = "cpp"
  /\ requests' = [requests EXCEPT ![n] = <<Request(n, FALSE)>>]
  /\ replies'  = [replies EXCEPT ![n] = <<>>]
  /\ Sent(n)
  /\ UNCHANGED <<world, asked, mark, failed, answer>>

(* A search that fails closes the connections in S; the C++ client closes  *)
(* all it has.                                                             *)
ClosedOwn(S) == S    \* mutant: no client closes more
Closed(S) == IF world.sdk = "cpp" THEN Nodes ELSE S

Fail(S) ==
  /\ search' = None /\ failed' = TRUE /\ answer' = None
  /\ requests' = [n \in Nodes |-> IF n \in Closed(S) THEN <<>> ELSE requests[n]]
  /\ replies'  = [n \in Nodes |-> IF n \in Closed(S) THEN <<>> ELSE replies[n]]
  /\ UNCHANGED <<world, asked, mark>>

SendFails(n) == Sending(n) /\ Fail({n})

Reading(n) ==
  search # None /\ search.unsent = {} /\ search.unread # {} /\ n = First(search.unread)

MergedLast(m, more) == more    \* mutant: what earlier nodes have left is forgotten
Merged(m, more) ==
  [k \in 1 .. MaxRoutes |-> [lines  |-> m[k].lines \union more[k].lines,
                             points |-> m[k].points \union more[k].points]]

Read(n) ==
  /\ Reading(n) /\ replies[n] # <<>> /\ Head(replies[n]).ok
  /\ LET reply == Head(replies[n])
     IN search' = [search EXCEPT !.unread = @ \ {n},
                                 !.found = @ \union reply.ends,
                                 !.mids = Merged(@, reply.mids)]
  /\ replies' = [replies EXCEPT ![n] = Tail(@)]
  /\ UNCHANGED <<world, asked, requests, mark, failed, answer>>

(* Only nodes of C++ clients refuse, see Resend.                           *)
ReadRefusal(n) ==
  /\ Reading(n) /\ replies[n] # <<>> /\ ~Head(replies[n]).ok
  /\ Fail({})

(* No reply in time, or the connection is broken.                          *)
ReadFails(n) == Reading(n) /\ Fail({n})

-----------------------------------------------------------------------------
(* When all replies of a round are read, the routes nothing is left of are *)
(* done and the others are renumbered.                                     *)
Shift(m, d) == [k \in 1 .. MaxRoutes |-> IF k + d <= MaxRoutes THEN m[k + d] ELSE Nothing]

(* The C++ client numbers the routes that nothing is left of 0 as well and *)
(* copies them over the first one, unless some routes were done.           *)
Renumbered(m, k) ==
  IF world.sdk = "cpp" /\ k = 1 THEN [m EXCEPT ![1] = Nothing] ELSE Shift(m, k - 1)

Undone(s) == {k \in 1 .. Len(s.routes) : s.mids[k] # Nothing}

Remaining(s) ==
  LET k == First(Undone(s))
  IN [s EXCEPT !.routes = SubSeq(@, k, Len(@)), !.mids = Renumbered(@, k)]

(* The points the first route has led to are where the next one starts.    *)
OverPointsAgain(s) == Round(s, TRUE, TRUE, s.mids[1].points)  \* mutant: the route stays
OverPoints(s) ==
  Round([s EXCEPT !.routes = Tail(@), !.mids = Shift(@, 1)], TRUE, TRUE, s.mids[1].points)

Turn == search # None /\ search.unread = {}

(* The lines of the first route that is not done are walked ...            *)
OverLines ==
  /\ Turn /\ search.fromPoint /\ Undone(search) # {}
  /\ LET s == Remaining(search)
     IN search' = IF s.mids[1].lines # {} THEN Round(s, FALSE, TRUE, s.mids[1].lines)
                                          ELSE OverPoints(s)
  /\ UNCHANGED <<world, asked, net, mark, failed, answer>>

(* ... and then its points.                                                *)
AfterLines ==
  /\ Turn /\ ~search.fromPoint
  /\ search' = OverPoints(search)
  /\ UNCHANGED <<world, asked, net, mark, failed, answer>>

Return ==
  /\ Turn /\ search.fromPoint /\ Undone(search) = {}
  /\ answer' = [query |-> search.query, found |-> search.found, clean |-> ~failed]
  /\ search' = None
  /\ UNCHANGED <<world, asked, net, mark, failed>>

-----------------------------------------------------------------------------
SearchInit ==
  /\ world \in Worlds
  /\ search = None /\ asked = 0
  /\ requests = [n \in Nodes |-> <<>>]
  /\ replies  = [n \in Nodes |-> <<>>]
  /\ mark = [p \in Points |-> 0]
  /\ failed = FALSE /\ answer = None

SearchNext ==
  \/ Move
  \/ \E n \in Nodes : Send(n) \/ Resend(n) \/ SendFails(n)
  \/ \E n \in Nodes : OnMove(n)
  \/ \E n \in Nodes : Read(n) \/ ReadRefusal(n) \/ ReadFails(n)
  \/ OverLines \/ AfterLines \/ Return
  \/ \E p \in Points : Forget(p)

SearchSpec == SearchInit /\ [][SearchNext]_searchVars

(* The client's thread runs and nodes execute what they have received.     *)
ClientStep(n) == Send(n) \/ Resend(n) \/ SendFails(n) \/ Read(n) \/ ReadRefusal(n)

Fairness ==
  /\ WF_searchVars(OverLines \/ AfterLines \/ Return)
  /\ \A n \in Nodes : WF_searchVars(ClientStep(n)) /\ WF_searchVars(OnMove(n))

LiveSpec == SearchSpec /\ Fairness

-----------------------------------------------------------------------------
SearchTypeOK ==
  /\ world \in Worlds
  /\ asked \in 0 .. Len(world.plan)
  /\ search = None \/
       /\ search \in SearchSet
       /\ search.unsent \subseteq search.unread
       /\ search.ids \subseteq (IF search.fromPoint THEN Points ELSE Lines)
       /\ search.fromPoint \/ search.routes # <<>>
  /\ \A n \in Nodes : \A i \in DOMAIN replies[n] :
       replies[n][i] \in [ok : BOOLEAN, ends : SUBSET Points, mids : MidsSet]
  /\ mark \in [Points -> 0 .. asked]
  /\ failed \in BOOLEAN

(* A search of the Java client returns the points at the end of its routes, *)
(* all of them and no others, whichever nodes its points and lines are on,  *)
(* whatever other searches mark, as long as no search has failed.           *)
Exact ==
  answer # None /\ world.sdk = "java" /\ answer.clean =>
    answer.found = Reference(answer.query)

(* A search of the C++ client, which closes all connections when a search  *)
(* fails, never returns a point it was not asked for.                      *)
NothingForeign ==
  answer # None /\ world.sdk = "cpp" => answer.found \subseteq Reference(answer.query)

(* Every search comes to an end, with an answer or a failure.              *)
Returns == search # None ~> search = None

(* GCluster.cpp:232: routes that are not done are renumbered, so the C++   *)
(* client leaves out nothing.                                              *)
NothingLost ==
  answer # None /\ world.sdk = "cpp" => Reference(answer.query) \subseteq answer.found

(* What holds of a search and its result at every moment.                  *)
Inv == SearchTypeOK /\ NothingForeign
=============================================================================
