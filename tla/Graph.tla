------------------------------- MODULE Graph -------------------------------
(***************************************************************************)
(* Making and breaking connections between points (GCluster::Link, Unlink, *)
(* DelPoint and SetPoint of the C++ and Java clients, and the handlers of  *)
(* GridStore they call).                                                   *)
(*                                                                         *)
(* A connection is a line, kept by the node its id leads to, and an edge   *)
(* in the list of either of its points, kept by the nodes of the points.   *)
(* Link is run by the client as three requests, one after the other.  Each *)
(* may be refused; its answer may be lost after it was executed; or the    *)
(* client gives up waiting, goes on, and the node executes the request at  *)
(* some later time, or never.  A node executes one request at a time.      *)
(*                                                                         *)
(* What nodes keep is taken to survive (RecordStore is about that), ids of *)
(* new lines are taken to be new (IdAlloc is about that).  A list of edges *)
(* is modelled by how often each line is in it.                            *)
(***************************************************************************)
EXTENDS Objects, Naturals, FiniteSets

CONSTANTS
  Clients,
  Sdk,      \* Sdk[c]: the library client c uses, "java" or "cpp"
  Owner     \* Owner[id]: the node of a point or a line (Grid::FindNodeId)

Links == [client : Clients, out : Points, in : Points]
Ops   == {"addOut", "addIn", "addLine", "delOut", "delIn"}
Requests == [op : Ops, line : Lines]
Lists    == [Sides -> [Lines -> Nat]]

ASSUME GraphAssumption ==
  /\ Sdk \in [Clients -> {"java", "cpp"}]
  /\ Points \intersect Lines = {}
  /\ DOMAIN Owner = Points \union Lines
  /\ None \notin Links \union Requests \union {"success", "failure"} /\ None \notin Lists

VARIABLES
  points,    \* points[p]: how often its out- and in-list name each line, or None
  lines,     \* lines[l]: whether the node of l has it
  link,      \* link[l]: the line a client was asked to link, or None
  call,      \* call[c]: the request client c waits for, or None
  late,      \* requests nobody waits for that a node may still execute
  added,     \* lines that were added (history)
  unlinked,  \* lines that were deleted by Unlink (history)
  deleted,   \* points that were deleted (history)
  result,    \* result[l]: what Link has returned, or None (history)
  disturbed  \* lines whose Link has missed an answer (history)

stored  == <<points, lines>>
history == <<added, unlinked, deleted>>
vars == <<points, lines, link, call, late, added, unlinked, deleted, result, disturbed>>

-----------------------------------------------------------------------------
Init ==
  /\ points = [p \in Points |-> None]
  /\ lines  = [l \in Lines |-> FALSE]
  /\ link   = [l \in Lines |-> None]
  /\ call   = [c \in Clients |-> None]
  /\ late = {}
  /\ added = {} /\ unlinked = {} /\ deleted = {}
  /\ result = [l \in Lines |-> None]
  /\ disturbed = {}

-----------------------------------------------------------------------------
(* The handlers of a node.                                                 *)

Unlisted == [side \in Sides |-> [l \in Lines |-> 0]]

(* GridStore::SetPoint creates the point when there is none; a deleted one *)
(* can be created again.                                                   *)
SetPoint(p) ==
  /\ points[p] = None
  /\ points' = [points EXCEPT ![p] = Unlisted]
  /\ UNCHANGED <<lines, link, call, late, history, result, disturbed>>

(* GridStore::AddLineForPoint refuses when there is no such point.         *)
AddLineForPoint(p, l, side) ==
  points' = IF points[p] = None THEN points
            ELSE [points EXCEPT ![p][side][l] = @ + 1]

(* OwnLines::Del takes one entry out when there is one.                    *)
Less(n) == IF n = 0 THEN 0 ELSE n - 1

DelLineForPoint(p, l, side) ==
  points' = IF points[p] = None THEN points
            ELSE [points EXCEPT ![p][side][l] = Less(@)]

(* GridStore::DelLine for the lines of S, all of node n: the edges of the  *)
(* points of the same node go too.                                         *)
WithoutEdges(p, n, S) ==
  IF points[p] = None \/ Owner[p] # n THEN points[p]
  ELSE [side \in Sides |-> [l \in Lines |->
          IF l \in S /\ link[l][side] = p THEN Less(points[p][side][l])
                                          ELSE points[p][side][l]]]

(* GCluster::Unlink: the node of the line deletes it.                      *)
Unlink(l) ==
  /\ lines[l]
  /\ lines' = [lines EXCEPT ![l] = FALSE]
  /\ points' = [p \in Points |-> WithoutEdges(p, Owner[l], {l})]
  /\ unlinked' = unlinked \union {l}
  /\ UNCHANGED <<link, call, late, added, deleted, result, disturbed>>

(* The lines at p its own node has.                                        *)
OwnLinesOf(p) ==
  {l \in Lines : /\ Owner[l] = Owner[p] /\ lines[l]
                 /\ \E side \in Sides : points[p][side][l] > 0}

(* GridStore::DelPoint deletes the point, then those of its lines that are *)
(* on the same node.  Lines on other nodes and their edges are left over.  *)
DelPoint(p) ==
  /\ points[p] # None
  /\ points' = [q \in Points |-> IF q = p THEN None
                                 ELSE WithoutEdges(q, Owner[p], OwnLinesOf(p))]
  /\ lines' = [l \in Lines |-> lines[l] /\ l \notin OwnLinesOf(p)]
  /\ deleted' = deleted \union {p}
  /\ UNCHANGED <<link, call, late, added, unlinked, result, disturbed>>

(* A node executes a request of a Link.                                    *)
Execute(r) ==
  LET l == r.line
  IN \/ /\ r.op = "addOut" /\ AddLineForPoint(link[l].out, l, "out")
        /\ UNCHANGED <<lines, added>>
     \/ /\ r.op = "addIn" /\ AddLineForPoint(link[l].in, l, "in")
        /\ UNCHANGED <<lines, added>>
     \/ /\ r.op = "delOut" /\ DelLineForPoint(link[l].out, l, "out")
        /\ UNCHANGED <<lines, added>>
     \/ /\ r.op = "delIn" /\ DelLineForPoint(link[l].in, l, "in")
        /\ UNCHANGED <<lines, added>>
     \/ /\ r.op = "addLine" /\ lines' = [lines EXCEPT ![l] = TRUE]
        /\ added' = added \union {l}
        /\ UNCHANGED points

(* GridStore::AddLine and DelLineForPoint always answer with success.      *)
AcceptedAlways(r) == TRUE   \* mutant: refusals are not reported
Accepted(r) ==
  /\ r.op = "addOut" => points[link[r.line].out] # None
  /\ r.op = "addIn"  => points[link[r.line].in] # None

-----------------------------------------------------------------------------
(* The clients.  What Link does after a request: the next request, or      *)
(* "return" when there is none.                                            *)
JavaNextLineFirst ==        \* mutant: the line is added between the edges
  [addOut |-> "addLine", addLine |-> "addIn", addIn |-> "return"]
JavaNext == [addOut |-> "addIn", addIn |-> "addLine", addLine |-> "return"]

CppNextLineFirst ==         \* mutant: the line is added between the edges
  [addIn |-> "addLine", addLine |-> "addOut", addOut |-> "return",
   delOut |-> "delIn", delIn |-> "return"]
CppNext == [addIn |-> "addOut", addOut |-> "addLine", addLine |-> "return",
            delOut |-> "delIn", delIn |-> "return"]

CppUndoHalf == [addIn |-> "return", addOut |-> "return", addLine |-> "delOut",
                delOut |-> "delIn", delIn |-> "return"]  \* mutant: one edge is left
CppUndo == [addIn |-> "return", addOut |-> "delIn", addLine |-> "delOut",
            delOut |-> "delIn", delIn |-> "return"]

FirstOp(c) == IF Sdk[c] = "java" THEN "addOut" ELSE "addIn"

NextOp(c, op, ok) ==
  IF Sdk[c] = "java" THEN IF ok THEN JavaNext[op] ELSE "return"
  ELSE IF ok THEN CppNext[op] ELSE CppUndo[op]

(* The client goes on after a request that was answered with ok.           *)
GoOn(c, ok) ==
  LET r    == call[c]
      next == NextOp(c, r.op, ok)
  IN /\ call' = [call EXCEPT ![c] =
                   IF next = "return" THEN None ELSE [op |-> next, line |-> r.line]]
     /\ result' = IF next # "return" THEN result
                  ELSE [result EXCEPT ![r.line] =
                          IF ok /\ r.op = "addLine" THEN "success" ELSE "failure"]

(* Link of a new line between any two points, also one and the same.       *)
Link(c, l, start, end) ==
  /\ call[c] = None /\ link[l] = None
  /\ link' = [link EXCEPT ![l] = [client |-> c, out |-> start, in |-> end]]
  /\ call' = [call EXCEPT ![c] = [op |-> FirstOp(c), line |-> l]]
  /\ UNCHANGED <<stored, late, history, result, disturbed>>

(* The request is executed and its answer arrives.                         *)
Answered(c) ==
  /\ call[c] # None
  /\ Execute(call[c])
  /\ GoOn(c, Accepted(call[c]))
  /\ UNCHANGED <<link, late, unlinked, deleted, disturbed>>

(* The request is executed but the answer says something went wrong (the   *)
(* disk), or does not arrive.                                              *)
AnswerLost(c) ==
  /\ call[c] # None
  /\ Execute(call[c])
  /\ GoOn(c, FALSE)
  /\ disturbed' = disturbed \union {call[c].line}
  /\ UNCHANGED <<link, late, unlinked, deleted>>

(* The client closes the connection before the request is executed.        *)
GiveUp(c) ==
  /\ call[c] # None
  /\ late' = late \union {call[c]}
  /\ GoOn(c, FALSE)
  /\ disturbed' = disturbed \union {call[c].line}
  /\ UNCHANGED <<stored, link, history>>

(* A node executes a request whose client has gone away.                   *)
ExecuteLate(r) ==
  /\ late' = late \ {r}
  /\ Execute(r)
  /\ UNCHANGED <<link, call, unlinked, deleted, result, disturbed>>

(* The request is lost with its connection or with the process of the node. *)
Drop(r) ==
  /\ late' = late \ {r}
  /\ UNCHANGED <<stored, link, call, history, result, disturbed>>

Next ==
  \/ \E p \in Points : SetPoint(p) \/ DelPoint(p)
  \/ \E l \in Lines : Unlink(l)
  \/ \E c \in Clients, l \in Lines, start \in Points, end \in Points : Link(c, l, start, end)
  \/ \E c \in Clients : Answered(c) \/ AnswerLost(c) \/ GiveUp(c)
  \/ \E r \in late : ExecuteLate(r) \/ Drop(r)

Spec == Init /\ [][Next]_vars

-----------------------------------------------------------------------------
TypeOK ==
  /\ points \in [Points -> Lists \union {None}]
  /\ lines \in [Lines -> BOOLEAN]
  /\ link \in [Lines -> Links \union {None}]
  /\ call \in [Clients -> Requests \union {None}]
  /\ late \subseteq Requests
  /\ added \subseteq Lines /\ unlinked \subseteq Lines /\ deleted \subseteq Points
  /\ result \in [Lines -> {"success", "failure", None}]
  /\ disturbed \subseteq Lines

HasEdge(p, side, l) == points[p] # None /\ points[p][side][l] > 0

(* What Move finds: from a point over an edge it lists to the line and to  *)
(* the point at the other end, all of which must be there.                 *)
Found(l, side) ==
  /\ link[l] # None
  /\ HasEdge(link[l][side], side, l)
  /\ lines[l]
  /\ \A other \in Sides : points[link[l][other]] # None

(* Link of the Java client, GCluster.java:214: whenever one point of a     *)
(* connection is found from the other, the other is found from the one.    *)
(* No loss, delay or refusal breaks this, only creating a deleted point    *)
(* again, which then lists nothing.                                        *)
Recreated(l) ==
  \E side \in Sides : link[l][side] \in deleted /\ points[link[l][side]] # None

FoundBothWays ==
  \A l \in Lines : link[l] # None /\ Sdk[link[l].client] = "java" /\ ~Recreated(l) =>
    (Found(l, "out") <=> Found(l, "in"))

(* What Link has reported as made can be found, from both ends, until it   *)
(* is unlinked or one of its points is deleted.                            *)
SuccessMeansLinked ==
  \A l \in Lines :
    result[l] = "success" /\ l \notin unlinked
      /\ (\A side \in Sides : link[l][side] \notin deleted)
    => Found(l, "out") /\ Found(l, "in")

(* When every request of a Link of the C++ client was answered, a Link     *)
(* that failed has left no edge behind, whatever happened to its points    *)
(* in the meantime.                                                        *)
CleanFailure ==
  \A l \in Lines :
    result[l] = "failure" /\ Sdk[link[l].client] = "cpp" /\ l \notin disturbed
    => \A p \in Points, side \in Sides : ~HasEdge(p, side, l)

(* Link, Unlink and DelPoint keep the promise of Connections.              *)
Connected(l) == Found(l, "out") /\ Found(l, "in")

connection ==
  [l \in Lines |-> IF Connected(l) THEN "made" ELSE IF l \in added THEN "gone" ELSE "none"]

Promise == INSTANCE Connections
Promised == Promise!Spec

(***************************************************************************)
(* Why.  Of the requests of one Link that can still be executed, at most   *)
(* one adds something, and it has not been executed before.                *)
(***************************************************************************)
Adds == {"addOut", "addIn", "addLine"}

Calls == {call[c] : c \in {d \in Clients : call[d] # None}}
Open  == late \union Calls

CallsOwn ==
  \A c \in Clients : call[c] # None =>
    LET l == call[c].line
    IN /\ link[l] # None /\ link[l].client = c
       /\ result[l] = None
       /\ Sdk[c] = "java" => call[c].op \in Adds

NoRequestBefore ==
  \A l \in Lines : link[l] = None =>
    l \notin added /\ result[l] = None /\ ~lines[l] /\ \A r \in Open : r.line # l

(* While Link is adding, none of its requests is late.                     *)
AddingInOrder ==
  \A c \in Clients : call[c] # None /\ call[c].op \in Adds =>
    \A r \in late : r.line # call[c].line

AddsOnce ==
  /\ \A r \in Open : r.op \in Adds => r.line \notin added
  /\ \A r, s \in Open : r.line = s.line /\ r.op \in Adds /\ s.op \in Adds => r = s
  /\ \A l \in Lines : lines[l] => l \in added

(* Only a C++ client takes edges back, and only when its Link has failed.  *)
UndoOnFailure ==
  /\ \A r \in late : r.op \notin Adds => Sdk[link[r.line].client] = "cpp"
  /\ \A r \in late : result[r.line] # "success"

OrderInv == CallsOwn /\ NoRequestBefore /\ AddingInOrder /\ AddsOnce /\ UndoOnFailure

(* An edge that was added stays until the line or its point is deleted.    *)
HasOwnEdges ==
  \A p \in Points, side \in Sides, l \in Lines :
    HasEdge(p, side, l) => link[l] # None /\ link[l][side] = p

Kept(l, side) == link[l][side] \in deleted \/ HasEdge(link[l][side], side, l)

KeptBoth(l) == \A side \in Sides : Kept(l, side)

CallKept ==
  \A c \in Clients : call[c] # None =>
    LET l == call[c].line
    IN /\ call[c].op = "addLine" => KeptBoth(l)
       /\ call[c].op = "addIn" /\ Sdk[c] = "java" => Kept(l, "out")
       /\ call[c].op = "addOut" /\ Sdk[c] = "cpp" => Kept(l, "in")

LateKept ==
  \A r \in late : r.op = "addLine" /\ Sdk[link[r.line].client] = "java" => KeptBoth(r.line)

LineKept ==
  \A l \in Lines : lines[l] /\ (Sdk[link[l].client] = "java" \/ result[l] = "success")
    => KeptBoth(l)

SuccessStays ==
  \A l \in Lines : result[l] = "success" =>
    lines[l] \/ l \in unlinked \/ \E side \in Sides : link[l][side] \in deleted

KeptInv == HasOwnEdges /\ CallKept /\ LateKept /\ LineKept /\ SuccessStays

(* A Link of a C++ client that has missed no answer knows which edges its  *)
(* points can list.                                                        *)
Count(l, side) ==
  LET p == link[l][side] IN IF points[p] = None THEN 0 ELSE points[p][side][l]

Undisturbed(l) == link[l] # None /\ l \notin disturbed /\ Sdk[link[l].client] = "cpp"

CleanInv ==
  /\ \A r \in late : r.line \in disturbed
  /\ \A l \in Lines : Undisturbed(l) /\ result[l] = "failure" =>
       Count(l, "out") = 0 /\ Count(l, "in") = 0
  /\ \A c \in Clients : call[c] # None /\ Undisturbed(call[c].line) =>
       /\ call[c].op # "delOut"
       /\ call[c].op # "addLine" => Count(call[c].line, "out") = 0
       /\ call[c].op = "addIn" => Count(call[c].line, "in") = 0
       /\ Count(call[c].line, "in") <= 1

=============================================================================
