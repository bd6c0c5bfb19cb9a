------------------------------ MODULE MCSearch ------------------------------
(***************************************************************************)
(* Model checking of a client of the cluster: its searches (Search), of    *)
(* three points and two lines on two nodes, and its choice of the node it  *)
(* asks (NodeSelection).  They do not share state; which one is exercised  *)
(* is chosen at the start, and the other stays as it is.                   *)
(***************************************************************************)
EXTENDS Search, NodeSelection, TLC

CONSTANTS p1, p2, p3, a, b

VARIABLE what

Line(start, end) == [out |-> start, in |-> end]

Shapes ==
  {(a :> Line(p1, p2)) @@ (b :> Line(p2, p3)), (a :> Line(p1, p2)) @@ (b :> Line(p1, p2)),
   (a :> Line(p1, p2)) @@ (b :> Line(p1, p3)), (a :> Line(p1, p2)) @@ (b :> Line(p2, p1))}

Owners == {f \in [Points \union Lines -> {1, 2}] : f[p1] = 1}

Out(L) == [side |-> "out", take |-> L]
In(L)  == [side |-> "in", take |-> L]

Paths == {<<>>, <<Out(Lines)>>, <<Out(Lines), Out(Lines)>>, <<Out(Lines), In({b})>>,
          <<Out(Lines), Out(Lines), Out(Lines)>>}

Query(S, filter, routes) == [starts |-> S, filter |-> filter, routes |-> routes]

(* One search of many kinds; or two, of which the first may fail.          *)
Plans ==
  {<<Query(S, filter, routes)>> :
     S \in {{p1}, {p1, p3}}, filter \in {Points, Points \ {p2}}, routes \in Paths}

TwoSearches ==
  {<<Query({p1, p2}, Points, <<Out(Lines)>>), Query(S, Points, <<>>)>> : S \in {{p1}, {p2}}}

MCWorlds ==
  [owner : Owners, points : {Points, Points \ {p3}}, lines : {Lines, Lines \ {a}},
   ends : Shapes, sdk : {"java", "cpp"}, plan : Plans]
  \union
  [owner : Owners, points : {Points}, lines : {Lines}, ends : Shapes,
   sdk : {"java", "cpp"}, plan : TwoSearches]

\* Where nothing is searched.
OneWorld ==
  [owner |-> [x \in Points \union Lines |-> 1], points |-> Points, lines |-> Lines,
   ends |-> (a :> Line(p1, p2)) @@ (b :> Line(p2, p3)), sdk |-> "cpp",
   plan |-> <<Query({p1}, Points, <<>>)>>]

MCInit ==
  /\ SearchInit /\ NodesInit
  /\ what \in {"search", "nodes"}
  /\ what = "search" => up = {}
  /\ what = "nodes"  => world = OneWorld

MCNext ==
  /\ UNCHANGED what
  /\ \/ what = "search" /\ SearchNext /\ UNCHANGED nodesVars
     \/ what = "nodes"  /\ NodesNext /\ UNCHANGED searchVars

MCSpec == MCInit /\ [][MCNext]_<<what, searchVars, nodesVars>> /\ Fairness

(* What holds of a search and of the choice of a node at every moment.     *)
ClusterInv == Inv /\ NodesInv
=============================================================================
