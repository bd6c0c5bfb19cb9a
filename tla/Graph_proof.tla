---------------------------- MODULE Graph_proof ----------------------------
(***************************************************************************)
(* Proofs about Graph, Search and NodeSelection.  Connections keep the     *)
(* promise of Connections and are seen from both ends, for any number of   *)
(* clients, nodes, points and lines; a search finds what it has to find,   *)
(* for any number of nodes, points, lines and searches; a client asks any  *)
(* number of nodes in turn.                                                *)
(***************************************************************************)
EXTENDS Graph, MCSearch, SequenceLemmas

USE GraphAssumption

-----------------------------------------------------------------------------
(* Values.                                                                 *)
LEMMA LessNat == ASSUME NEW n \in Nat PROVE Less(n) \in Nat /\ Less(n) <= n
BY DEF Less

PointsType == points \in [Points -> Lists \union {None}]

(* One more entry in one list; nothing else changes.                       *)
LEMMA AddEdge ==
  ASSUME PointsType, NEW p \in Points, NEW l \in Lines, NEW side \in Sides,
         AddLineForPoint(p, l, side)
  PROVE  /\ PointsType'
         /\ \A q \in Points : points'[q] = None <=> points[q] = None
         /\ \A q \in Points, s \in Sides, m \in Lines : points[q] # None =>
              points'[q][s][m] = IF q = p /\ s = side /\ m = l
                                 THEN points[q][s][m] + 1 ELSE points[q][s][m]
<1>1. CASE points[p] = None
  BY <1>1 DEF AddLineForPoint, PointsType
<1>2. CASE points[p] # None
  <2> DEFINE new == [points[p] EXCEPT ![side][l] = points[p][side][l] + 1]
  <2>1. points' = [points EXCEPT ![p] = new]
    BY <1>2 DEF AddLineForPoint, PointsType
  <2>2. points[p] \in Lists
    BY <1>2 DEF PointsType
  <2>3. /\ new \in Lists
        /\ \A s \in Sides, m \in Lines :
             new[s][m] = IF s = side /\ m = l THEN points[p][s][m] + 1 ELSE points[p][s][m]
    BY <2>2 DEF Lists
  <2>4. new # None
    BY <2>3
  <2> HIDE DEF new
  <2> QED BY <1>2, <2>1, <2>3, <2>4 DEF PointsType
<1> QED BY <1>1, <1>2

(* One entry less in one list that has one; nothing else changes.          *)
LEMMA DelEdge ==
  ASSUME PointsType, NEW p \in Points, NEW l \in Lines, NEW side \in Sides,
         DelLineForPoint(p, l, side)
  PROVE  /\ PointsType'
         /\ \A q \in Points : points'[q] = None <=> points[q] = None
         /\ \A q \in Points, s \in Sides, m \in Lines : points[q] # None =>
              points'[q][s][m] = IF q = p /\ s = side /\ m = l
                                 THEN Less(points[q][s][m]) ELSE points[q][s][m]
<1>1. CASE points[p] = None
  BY <1>1 DEF DelLineForPoint, PointsType
<1>2. CASE points[p] # None
  <2> DEFINE new == [points[p] EXCEPT ![side][l] = Less(points[p][side][l])]
  <2>1. points' = [points EXCEPT ![p] = new]
    BY <1>2 DEF DelLineForPoint, PointsType
  <2>2. points[p] \in Lists
    BY <1>2 DEF PointsType
  <2>3. Less(points[p][side][l]) \in Nat
    BY <2>2, LessNat DEF Lists
  <2>4. /\ new \in Lists
        /\ \A s \in Sides, m \in Lines :
             new[s][m] = IF s = side /\ m = l THEN Less(points[p][s][m]) ELSE points[p][s][m]
    BY <2>2, <2>3 DEF Lists
  <2>5. new # None
    BY <2>4
  <2> HIDE DEF new
  <2> QED BY <1>2, <2>1, <2>4, <2>5 DEF PointsType
<1> QED BY <1>1, <1>2

(* Lines of S take their own edges along, no others.                       *)
LEMMA WithoutEdgesType ==
  ASSUME PointsType, NEW p \in Points, NEW n, NEW S
  PROVE  /\ WithoutEdges(p, n, S) \in Lists \union {None}
         /\ WithoutEdges(p, n, S) = None <=> points[p] = None
         /\ \A s \in Sides, m \in Lines : points[p] # None =>
              /\ WithoutEdges(p, n, S)[s][m] <= points[p][s][m]
              /\ m \notin S => WithoutEdges(p, n, S)[s][m] = points[p][s][m]
<1>1. CASE points[p] = None
  BY <1>1 DEF WithoutEdges
<1>2. CASE points[p] # None
  <2>1. points[p] \in Lists
    BY <1>2 DEF PointsType
  <2>2. \A s \in Sides, m \in Lines : points[p][s][m] \in Nat
    BY <2>1 DEF Lists
  <2>3. CASE Owner[p] # n
    BY <1>2, <2>1, <2>2, <2>3 DEF WithoutEdges
  <2>4. CASE Owner[p] = n
    <3> DEFINE at(s, m) == IF m \in S /\ link[m][s] = p THEN Less(points[p][s][m])
                                                        ELSE points[p][s][m]
               new == [s \in Sides |-> [m \in Lines |-> at(s, m)]]
    <3>1. WithoutEdges(p, n, S) = new
      BY <1>2, <2>4 DEF WithoutEdges
    <3>2. \A s \in Sides, m \in Lines :
            /\ at(s, m) \in Nat
            /\ at(s, m) <= points[p][s][m]
            /\ m \notin S => at(s, m) = points[p][s][m]
      BY <2>2, LessNat
    <3> HIDE DEF at
    <3>3. new \in Lists
      BY <3>2 DEF Lists
    <3>4. \A s \in Sides, m \in Lines : new[s][m] = at(s, m)
      OBVIOUS
    <3>5. new # None
      BY <3>3
    <3> HIDE DEF new
    <3> QED BY <1>2, <3>1, <3>2, <3>3, <3>4, <3>5
  <2> QED BY <2>3, <2>4
<1> QED BY <1>1, <1>2

-----------------------------------------------------------------------------
(* What executing a request of Link does to what is stored.                *)
LEMMA ExecuteEffect ==
  ASSUME PointsType, NEW r \in Requests, link[r.line] \in Links, Execute(r)
  PROVE  /\ PointsType'
         /\ \A q \in Points : points'[q] = None <=> points[q] = None
         /\ \A q \in Points, s \in Sides, m \in Lines :
              points[q] # None /\ (m = r.line => q # link[m][s]) =>
                points'[q][s][m] = points[q][s][m]
         /\ LET p == link[r.line].out
            IN points[p] # None => points'[p]["out"][r.line] =
                 IF r.op = "addOut" THEN points[p]["out"][r.line] + 1
                 ELSE IF r.op = "delOut" THEN Less(points[p]["out"][r.line])
                 ELSE points[p]["out"][r.line]
         /\ LET p == link[r.line].in
            IN points[p] # None => points'[p]["in"][r.line] =
                 IF r.op = "addIn" THEN points[p]["in"][r.line] + 1
                 ELSE IF r.op = "delIn" THEN Less(points[p]["in"][r.line])
                 ELSE points[p]["in"][r.line]
         /\ lines' = IF r.op = "addLine" THEN [lines EXCEPT ![r.line] = TRUE] ELSE lines
         /\ added' = IF r.op = "addLine" THEN added \union {r.line} ELSE added
<1>1. r.line \in Lines /\ r.op \in Ops
  BY DEF Requests
<1>2. link[r.line].out \in Points /\ link[r.line].in \in Points
  BY DEF Links
<1>3. link[r.line].out = link[r.line]["out"] /\ link[r.line].in = link[r.line]["in"]
  OBVIOUS
<1>4. "out" \in Sides /\ "in" \in Sides /\ \A s \in Sides : s = "out" \/ s = "in"
  BY DEF Sides
<1>5. CASE r.op = "addOut"
  <2>1. AddLineForPoint(link[r.line].out, r.line, "out") /\ UNCHANGED <<lines, added>>
    BY <1>5 DEF Execute
  <2> QED BY <1>1, <1>2, <1>3, <1>4, <1>5, <2>1, AddEdge
<1>6. CASE r.op = "addIn"
  <2>1. AddLineForPoint(link[r.line].in, r.line, "in") /\ UNCHANGED <<lines, added>>
    BY <1>6 DEF Execute
  <2> QED BY <1>1, <1>2, <1>3, <1>4, <1>6, <2>1, AddEdge
<1>7. CASE r.op = "delOut"
  <2>1. DelLineForPoint(link[r.line].out, r.line, "out") /\ UNCHANGED <<lines, added>>
    BY <1>7 DEF Execute
  <2> QED BY <1>1, <1>2, <1>3, <1>4, <1>7, <2>1, DelEdge
<1>8. CASE r.op = "delIn"
  <2>1. DelLineForPoint(link[r.line].in, r.line, "in") /\ UNCHANGED <<lines, added>>
    BY <1>8 DEF Execute
  <2> QED BY <1>1, <1>2, <1>3, <1>4, <1>8, <2>1, DelEdge
<1>9. CASE r.op = "addLine"
  <2>1. /\ UNCHANGED points
        /\ lines' = [lines EXCEPT ![r.line] = TRUE] /\ added' = added \union {r.line}
    BY <1>9 DEF Execute
  <2> QED BY <1>9, <2>1 DEF PointsType
<1> QED BY <1>1, <1>5, <1>6, <1>7, <1>8, <1>9 DEF Ops

(* Where a client is after a request, and what Link returns.               *)
LEMMA GoOnEffect ==
  ASSUME call \in [Clients -> Requests \union {None}],
         result \in [Lines -> {"success", "failure", None}],
         NEW c \in Clients, call[c] # None, Sdk[c] = "java" => call[c].op \in Adds,
         NEW ok \in BOOLEAN, GoOn(c, ok),
         NEW r \in Requests, r = call[c]
  PROVE  /\ call' \in [Clients -> Requests \union {None}]
         /\ result' \in [Lines -> {"success", "failure", None}]
         /\ \A d \in Clients : d # c => call'[d] = call[d]
         /\ \A m \in Lines : m # r.line => result'[m] = result[m]
         /\ call'[c] # None =>
              /\ call'[c].line = r.line
              /\ result' = result
              /\ \/ /\ Sdk[c] = "java" /\ ok
                    /\ \/ r.op = "addOut" /\ call'[c].op = "addIn"
                       \/ r.op = "addIn" /\ call'[c].op = "addLine"
                 \/ /\ Sdk[c] = "cpp" /\ ok
                    /\ \/ r.op = "addIn" /\ call'[c].op = "addOut"
                       \/ r.op = "addOut" /\ call'[c].op = "addLine"
                 \/ /\ Sdk[c] = "cpp"
                    /\ \/ ~ok /\ r.op = "addOut" /\ call'[c].op = "delIn"
                       \/ ~ok /\ r.op = "addLine" /\ call'[c].op = "delOut"
                       \/ r.op = "delOut" /\ call'[c].op = "delIn"
         /\ call'[c] = None =>
              result'[r.line] = IF ok /\ r.op = "addLine" THEN "success" ELSE "failure"
<1> DEFINE next == NextOp(c, r.op, ok)
<1>1. r \in Requests /\ r.line \in Lines /\ r.op \in Ops
  BY DEF Requests
<1>2. /\ call' = [call EXCEPT ![c] =
                    IF next = "return" THEN None ELSE [op |-> next, line |-> r.line]]
      /\ result' = IF next # "return" THEN result
                   ELSE [result EXCEPT ![r.line] =
                           IF ok /\ r.op = "addLine" THEN "success" ELSE "failure"]
  BY DEF GoOn
<1>3. \/ next = "return"
      \/ /\ Sdk[c] = "java" /\ ok
         /\ \/ r.op = "addOut" /\ next = "addIn"
            \/ r.op = "addIn" /\ next = "addLine"
      \/ /\ Sdk[c] = "cpp" /\ ok
         /\ \/ r.op = "addIn" /\ next = "addOut"
            \/ r.op = "addOut" /\ next = "addLine"
      \/ /\ Sdk[c] = "cpp"
         /\ \/ ~ok /\ r.op = "addOut" /\ next = "delIn"
            \/ ~ok /\ r.op = "addLine" /\ next = "delOut"
            \/ r.op = "delOut" /\ next = "delIn"
  <2>1. CASE Sdk[c] = "java"
    <3>1. r.op = "addOut" \/ r.op = "addIn" \/ r.op = "addLine"
      BY <2>1 DEF Adds
    <3>2. next = IF ok THEN JavaNext[r.op] ELSE "return"
      BY <2>1 DEF NextOp
    <3>3. /\ JavaNext["addOut"] = "addIn" /\ JavaNext["addIn"] = "addLine"
          /\ JavaNext["addLine"] = "return"
      BY DEF JavaNext
    <3> QED BY <2>1, <3>1, <3>2, <3>3
  <2>2. CASE Sdk[c] = "cpp"
    <3>1. next = IF ok THEN CppNext[r.op] ELSE CppUndo[r.op]
      BY <2>2 DEF NextOp
    <3>2. /\ CppNext["addIn"] = "addOut" /\ CppNext["addOut"] = "addLine"
          /\ CppNext["addLine"] = "return" /\ CppNext["delOut"] = "delIn"
          /\ CppNext["delIn"] = "return"
      BY DEF CppNext
    <3>3. /\ CppUndo["addIn"] = "return" /\ CppUndo["addOut"] = "delIn"
          /\ CppUndo["addLine"] = "delOut" /\ CppUndo["delOut"] = "delIn"
          /\ CppUndo["delIn"] = "return"
      BY DEF CppUndo
    <3> QED BY <1>1, <2>2, <3>1, <3>2, <3>3 DEF Ops
  <2> QED BY <2>1, <2>2
<1> HIDE DEF next
<1>4. CASE next = "return"
  BY <1>1, <1>2, <1>4
<1>5. CASE next # "return"
  <2>1. next \in Ops
    BY <1>3, <1>5 DEF Ops
  <2>2. [op |-> next, line |-> r.line] \in Requests
    BY <1>1, <2>1 DEF Requests
  <2>3. /\ call' = [call EXCEPT ![c] = [op |-> next, line |-> r.line]]
        /\ result' = result
    BY <1>2, <1>5
  <2>4. call'[c] = [op |-> next, line |-> r.line] /\ call'[c] # None
    BY <2>2, <2>3
  <2> QED BY <1>1, <1>3, <1>5, <2>2, <2>3, <2>4
<1> QED BY <1>4, <1>5

-----------------------------------------------------------------------------
(* The types and the order of the requests, by induction together: a       *)
(* request only has a meaning when its line is one somebody links.         *)
IndInv == TypeOK /\ OrderInv

LEMMA OpenIs ==
  \A s : s \in Open <=> s \in late \/ \E d \in Clients : call[d] # None /\ s = call[d]
BY DEF Open, Calls

(* A request that is open has a line with a link.                          *)
LEMMA OpenLink ==
  ASSUME IndInv, NEW s \in Open
  PROVE  s \in Requests /\ s.line \in Lines /\ link[s.line] \in Links
<1>1. s \in Requests
  BY OpenIs DEF IndInv, TypeOK
<1>2. s.line \in Lines
  BY <1>1 DEF Requests
<1>3. link[s.line] # None
  BY <1>2 DEF IndInv, OrderInv, NoRequestBefore
<1> QED BY <1>1, <1>2, <1>3 DEF IndInv, TypeOK

(* Steps that add no request and no line.                                  *)
LEMMA OrderWithout ==
  ASSUME IndInv, UNCHANGED <<link, call, added, result>>, late' \subseteq late,
         \A l \in Lines : lines'[l] => lines[l]
  PROVE  OrderInv'
<1> USE DEF IndInv, OrderInv
<1>1. CallsOwn'
  BY DEF CallsOwn
<1>2. \A s \in Open' : s \in Open
  BY DEF Open, Calls
<1>3. NoRequestBefore'
  BY <1>2 DEF NoRequestBefore
<1>4. AddingInOrder'
  BY DEF AddingInOrder
<1>5. AddsOnce'
  BY <1>2 DEF AddsOnce
<1>6. UndoOnFailure'
  BY DEF UndoOnFailure
<1> QED BY <1>1, <1>3, <1>4, <1>5, <1>6

(* A new link: its first request is the only one of its line.              *)
LEMMA OrderLink ==
  ASSUME IndInv, NEW c \in Clients, NEW l \in Lines,
         NEW start \in Points, NEW end \in Points, Link(c, l, start, end)
  PROVE  OrderInv'
<1> DEFINE r == [op |-> FirstOp(c), line |-> l]
<1>1. /\ r \in Requests /\ r.line = l /\ r.op = FirstOp(c) /\ r # None
      /\ r.op \in Adds /\ r.op # "addLine"
  BY DEF FirstOp, Requests, Ops, Adds
<1>2. /\ call[c] = None /\ link[l] = None
      /\ call' = [call EXCEPT ![c] = r]
      /\ UNCHANGED <<late, added, lines, result>>
  BY DEF Link, stored, history
<1>3. /\ link'[l] # None /\ link'[l].client = c
      /\ \A m \in Lines : m # l => link'[m] = link[m]
  <2>1. [client |-> c, out |-> start, in |-> end] \in Links
    BY DEF Links
  <2> QED BY <1>2, <2>1 DEF Link, IndInv, TypeOK
<1> HIDE DEF r
<1>4. call'[c] = r /\ \A d \in Clients : d # c => call'[d] = call[d]
  BY <1>2 DEF IndInv, TypeOK
<1>5. \A s \in Open' : s = r \/ s \in Open
  BY <1>2, <1>4 DEF Open, Calls
<1>6. \A s \in Open : s \in Requests /\ s.line \in Lines /\ s.line # l
  BY <1>2, OpenLink DEF IndInv, OrderInv, NoRequestBefore
<1>7. l \notin added /\ result[l] = None
  BY <1>2 DEF IndInv, OrderInv, NoRequestBefore
<1> USE DEF IndInv, OrderInv
<1>8. CallsOwn'
  <2>1. ASSUME NEW d \in Clients, call[d] # None, d # c
        PROVE  call[d].line \in Lines /\ call[d].line # l
    BY <1>6, <2>1, OpenIs
  <2> QED BY <1>1, <1>2, <1>3, <1>4, <1>7, <2>1 DEF CallsOwn
<1>9. NoRequestBefore'
  BY <1>1, <1>2, <1>3, <1>5 DEF NoRequestBefore
<1>10. AddingInOrder'
  <2>1. \A s \in late : s.line # l
    BY <1>6, OpenIs
  <2> QED BY <1>1, <1>2, <1>4, <2>1 DEF AddingInOrder
<1>11. AddsOnce'
  BY <1>1, <1>2, <1>5, <1>6, <1>7 DEF AddsOnce
<1>12. UndoOnFailure'
  <2>1. \A s \in late : s.line \in Lines /\ s.line # l
    BY <1>6, OpenIs
  <2> QED BY <1>2, <1>3, <2>1 DEF UndoOnFailure
<1> QED BY <1>8, <1>9, <1>10, <1>11, <1>12

(* A client goes on: the request it leaves behind is executed or late, the *)
(* next one is the only new one, and it adds only after a success.         *)
LEMMA OrderCall ==
  ASSUME IndInv, NEW c \in Clients, call[c] # None, NEW ok \in BOOLEAN, GoOn(c, ok),
         NEW r \in Requests, r = call[c], UNCHANGED link,
         \/ late' = late
         \/ ~ok /\ late' = late \union {r} /\ UNCHANGED <<lines, added>>,
         \/ UNCHANGED <<lines, added>>
         \/ /\ r.op = "addLine" /\ added' = added \union {r.line}
            /\ \A m \in Lines : m # r.line => lines'[m] = lines[m]
  PROVE  OrderInv'
<1> USE DEF IndInv, OrderInv
<1>0. /\ call \in [Clients -> Requests \union {None}]
      /\ result \in [Lines -> {"success", "failure", None}]
      /\ Sdk[c] = "java" \/ Sdk[c] = "cpp"
  BY DEF TypeOK
<1>1. /\ r \in Open /\ r.line \in Lines /\ r.op \in Ops
      /\ link[r.line] # None /\ link[r.line].client = c /\ result[r.line] = None
      /\ Sdk[c] = "java" => r.op \in Adds
  BY OpenIs DEF CallsOwn, Requests
<1> DEFINE moves ==
      \/ /\ Sdk[c] = "java" /\ ok
         /\ \/ r.op = "addOut" /\ call'[c].op = "addIn"
            \/ r.op = "addIn" /\ call'[c].op = "addLine"
      \/ /\ Sdk[c] = "cpp" /\ ok
         /\ \/ r.op = "addIn" /\ call'[c].op = "addOut"
            \/ r.op = "addOut" /\ call'[c].op = "addLine"
      \/ /\ Sdk[c] = "cpp"
         /\ \/ ~ok /\ r.op = "addOut" /\ call'[c].op = "delIn"
            \/ ~ok /\ r.op = "addLine" /\ call'[c].op = "delOut"
            \/ r.op = "delOut" /\ call'[c].op = "delIn"
<1>2. /\ \A d \in Clients : d # c => call'[d] = call[d]
      /\ \A m \in Lines : m # r.line => result'[m] = result[m]
      /\ call'[c] # None => call'[c].line = r.line /\ result' = result /\ moves
      /\ call'[c] = None =>
           result'[r.line] = IF ok /\ r.op = "addLine" THEN "success" ELSE "failure"
  BY <1>0, <1>1, GoOnEffect
<1>3. call'[c] # None =>
        /\ Sdk[c] = "java" => call'[c].op \in Adds
        /\ call'[c].op \in Adds => ok /\ r.op \in Adds /\ r.op # "addLine"
  BY <1>2 DEF Adds
<1> HIDE DEF moves
<1>4. ASSUME NEW d \in Clients, d # c, call[d] # None
      PROVE  call[d].line \in Lines /\ call[d].line # r.line
  <2>1. call[d] \in Open
    BY <1>4, OpenIs
  <2> QED BY <1>1, <1>4, <2>1, OpenLink DEF CallsOwn
<1>5. \A s \in late' : s \in Open /\ (s \in late \/ (s = r /\ ~ok))
  BY <1>1, OpenIs
<1>6. \A s \in Open' : s \in Open \/ (call'[c] # None /\ s = call'[c])
  BY <1>2, <1>5, OpenIs DEF Open, Calls
<1>7. r.op \in Adds => \A s \in late : s.line # r.line
  BY DEF AddingInOrder
<1>8. CallsOwn'
  BY <1>1, <1>2, <1>3, <1>4 DEF CallsOwn
<1>9. NoRequestBefore'
  <2> SUFFICES ASSUME NEW m \in Lines, link'[m] = None
               PROVE  /\ m \notin added' /\ result'[m] = None /\ ~lines'[m]
                      /\ \A s \in Open' : s.line # m
    BY DEF NoRequestBefore
  <2>1. link[m] = None /\ m # r.line
    BY <1>1
  <2>2. /\ m \notin added /\ result[m] = None /\ ~lines[m]
        /\ \A s \in Open : s.line # m
    BY <2>1 DEF NoRequestBefore
  <2> QED BY <1>2, <1>6, <2>1, <2>2
<1>10. AddingInOrder'
  <2> SUFFICES ASSUME NEW d \in Clients, call'[d] # None, call'[d].op \in Adds,
                      NEW s \in late'
               PROVE  s.line # call'[d].line
    BY DEF AddingInOrder
  <2>1. CASE d = c
    BY <1>2, <1>3, <1>5, <1>7, <2>1
  <2>2. CASE d # c
    <3>1. call'[d] = call[d]
      BY <1>2, <2>2
    <3> QED BY <1>4, <1>5, <2>2, <3>1 DEF AddingInOrder
  <2> QED BY <2>1, <2>2
<1>11. ASSUME NEW s \in Open', s.op \in Adds, s.line = r.line, r.op \in Adds
       PROVE  s = r \/ (call'[c] # None /\ s = call'[c] /\ ok /\ r.op # "addLine")
  <2>1. CASE s \in Open
    BY <1>1, <1>11, <2>1 DEF AddsOnce
  <2>2. CASE call'[c] # None /\ s = call'[c]
    BY <1>3, <1>11, <2>2
  <2> QED BY <1>6, <2>1, <2>2
<1>12. ASSUME r \in Open', r.op \in Adds
       PROVE  ~ok /\ late' = late \union {r} /\ UNCHANGED <<lines, added>>
  <2>1. r \notin late
    BY <1>7, <1>12
  <2>2. \A d \in Clients : call'[d] # None => call'[d] # r
    <3> SUFFICES ASSUME NEW d \in Clients, call'[d] # None, call'[d] = r PROVE FALSE
      OBVIOUS
    <3>1. CASE d = c
      BY <1>2, <1>3, <1>12, <3>1 DEF moves
    <3>2. CASE d # c
      BY <1>2, <1>4, <3>2
    <3> QED BY <3>1, <3>2
  <2>3. r \in late'
    BY <1>12, <2>2 DEF Open, Calls
  <2> QED BY <2>1, <2>3
<1>13. AddsOnce'
  <2>1. ASSUME NEW s \in Open', s.op \in Adds PROVE s.line \notin added'
    <3>1. CASE s \in Open /\ (s.line # r.line \/ UNCHANGED added)
      BY <2>1, <3>1 DEF AddsOnce
    <3>2. CASE s \in Open /\ s.line = r.line /\ ~UNCHANGED added
      <4>1. r.op = "addLine" /\ r.op \in Adds
        BY <3>2 DEF Adds
      <4>2. s = r
        BY <1>11, <2>1, <3>2, <4>1
      <4>3. UNCHANGED <<lines, added>>
        BY <1>12, <4>1, <4>2
      <4> QED BY <3>2, <4>3
    <3>3. CASE call'[c] # None /\ s = call'[c]
      <4>1. r.op \in Adds /\ r.op # "addLine" /\ s.line = r.line
        BY <1>2, <1>3, <2>1, <3>3
      <4>2. r.line \notin added
        BY <1>1, <4>1 DEF AddsOnce
      <4> QED BY <4>1, <4>2
    <3> QED BY <1>6, <3>1, <3>2, <3>3
  <2>2. ASSUME NEW s \in Open', NEW t \in Open', s.line = t.line, s.op \in Adds, t.op \in Adds
        PROVE  s = t
    <3>1. CASE s \in Open /\ t \in Open
      BY <2>2, <3>1 DEF AddsOnce
    <3>2. CASE ~(s \in Open /\ t \in Open)
      <4>1. call'[c] # None /\ call'[c].op \in Adds /\ s.line = r.line
        BY <1>2, <1>6, <2>2, <3>2
      <4>2. ok /\ r.op \in Adds
        BY <1>3, <4>1
      <4>3. s = call'[c] /\ t = call'[c]
        BY <1>11, <1>12, <2>2, <4>1, <4>2
      <4> QED BY <4>3
    <3> QED BY <3>1, <3>2
  <2>3. \A m \in Lines : lines'[m] => m \in added'
    BY DEF AddsOnce
  <2> QED BY <2>1, <2>2, <2>3 DEF AddsOnce
<1>14. UndoOnFailure'
  <2>1. ASSUME NEW s \in late', s.op \notin Adds PROVE Sdk[link'[s.line].client] = "cpp"
    <3>1. CASE s \in late
      BY <2>1, <3>1 DEF UndoOnFailure
    <3>2. CASE s = r
      BY <1>0, <1>1, <2>1, <3>2
    <3> QED BY <1>5, <3>1, <3>2
  <2>2. ASSUME NEW s \in late' PROVE result'[s.line] # "success"
    <3>0. s.line \in Lines
      BY <1>5, OpenLink
    <3>1. CASE s.line # r.line
      <4>1. s \in late
        BY <1>5, <3>1
      <4> QED BY <1>2, <3>0, <3>1, <4>1 DEF UndoOnFailure
    <3>2. CASE s.line = r.line
      <4> SUFFICES ASSUME result'[r.line] = "success" PROVE FALSE
        BY <3>2
      <4>1. ok /\ r.op = "addLine"
        BY <1>1, <1>2
      <4>2. r.op \in Adds
        BY <4>1 DEF Adds
      <4> QED BY <1>5, <1>7, <3>2, <4>1, <4>2
    <3> QED BY <3>1, <3>2
  <2> QED BY <2>1, <2>2 DEF UndoOnFailure
<1> QED BY <1>8, <1>9, <1>10, <1>13, <1>14

(* A request that has come too late is executed.                           *)
LEMMA OrderLate ==
  ASSUME IndInv, NEW r \in late, ExecuteLate(r)
  PROVE  OrderInv'
<1> USE DEF IndInv, OrderInv
<1>1. r \in Open /\ r \in Requests /\ r.line \in Lines /\ link[r.line] \in Links
  BY OpenIs, OpenLink
<1>2. /\ late' = late \ {r}
      /\ UNCHANGED <<link, call, result>>
      /\ lines' = IF r.op = "addLine" THEN [lines EXCEPT ![r.line] = TRUE] ELSE lines
      /\ added' = IF r.op = "addLine" THEN added \union {r.line} ELSE added
  <2>1. Execute(r) /\ PointsType
    BY DEF ExecuteLate, TypeOK, PointsType
  <2> QED BY <1>1, <2>1, ExecuteEffect DEF ExecuteLate
<1>3. CASE r.op # "addLine"
  BY <1>2, <1>3, OrderWithout
<1>4. CASE r.op = "addLine"
  <2>1. /\ added' = added \union {r.line} /\ r.op \in Adds
        /\ \A m \in Lines : m # r.line => lines'[m] = lines[m]
    BY <1>2, <1>4 DEF Adds, TypeOK
  <2>2. \A s \in Open' : s \in Open
    BY <1>2 DEF Open, Calls
  <2>3. \A s \in Open' : s.op \in Adds => s.line # r.line
    <3> SUFFICES ASSUME NEW s \in Open', s.op \in Adds, s.line = r.line PROVE FALSE
      OBVIOUS
    <3>1. s = r
      BY <1>1, <2>1, <2>2 DEF AddsOnce
    <3>2. PICK d \in Clients : call[d] # None /\ r = call[d]
      BY <1>2, <3>1 DEF Open, Calls
    <3> QED BY <2>1, <3>2 DEF AddingInOrder
  <2>4. CallsOwn'
    BY <1>2 DEF CallsOwn
  <2>5. NoRequestBefore'
    <3> SUFFICES ASSUME NEW m \in Lines, link[m] = None
                 PROVE  /\ m \notin added' /\ result[m] = None /\ ~lines'[m]
                        /\ \A s \in Open' : s.line # m
      BY <1>2 DEF NoRequestBefore
    <3>1. m # r.line
      BY <1>1 DEF NoRequestBefore
    <3> QED BY <2>1, <2>2, <3>1 DEF NoRequestBefore
  <2>6. AddingInOrder'
    BY <1>2 DEF AddingInOrder
  <2>7. AddsOnce'
    BY <2>1, <2>2, <2>3 DEF AddsOnce
  <2>8. UndoOnFailure'
    BY <1>2 DEF UndoOnFailure
  <2> QED BY <2>4, <2>5, <2>6, <2>7, <2>8
<1> QED BY <1>3, <1>4

-----------------------------------------------------------------------------
(* What deleting lines does to the points: edges only go away.             *)
LEMMA UnlinkEffect ==
  ASSUME IndInv, NEW l \in Lines, Unlink(l)
  PROVE  /\ PointsType' /\ lines' \in [Lines -> BOOLEAN]
         /\ \A q \in Points : points'[q] = None <=> points[q] = None
         /\ \A q \in Points, s \in Sides, m \in Lines : points[q] # None =>
              /\ points'[q][s][m] <= points[q][s][m]
              /\ m # l => points'[q][s][m] = points[q][s][m]
         /\ lines[l] /\ ~lines'[l]
         /\ \A m \in Lines : m # l => lines'[m] = lines[m]
<1>1. PointsType /\ lines \in [Lines -> BOOLEAN]
  BY DEF IndInv, TypeOK, PointsType
<1>2. /\ points' = [p \in Points |-> WithoutEdges(p, Owner[l], {l})]
      /\ lines' = [lines EXCEPT ![l] = FALSE] /\ lines[l]
  BY DEF Unlink
<1>3. \A q \in Points : points'[q] = WithoutEdges(q, Owner[l], {l})
  BY <1>2
<1>4. PointsType'
  BY <1>1, <1>2, WithoutEdgesType DEF PointsType
<1>5. \A q \in Points : points'[q] = None <=> points[q] = None
  BY <1>1, <1>3, WithoutEdgesType
<1>6. \A q \in Points, s \in Sides, m \in Lines : points[q] # None =>
        /\ points'[q][s][m] <= points[q][s][m]
        /\ m # l => points'[q][s][m] = points[q][s][m]
  BY <1>1, <1>3, WithoutEdgesType
<1> QED BY <1>1, <1>2, <1>4, <1>5, <1>6

LEMMA DelPointEffect ==
  ASSUME IndInv, NEW p \in Points, DelPoint(p)
  PROVE  /\ PointsType' /\ lines' \in [Lines -> BOOLEAN]
         /\ points'[p] = None /\ points[p] # None
         /\ \A q \in Points : q # p => (points'[q] = None <=> points[q] = None)
         /\ \A q \in Points, s \in Sides, m \in Lines : q # p /\ points[q] # None =>
              /\ points'[q][s][m] <= points[q][s][m]
              /\ m \notin OwnLinesOf(p) => points'[q][s][m] = points[q][s][m]
         /\ \A m \in Lines : lines'[m] <=> lines[m] /\ m \notin OwnLinesOf(p)
<1>1. PointsType /\ lines \in [Lines -> BOOLEAN]
  BY DEF IndInv, TypeOK, PointsType
<1>2. /\ points' = [q \in Points |-> IF q = p THEN None
                                     ELSE WithoutEdges(q, Owner[p], OwnLinesOf(p))]
      /\ lines' = [l \in Lines |-> lines[l] /\ l \notin OwnLinesOf(p)]
      /\ points[p] # None
  BY DEF DelPoint
<1>3. /\ points'[p] = None
      /\ \A q \in Points : q # p => points'[q] = WithoutEdges(q, Owner[p], OwnLinesOf(p))
  BY <1>2
<1>4. PointsType'
  BY <1>1, <1>2, WithoutEdgesType DEF PointsType
<1>5. \A q \in Points : q # p => (points'[q] = None <=> points[q] = None)
  BY <1>1, <1>3, WithoutEdgesType
<1>6. \A q \in Points, s \in Sides, m \in Lines : q # p /\ points[q] # None =>
        /\ points'[q][s][m] <= points[q][s][m]
        /\ m \notin OwnLinesOf(p) => points'[q][s][m] = points[q][s][m]
  BY <1>1, <1>3, WithoutEdgesType
<1>7. \A m \in Lines : lines'[m] <=> lines[m] /\ m \notin OwnLinesOf(p)
  BY <1>2
<1>8. lines' \in [Lines -> BOOLEAN]
  BY <1>1, <1>2
<1> QED BY <1>2, <1>3, <1>4, <1>5, <1>6, <1>7, <1>8

(* The steps of a client that waits for an answer, with the request it     *)
(* waits for: what OrderCall and ExecuteEffect need to know of them.       *)
LEMMA CallStep ==
  ASSUME IndInv, NEW c \in Clients, Answered(c) \/ AnswerLost(c) \/ GiveUp(c)
  PROVE  \E r \in Requests, ok \in BOOLEAN :
           /\ r = call[c] /\ call[c] # None /\ GoOn(c, ok)
           /\ r.line \in Lines /\ link[r.line] \in Links /\ link[r.line].client = c
           /\ UNCHANGED <<link, unlinked, deleted>>
           /\ \/ Execute(r) /\ late' = late /\ ok = Accepted(r) /\ UNCHANGED disturbed
              \/ /\ Execute(r) /\ late' = late /\ ~ok
                 /\ disturbed' = disturbed \union {r.line}
              \/ /\ ~ok /\ late' = late \union {r} /\ UNCHANGED <<stored, added>>
                 /\ disturbed' = disturbed \union {r.line}
<1>1. call[c] # None
  BY DEF Answered, AnswerLost, GiveUp
<1>2. PICK r \in Requests : r = call[c]
  BY <1>1 DEF IndInv, TypeOK
<1>3. r \in Open
  BY <1>1, <1>2, OpenIs
<1>4. r.line \in Lines /\ link[r.line] \in Links /\ link[r.line].client = c
  BY <1>1, <1>2, <1>3, OpenLink DEF IndInv, OrderInv, CallsOwn
<1>5. CASE Answered(c)
  <2>1. Accepted(r) \in BOOLEAN
    BY DEF Accepted
  <2>2. /\ GoOn(c, Accepted(r)) /\ Execute(r)
        /\ UNCHANGED <<link, late, unlinked, deleted, disturbed>>
    BY <1>2, <1>5 DEF Answered
  <2> QED BY <1>1, <1>2, <1>4, <2>1, <2>2
<1>6. CASE AnswerLost(c)
  <2>1. /\ GoOn(c, FALSE) /\ Execute(r) /\ disturbed' = disturbed \union {r.line}
        /\ UNCHANGED <<link, late, unlinked, deleted>>
    BY <1>2, <1>6 DEF AnswerLost
  <2> QED BY <1>1, <1>2, <1>4, <2>1
<1>7. CASE GiveUp(c)
  <2>1. /\ GoOn(c, FALSE) /\ late' = late \union {r}
        /\ disturbed' = disturbed \union {r.line}
        /\ UNCHANGED <<stored, link, added, unlinked, deleted>>
    BY <1>2, <1>7 DEF GiveUp, history
  <2> QED BY <1>1, <1>2, <1>4, <2>1
<1> QED BY <1>5, <1>6, <1>7

LEMMA CallOrder ==
  ASSUME IndInv, NEW c \in Clients, Answered(c) \/ AnswerLost(c) \/ GiveUp(c)
  PROVE  IndInv'
<1>1. PICK r \in Requests, ok \in BOOLEAN :
        /\ r = call[c] /\ call[c] # None /\ GoOn(c, ok)
        /\ r.line \in Lines /\ link[r.line] \in Links /\ link[r.line].client = c
        /\ UNCHANGED <<link, unlinked, deleted>>
        /\ \/ Execute(r) /\ late' = late /\ ok = Accepted(r) /\ UNCHANGED disturbed
           \/ /\ Execute(r) /\ late' = late /\ ~ok
              /\ disturbed' = disturbed \union {r.line}
           \/ /\ ~ok /\ late' = late \union {r} /\ UNCHANGED <<stored, added>>
              /\ disturbed' = disturbed \union {r.line}
  BY CallStep
<1>2. /\ PointsType /\ lines \in [Lines -> BOOLEAN]
      /\ call \in [Clients -> Requests \union {None}]
      /\ result \in [Lines -> {"success", "failure", None}]
      /\ Sdk[c] = "java" => call[c].op \in Adds
  BY <1>1 DEF IndInv, TypeOK, PointsType, OrderInv, CallsOwn
<1>3. /\ call' \in [Clients -> Requests \union {None}]
      /\ result' \in [Lines -> {"success", "failure", None}]
  BY <1>1, <1>2, GoOnEffect
<1>4. /\ PointsType' /\ lines' \in [Lines -> BOOLEAN]
      /\ \/ UNCHANGED <<lines, added>>
         \/ /\ r.op = "addLine" /\ added' = added \union {r.line}
            /\ \A m \in Lines : m # r.line => lines'[m] = lines[m]
  <2>1. CASE Execute(r)
    <3>1. /\ PointsType'
          /\ lines' = IF r.op = "addLine" THEN [lines EXCEPT ![r.line] = TRUE] ELSE lines
          /\ added' = IF r.op = "addLine" THEN added \union {r.line} ELSE added
      BY <1>1, <1>2, <2>1, ExecuteEffect
    <3> QED BY <1>2, <3>1
  <2>2. CASE UNCHANGED <<stored, added>>
    BY <1>2, <2>2 DEF stored, PointsType
  <2> QED BY <1>1, <2>1, <2>2
<1>5. OrderInv'
  <2>1. \/ late' = late
        \/ ~ok /\ late' = late \union {r} /\ UNCHANGED <<lines, added>>
    BY <1>1 DEF stored
  <2> QED BY <1>1, <1>4, <2>1, OrderCall
<1>6. late' \subseteq Requests /\ added' \subseteq Lines /\ disturbed' \subseteq Lines
  BY <1>1, <1>4 DEF IndInv, TypeOK
<1> QED BY <1>1, <1>3, <1>4, <1>5, <1>6 DEF IndInv, TypeOK, PointsType

LEMMA LateOrder ==
  ASSUME IndInv, NEW r \in late, ExecuteLate(r)
  PROVE  IndInv'
<1>1. OrderInv'
  BY OrderLate
<1>2. r \in Requests /\ r.line \in Lines /\ link[r.line] \in Links /\ PointsType /\ Execute(r)
  BY OpenIs, OpenLink DEF ExecuteLate, IndInv, TypeOK, PointsType
<1>3. /\ PointsType'
      /\ lines' = IF r.op = "addLine" THEN [lines EXCEPT ![r.line] = TRUE] ELSE lines
      /\ added' = IF r.op = "addLine" THEN added \union {r.line} ELSE added
  BY <1>2, ExecuteEffect
<1>4. late' = late \ {r} /\ UNCHANGED <<link, call, unlinked, deleted, result, disturbed>>
  BY DEF ExecuteLate
<1> QED BY <1>1, <1>2, <1>3, <1>4 DEF IndInv, TypeOK, PointsType

LEMMA SetPointEffect ==
  ASSUME IndInv, NEW p \in Points, SetPoint(p)
  PROVE  /\ PointsType' /\ points[p] = None
         /\ \A q \in Points : q # p => points'[q] = points[q]
         /\ \A s \in Sides, m \in Lines : points'[p][s][m] = 0
<1>1. Unlisted \in Lists /\ \A s \in Sides, m \in Lines : Unlisted[s][m] = 0
  BY DEF Unlisted, Lists
<1>2. points[p] = None /\ points' = [points EXCEPT ![p] = Unlisted]
  BY DEF SetPoint
<1> QED BY <1>1, <1>2 DEF IndInv, TypeOK, PointsType

LEMMA Ordered == Spec => []IndInv
<1>1. Init => IndInv
  <2> SUFFICES ASSUME Init PROVE IndInv
    OBVIOUS
  <2>1. TypeOK
    BY DEF Init, TypeOK
  <2>2. Open = {}
    BY DEF Init, Open, Calls
  <2>3. OrderInv
    BY <2>2 DEF Init, OrderInv, CallsOwn, NoRequestBefore, AddingInOrder, AddsOnce, UndoOnFailure
  <2> QED BY <2>1, <2>3 DEF IndInv
<1>2. IndInv /\ [Next]_vars => IndInv'
  <2> SUFFICES ASSUME IndInv, [Next]_vars PROVE IndInv'
    OBVIOUS
  <2>1. ASSUME NEW p \in Points, SetPoint(p) PROVE IndInv'
    <3>1. PointsType' /\ UNCHANGED <<lines, link, call, late, history, result, disturbed>>
      BY <2>1, SetPointEffect DEF SetPoint
    <3>2. OrderInv'
      BY <3>1, OrderWithout DEF history
    <3> QED BY <3>1, <3>2 DEF IndInv, TypeOK, PointsType, history
  <2>2. ASSUME NEW p \in Points, DelPoint(p) PROVE IndInv'
    <3>1. /\ PointsType' /\ lines' \in [Lines -> BOOLEAN]
          /\ \A l \in Lines : lines'[l] => lines[l]
          /\ deleted' = deleted \union {p}
          /\ UNCHANGED <<link, call, late, added, unlinked, result, disturbed>>
      BY <2>2, DelPointEffect DEF DelPoint
    <3>2. OrderInv'
      BY <3>1, OrderWithout
    <3> QED BY <3>1, <3>2 DEF IndInv, TypeOK, PointsType
  <2>3. ASSUME NEW l \in Lines, Unlink(l) PROVE IndInv'
    <3>1. /\ PointsType' /\ lines' \in [Lines -> BOOLEAN]
          /\ \A m \in Lines : lines'[m] => lines[m]
          /\ unlinked' = unlinked \union {l}
          /\ UNCHANGED <<link, call, late, added, deleted, result, disturbed>>
      BY <2>3, UnlinkEffect DEF Unlink
    <3>2. OrderInv'
      BY <3>1, OrderWithout
    <3> QED BY <3>1, <3>2 DEF IndInv, TypeOK, PointsType
  <2>4. ASSUME NEW c \in Clients, NEW l \in Lines, NEW start \in Points, NEW end \in Points,
               Link(c, l, start, end)
        PROVE  IndInv'
    <3>1. OrderInv'
      BY <2>4, OrderLink
    <3>2. /\ [client |-> c, out |-> start, in |-> end] \in Links
          /\ [op |-> FirstOp(c), line |-> l] \in Requests
      BY DEF Links, Requests, FirstOp, Ops
    <3> QED BY <2>4, <3>1, <3>2 DEF Link, stored, history, IndInv, TypeOK
  <2>5. ASSUME NEW c \in Clients, Answered(c) \/ AnswerLost(c) \/ GiveUp(c) PROVE IndInv'
    BY <2>5, CallOrder
  <2>6. ASSUME NEW r \in late, ExecuteLate(r) PROVE IndInv'
    BY <2>6, LateOrder
  <2>7. ASSUME NEW r \in late, Drop(r) PROVE IndInv'
    <3>1. /\ late' \subseteq late
          /\ UNCHANGED <<points, lines, link, call, added, unlinked, deleted, result, disturbed>>
      BY <2>7 DEF Drop, stored, history
    <3>2. OrderInv'
      BY <3>1, OrderWithout
    <3> QED BY <3>1, <3>2 DEF IndInv, TypeOK
  <2>8. CASE UNCHANGED vars
    <3>1. OrderInv'
      BY <2>8, OrderWithout DEF vars
    <3> QED BY <2>8, <3>1 DEF IndInv, TypeOK, vars
  <2> QED BY <2>1, <2>2, <2>3, <2>4, <2>5, <2>6, <2>7, <2>8 DEF Next
<1> QED BY <1>1, <1>2, PTL DEF Spec

(* The types of the variables; in particular no list of edges is asked to  *)
(* give up an entry it does not have.                                      *)
THEOREM TypeCorrect == Spec => []TypeOK
BY Ordered, PTL DEF IndInv

-----------------------------------------------------------------------------
(* The promise of Connections.  A connection can be found exactly when its *)
(* line is there and both points list it.                                  *)
LEMMA ConnectedIs ==
  \A l \in Lines :
    Connected(l) <=> /\ link[l] # None /\ lines[l]
                     /\ \A s \in Sides : HasEdge(link[l][s], s, l)
BY DEF Connected, Found, HasEdge, Sides

(* What a request of a Link does to the edges: it adds one of its own, or  *)
(* takes one of its own away.                                              *)
LEMMA ExecuteEdges ==
  ASSUME IndInv, NEW r \in Open, Execute(r), UNCHANGED link
  PROVE  /\ \A p \in Points, s \in Sides, m \in Lines :
              HasEdge(p, s, m)' =>
                \/ HasEdge(p, s, m)
                \/ r.op \in Adds /\ r.op # "addLine" /\ m = r.line /\ link[m][s] = p
         /\ \A p \in Points, s \in Sides, m \in Lines :
              HasEdge(p, s, m) =>
                HasEdge(p, s, m)' \/ (r.op \notin Adds /\ m = r.line)
         /\ r.op = "addOut" /\ points[link[r.line].out] # None =>
              HasEdge(link[r.line].out, "out", r.line)'
         /\ r.op = "addIn" /\ points[link[r.line].in] # None =>
              HasEdge(link[r.line].in, "in", r.line)'
<1>1. r \in Requests /\ r.line \in Lines /\ link[r.line] \in Links /\ PointsType /\ r.op \in Ops
  BY OpenLink DEF IndInv, TypeOK, PointsType, Requests
<1> DEFINE po == link[r.line].out
           pi == link[r.line].in
<1>2. /\ po \in Points /\ pi \in Points
      /\ po = link[r.line]["out"] /\ pi = link[r.line]["in"]
      /\ "out" \in Sides /\ "in" \in Sides /\ \A s \in Sides : s = "out" \/ s = "in"
  BY <1>1 DEF Links, Sides
<1>3. /\ PointsType'
      /\ \A q \in Points : points'[q] = None <=> points[q] = None
      /\ \A q \in Points, s \in Sides, m \in Lines :
           points[q] # None /\ (m = r.line => q # link[m][s]) =>
             points'[q][s][m] = points[q][s][m]
      /\ points[po] # None => points'[po]["out"][r.line] =
           IF r.op = "addOut" THEN points[po]["out"][r.line] + 1
           ELSE IF r.op = "delOut" THEN Less(points[po]["out"][r.line])
           ELSE points[po]["out"][r.line]
      /\ points[pi] # None => points'[pi]["in"][r.line] =
           IF r.op = "addIn" THEN points[pi]["in"][r.line] + 1
           ELSE IF r.op = "delIn" THEN Less(points[pi]["in"][r.line])
           ELSE points[pi]["in"][r.line]
  BY <1>1, ExecuteEffect
<1>4. \A q \in Points, s \in Sides, m \in Lines : points[q] # None => points[q][s][m] \in Nat
  BY <1>1 DEF PointsType, Lists
<1>5. /\ "addOut" \in Adds /\ "addIn" \in Adds /\ "delOut" \notin Adds /\ "delIn" \notin Adds
  BY DEF Adds
<1> HIDE DEF po, pi
<1>6. ASSUME NEW p \in Points, NEW s \in Sides, NEW m \in Lines
      PROVE  /\ HasEdge(p, s, m)' =>
                  \/ HasEdge(p, s, m)
                  \/ r.op \in Adds /\ r.op # "addLine" /\ m = r.line /\ link[m][s] = p
             /\ HasEdge(p, s, m) => HasEdge(p, s, m)' \/ (r.op \notin Adds /\ m = r.line)
  <2>1. CASE m # r.line \/ p # link[m][s]
    <3>1. HasEdge(p, s, m)' <=> HasEdge(p, s, m)
      BY <1>3, <2>1 DEF HasEdge
    <3> QED BY <2>1, <3>1
  <2>2. CASE points[p] = None
    BY <1>3, <2>2 DEF HasEdge
  <2>3. CASE points[p] # None /\ m = r.line /\ p = link[m][s] /\ s = "out"
    <3>1. p = po /\ points[p]["out"][m] \in Nat
      BY <1>2, <1>4, <2>3
    <3>2. CASE r.op = "addOut"
      BY <1>3, <1>5, <2>3, <3>1, <3>2 DEF HasEdge
    <3>3. CASE r.op = "delOut"
      BY <1>3, <1>5, <2>3, <3>1, <3>3, LessNat DEF HasEdge
    <3>4. CASE r.op # "addOut" /\ r.op # "delOut"
      BY <1>3, <2>3, <3>1, <3>4 DEF HasEdge
    <3> QED BY <3>2, <3>3, <3>4
  <2>4. CASE points[p] # None /\ m = r.line /\ p = link[m][s] /\ s = "in"
    <3>1. p = pi /\ points[p]["in"][m] \in Nat
      BY <1>2, <1>4, <2>4
    <3>2. CASE r.op = "addIn"
      BY <1>3, <1>5, <2>4, <3>1, <3>2 DEF HasEdge
    <3>3. CASE r.op = "delIn"
      BY <1>3, <1>5, <2>4, <3>1, <3>3, LessNat DEF HasEdge
    <3>4. CASE r.op # "addIn" /\ r.op # "delIn"
      BY <1>3, <2>4, <3>1, <3>4 DEF HasEdge
    <3> QED BY <3>2, <3>3, <3>4
  <2> QED BY <1>2, <2>1, <2>2, <2>3, <2>4
<1>7. ASSUME r.op = "addOut", points[po] # None
      PROVE  points'[po] # None /\ points'[po]["out"][r.line] > 0
  <2>1. points[po]["out"][r.line] \in Nat
    BY <1>1, <1>2, <1>4, <1>7
  <2> QED BY <1>2, <1>3, <1>7, <2>1
<1>8. ASSUME r.op = "addIn", points[pi] # None
      PROVE  points'[pi] # None /\ points'[pi]["in"][r.line] > 0
  <2>1. points[pi]["in"][r.line] \in Nat
    BY <1>1, <1>2, <1>4, <1>8
  <2> QED BY <1>2, <1>3, <1>8, <2>1
<1>9. /\ r.op = "addOut" /\ points[po] # None => HasEdge(po, "out", r.line)'
      /\ r.op = "addIn" /\ points[pi] # None => HasEdge(pi, "in", r.line)'
  BY <1>7, <1>8 DEF HasEdge, po, pi
<1> QED BY <1>6, <1>9 DEF po, pi

(* Deleting a line or a point, or creating a point, adds no edge.          *)
LEMMA UnlinkEdges ==
  ASSUME IndInv, NEW l \in Lines, Unlink(l)
  PROVE  /\ \A p \in Points, s \in Sides, m \in Lines : HasEdge(p, s, m)' => HasEdge(p, s, m)
         /\ \A p \in Points, s \in Sides, m \in Lines :
              HasEdge(p, s, m) => HasEdge(p, s, m)' \/ m = l
<1>1. PointsType /\ PointsType'
  BY UnlinkEffect DEF IndInv, TypeOK, PointsType
<1>2. \A q \in Points, s \in Sides, m \in Lines :
        /\ points[q] # None => points[q][s][m] \in Nat
        /\ points'[q] # None => points'[q][s][m] \in Nat
  BY <1>1 DEF PointsType, Lists
<1> QED BY <1>2, UnlinkEffect DEF HasEdge

LEMMA DelPointEdges ==
  ASSUME IndInv, NEW d \in Points, DelPoint(d)
  PROVE  /\ \A p \in Points, s \in Sides, m \in Lines : HasEdge(p, s, m)' => HasEdge(p, s, m)
         /\ \A p \in Points, s \in Sides, m \in Lines :
              HasEdge(p, s, m) => HasEdge(p, s, m)' \/ p = d \/ m \in OwnLinesOf(d)
<1>1. PointsType /\ PointsType'
  BY DelPointEffect DEF IndInv, TypeOK, PointsType
<1>2. \A q \in Points, s \in Sides, m \in Lines :
        /\ points[q] # None => points[q][s][m] \in Nat
        /\ points'[q] # None => points'[q][s][m] \in Nat
  BY <1>1 DEF PointsType, Lists
<1> QED BY <1>2, DelPointEffect DEF HasEdge

LEMMA SetPointEdges ==
  ASSUME IndInv, NEW d \in Points, SetPoint(d)
  PROVE  \A p \in Points, s \in Sides, m \in Lines : HasEdge(p, s, m)' <=> HasEdge(p, s, m)
BY SetPointEffect DEF HasEdge

(* A step that adds no line and no edge of a line that is there can only   *)
(* break connections.                                                      *)
LEMMA OnlyBreaks ==
  ASSUME IndInv, UNCHANGED added,
         \A l \in Lines : link[l] # None => link'[l] = link[l],
         \A l \in Lines : link[l] # None => link[l] \in Links,
         \A l \in Lines : lines'[l] => lines[l],
         \A p \in Points, s \in Sides, l \in Lines :
           lines'[l] /\ HasEdge(p, s, l)' => HasEdge(p, s, l)
  PROVE  [Promise!Next]_connection
<1>1. ASSUME NEW l \in Lines, Connected(l)' PROVE Connected(l)
  <2>1. lines'[l] /\ \A s \in Sides : HasEdge(link[l][s], s, l)'
    BY <1>1 DEF Connected, Found, HasEdge, Sides
  <2>2. lines[l] /\ link[l] # None
    BY <2>1 DEF IndInv, OrderInv, NoRequestBefore
  <2>3. \A s \in Sides : link[l][s] \in Points /\ link'[l] = link[l]
    BY <2>2 DEF Links, Sides
  <2>4. ASSUME NEW s \in Sides PROVE HasEdge(link[l][s], s, l)
    <3>1. PICK p \in Points : p = link[l][s]
      BY <2>3
    <3>2. HasEdge(p, s, l)'
      BY <2>1, <2>3, <3>1 DEF HasEdge
    <3> QED BY <2>1, <3>1, <3>2
  <2> QED BY <2>2, <2>4, ConnectedIs
<1>2. \A l \in Lines : Connected(l) => l \in added
  BY ConnectedIs DEF IndInv, OrderInv, AddsOnce
<1> DEFINE S == {l \in Lines : Connected(l) /\ ~Connected(l)'}
<1>3. \A l \in S : connection[l] = "made"
  BY DEF connection
<1>4. connection' = [l \in Lines |-> IF l \in S THEN "gone" ELSE connection[l]]
  <2>1. ASSUME NEW l \in Lines
        PROVE  (IF Connected(l)' THEN "made" ELSE IF l \in added' THEN "gone" ELSE "none")
                 = (IF l \in S THEN "gone" ELSE connection[l])
    BY <1>1, <1>2 DEF connection
  <2>2. connection' =
          [l \in Lines |-> IF Connected(l)' THEN "made" ELSE IF l \in added' THEN "gone" ELSE "none"]
    BY DEF connection
  <2> HIDE DEF S
  <2> QED BY <2>1, <2>2
<1>5. S \in SUBSET Lines
  OBVIOUS
<1> HIDE DEF S
<1>6. Promise!Break(S)
  BY <1>3, <1>4 DEF Promise!Break
<1> QED BY <1>5, <1>6 DEF Promise!Next

(* The request that adds the line makes its connection, or comes too late. *)
LEMMA AddingMakes ==
  ASSUME IndInv, NEW r \in Open, Execute(r), UNCHANGED link
  PROVE  [Promise!Next]_connection
<1>1. r \in Requests /\ r.line \in Lines /\ PointsType /\ link[r.line] \in Links
  BY OpenLink DEF IndInv, TypeOK, PointsType
<1>2. /\ lines' = IF r.op = "addLine" THEN [lines EXCEPT ![r.line] = TRUE] ELSE lines
      /\ added' = IF r.op = "addLine" THEN added \union {r.line} ELSE added
      /\ r.op = "addLine" => points' = points
  BY <1>1, ExecuteEffect DEF Execute
<1>3. \A l \in Lines : link[l] # None => link[l] \in Links
  BY DEF IndInv, TypeOK
<1>4. CASE r.op # "addLine"
  <2>1. ASSUME NEW p \in Points, NEW s \in Sides, NEW l \in Lines,
               lines'[l], HasEdge(p, s, l)'
        PROVE  HasEdge(p, s, l)
    <3>1. l \in added
      BY <1>2, <1>4, <2>1 DEF IndInv, OrderInv, AddsOnce
    <3>2. r.op \in Adds => r.line # l
      BY <3>1 DEF IndInv, OrderInv, AddsOnce
    <3> QED BY <2>1, <3>2, ExecuteEdges
  <2> QED BY <1>2, <1>3, <1>4, <2>1, OnlyBreaks
<1>5. CASE r.op = "addLine"
  <2>1. r.line \notin added /\ ~lines[r.line]
    BY <1>1, <1>5 DEF IndInv, OrderInv, AddsOnce, Adds
  <2>2. connection[r.line] = "none"
    BY <1>1, <2>1, ConnectedIs DEF connection
  <2>3. \A l \in Lines : l # r.line =>
          (Connected(l)' <=> Connected(l)) /\ (l \in added' <=> l \in added)
    BY <1>1, <1>2, <1>5 DEF Connected, Found, HasEdge, IndInv, TypeOK
  <2>4. connection' =
          [l \in Lines |-> IF Connected(l)' THEN "made" ELSE IF l \in added' THEN "gone" ELSE "none"]
    BY DEF connection
  <2>5. connection =
          [l \in Lines |-> IF Connected(l) THEN "made" ELSE IF l \in added THEN "gone" ELSE "none"]
    BY DEF connection
  <2>6. r.line \in added'
    BY <1>2, <1>5
  <2>7. CASE Connected(r.line)'
    <3>1. connection' = [connection EXCEPT ![r.line] = "made"]
      BY <2>3, <2>4, <2>5, <2>7
    <3> QED BY <1>1, <2>2, <3>1 DEF Promise!Make, Promise!Next
  <2>8. CASE ~Connected(r.line)'
    <3>1. connection' = [connection EXCEPT ![r.line] = "gone"]
      BY <2>3, <2>4, <2>5, <2>6, <2>8
    <3> QED BY <1>1, <2>2, <3>1 DEF Promise!Make, Promise!Next
  <2> QED BY <2>7, <2>8
<1> QED BY <1>4, <1>5

(* Every connection is made at most once, in one step, seen from both of   *)
(* its ends, and never comes back once it is gone, whatever requests are   *)
(* refused, late or lost: Link of either client, Unlink, DelPoint and      *)
(* SetPoint implement Connections.                                         *)
THEOREM PromiseKept == Spec => Promised
<1>1. Init => Promise!Init
  <2> SUFFICES ASSUME Init PROVE Promise!Init
    OBVIOUS
  <2>1. \A l \in Lines : ~Connected(l) /\ l \notin added
    BY ConnectedIs DEF Init
  <2> QED BY <2>1 DEF Promise!Init, connection
<1>2. IndInv /\ [Next]_vars => [Promise!Next]_connection
  <2> SUFFICES ASSUME IndInv, [Next]_vars PROVE [Promise!Next]_connection
    OBVIOUS
  <2>0. \A l \in Lines : link[l] # None => link[l] \in Links
    BY DEF IndInv, TypeOK
  <2>1. ASSUME NEW p \in Points, SetPoint(p) PROVE [Promise!Next]_connection
    <3>1. UNCHANGED <<link, lines, added>>
      BY <2>1 DEF SetPoint, history
    <3> QED BY <2>0, <2>1, <3>1, SetPointEdges, OnlyBreaks
  <2>2. ASSUME NEW p \in Points, DelPoint(p) PROVE [Promise!Next]_connection
    <3>1. UNCHANGED <<link, added>> /\ \A l \in Lines : lines'[l] => lines[l]
      BY <2>2, DelPointEffect DEF DelPoint
    <3> QED BY <2>0, <2>2, <3>1, DelPointEdges, OnlyBreaks
  <2>3. ASSUME NEW l \in Lines, Unlink(l) PROVE [Promise!Next]_connection
    <3>1. UNCHANGED <<link, added>> /\ \A m \in Lines : lines'[m] => lines[m]
      BY <2>3, UnlinkEffect DEF Unlink
    <3> QED BY <2>0, <2>3, <3>1, UnlinkEdges, OnlyBreaks
  <2>4. ASSUME NEW c \in Clients, NEW l \in Lines, NEW start \in Points, NEW end \in Points,
               Link(c, l, start, end)
        PROVE  [Promise!Next]_connection
    <3>1. /\ UNCHANGED <<points, lines, added>>
          /\ \A m \in Lines : link[m] # None => link'[m] = link[m]
      BY <2>4 DEF Link, stored, history, IndInv, TypeOK
    <3> QED BY <2>0, <3>1, OnlyBreaks DEF HasEdge
  <2>5. ASSUME NEW c \in Clients, Answered(c) \/ AnswerLost(c) \/ GiveUp(c)
        PROVE  [Promise!Next]_connection
    <3>1. PICK r \in Requests :
            /\ r = call[c] /\ call[c] # None /\ UNCHANGED link
            /\ Execute(r) \/ UNCHANGED <<stored, added>>
      BY <2>5, CallStep
    <3>2. r \in Open
      BY <3>1, OpenIs
    <3>3. CASE Execute(r)
      BY <3>1, <3>2, <3>3, AddingMakes
    <3>4. CASE UNCHANGED <<stored, added>>
      BY <2>0, <3>1, <3>4, OnlyBreaks DEF stored, HasEdge
    <3> QED BY <3>1, <3>3, <3>4
  <2>6. ASSUME NEW r \in late, ExecuteLate(r) PROVE [Promise!Next]_connection
    <3>1. r \in Open /\ Execute(r) /\ UNCHANGED link
      BY <2>6, OpenIs DEF ExecuteLate
    <3> QED BY <3>1, AddingMakes
  <2>7. ASSUME NEW r \in late, Drop(r) PROVE [Promise!Next]_connection
    <3>1. UNCHANGED <<points, lines, link, added>>
      BY <2>7 DEF Drop, stored, history
    <3> QED BY <2>0, <3>1, OnlyBreaks DEF HasEdge
  <2>8. CASE UNCHANGED vars
    <3>1. UNCHANGED <<points, lines, link, added>>
      BY <2>8 DEF vars
    <3> QED BY <2>0, <3>1, OnlyBreaks DEF HasEdge
  <2> QED BY <2>1, <2>2, <2>3, <2>4, <2>5, <2>6, <2>7, <2>8 DEF Next
<1> QED BY <1>1, <1>2, Ordered, PTL DEF Spec, Promised, Promise!Spec

-----------------------------------------------------------------------------
(* Edges that were added stay, by induction together with IndInv.          *)
KeptIndInv == IndInv /\ KeptInv

(* How a step may change an edge, lifted to Kept.                          *)
LEMMA KeptStays ==
  ASSUME IndInv, NEW l \in Lines, link[l] # None, link'[l] = link[l],
         deleted \subseteq deleted', NEW s \in Sides, Kept(l, s),
         \A p \in Points : HasEdge(p, s, l) => HasEdge(p, s, l)' \/ p \in deleted'
  PROVE  Kept(l, s)'
<1>1. link[l][s] \in Points
  BY DEF IndInv, TypeOK, Links, Sides
<1>2. PICK p \in Points : p = link[l][s] /\ p = link'[l][s]
  BY <1>1
<1>3. p \in deleted \/ HasEdge(p, s, l)
  BY <1>2 DEF Kept
<1>4. p \in deleted' \/ HasEdge(p, s, l)'
  BY <1>3
<1> QED BY <1>2, <1>4 DEF Kept, HasEdge

(* Steps that add no request, no line and no edge.                         *)
LEMMA KeptWithout ==
  ASSUME KeptIndInv, UNCHANGED <<link, call, added, result>>, late' \subseteq late,
         unlinked \subseteq unlinked', deleted \subseteq deleted',
         \A p \in Points, s \in Sides, l \in Lines : HasEdge(p, s, l)' => HasEdge(p, s, l),
         \A p \in Points, s \in Sides, l \in Lines : HasEdge(p, s, l) =>
           HasEdge(p, s, l)' \/ p \in deleted' \/ (lines[l] /\ ~lines'[l]),
         \A l \in Lines : lines'[l] => lines[l],
         \A l \in Lines : lines[l] =>
           lines'[l] \/ l \in unlinked' \/ \E s \in Sides : link[l][s] \in deleted'
  PROVE  KeptInv'
<1> USE DEF KeptIndInv, KeptInv
<1>1. ASSUME NEW l \in Lines, link[l] # None, KeptBoth(l), lines'[l] \/ ~lines[l]
      PROVE  KeptBoth(l)'
  BY <1>1, KeptStays DEF KeptBoth
<1>2. ASSUME NEW l \in Lines, link[l] # None, NEW s \in Sides, Kept(l, s), ~lines[l]
      PROVE  Kept(l, s)'
  BY <1>2, KeptStays
<1>3. \A r \in Open : r.line \in Lines /\ link[r.line] # None /\ (r.op \in Adds => ~lines[r.line])
  BY OpenLink DEF IndInv, OrderInv, NoRequestBefore, AddsOnce
<1>4. HasOwnEdges'
  BY DEF HasOwnEdges
<1>5. CallKept'
  <2> SUFFICES ASSUME NEW c \in Clients, call[c] # None
               PROVE  LET l == call[c].line
                      IN /\ call[c].op = "addLine" => KeptBoth(l)'
                         /\ call[c].op = "addIn" /\ Sdk[c] = "java" => Kept(l, "out")'
                         /\ call[c].op = "addOut" /\ Sdk[c] = "cpp" => Kept(l, "in")'
    BY DEF CallKept, KeptBoth, Kept, HasEdge
  <2>1. PICK r \in Open : r = call[c]
    BY OpenIs
  <2>2. /\ r.op = "addLine" => KeptBoth(r.line)
        /\ r.op = "addIn" /\ Sdk[c] = "java" => Kept(r.line, "out")
        /\ r.op = "addOut" /\ Sdk[c] = "cpp" => Kept(r.line, "in")
    BY <2>1 DEF CallKept
  <2>3. "addLine" \in Adds /\ "addIn" \in Adds /\ "addOut" \in Adds /\ "in" \in Sides /\ "out" \in Sides
    BY DEF Adds, Sides
  <2> QED BY <1>1, <1>2, <1>3, <2>1, <2>2, <2>3
<1>6. LateKept'
  <2> SUFFICES ASSUME NEW r \in late, r.op = "addLine", Sdk[link[r.line].client] = "java"
               PROVE  KeptBoth(r.line)'
    BY DEF LateKept
  <2>1. r \in Open /\ r.op \in Adds /\ KeptBoth(r.line)
    BY OpenIs DEF LateKept, Adds
  <2> QED BY <1>1, <1>3, <2>1
<1>7. LineKept'
  <2> SUFFICES ASSUME NEW l \in Lines, lines'[l],
                      Sdk[link[l].client] = "java" \/ result[l] = "success"
               PROVE  KeptBoth(l)'
    BY DEF LineKept
  <2>1. lines[l] /\ link[l] # None
    BY DEF IndInv, OrderInv, NoRequestBefore
  <2>2. KeptBoth(l)
    BY <2>1 DEF LineKept
  <2> QED BY <1>1, <2>1, <2>2
<1>8. SuccessStays'
  <2> SUFFICES ASSUME NEW l \in Lines, result[l] = "success"
               PROVE  lines'[l] \/ l \in unlinked' \/ \E s \in Sides : link[l][s] \in deleted'
    BY DEF SuccessStays
  <2>1. lines[l] \/ l \in unlinked \/ \E s \in Sides : link[l][s] \in deleted
    BY DEF SuccessStays
  <2> QED BY <2>1
<1> QED BY <1>4, <1>5, <1>6, <1>7, <1>8

(* Executing a request adds no edge of another, and takes edges only from  *)
(* the line of a request that takes them back.                             *)
LEMMA KeptExecute ==
  ASSUME KeptIndInv, NEW r \in Open, Execute(r), UNCHANGED <<link, deleted>>
  PROVE  /\ HasOwnEdges'
         /\ \A l \in Lines, s \in Sides :
              link[l] # None /\ Kept(l, s) /\ (l = r.line => r.op \in Adds) => Kept(l, s)'
<1> USE DEF KeptIndInv
<1>1. r.line \in Lines /\ link[r.line] # None
  BY OpenLink DEF IndInv, OrderInv, NoRequestBefore
<1>2. HasOwnEdges'
  BY <1>1, ExecuteEdges DEF KeptInv, HasOwnEdges
<1>3. ASSUME NEW l \in Lines, NEW s \in Sides, link[l] # None, Kept(l, s),
             l = r.line => r.op \in Adds
      PROVE  Kept(l, s)'
  <2>1. \A p \in Points : HasEdge(p, s, l) => HasEdge(p, s, l)'
    BY <1>3, ExecuteEdges
  <2> QED BY <1>3, <2>1, KeptStays
<1> QED BY <1>2, <1>3

LEMMA KeptLate ==
  ASSUME KeptIndInv, NEW r \in late, ExecuteLate(r)
  PROVE  KeptInv'
<1>1. /\ r \in Open /\ Execute(r) /\ late' = late \ {r}
      /\ UNCHANGED <<link, call, unlinked, deleted, result, disturbed>>
  BY OpenIs DEF ExecuteLate
<1>2. r \in Requests /\ r.line \in Lines /\ link[r.line] \in Links /\ PointsType
  BY <1>1, OpenLink DEF KeptIndInv, IndInv, TypeOK, PointsType
<1>3. lines' = IF r.op = "addLine" THEN [lines EXCEPT ![r.line] = TRUE] ELSE lines
  BY <1>1, <1>2, ExecuteEffect
<1> USE DEF KeptIndInv, KeptInv
<1>4. \A s \in Open : s.line \in Lines /\ link[s.line] # None
  BY OpenLink DEF IndInv, OrderInv, NoRequestBefore
<1>5. HasOwnEdges'
  BY <1>1, KeptExecute
<1>6. ASSUME NEW l \in Lines, link[l] # None, KeptBoth(l), l = r.line => r.op \in Adds
      PROVE  KeptBoth(l)'
  BY <1>1, <1>6, KeptExecute DEF KeptBoth
<1>7. CallKept'
  <2> SUFFICES ASSUME NEW c \in Clients, call[c] # None
               PROVE  LET l == call[c].line
                      IN /\ call[c].op = "addLine" => KeptBoth(l)'
                         /\ call[c].op = "addIn" /\ Sdk[c] = "java" => Kept(l, "out")'
                         /\ call[c].op = "addOut" /\ Sdk[c] = "cpp" => Kept(l, "in")'
    BY <1>1 DEF CallKept, KeptBoth, Kept, HasEdge
  <2>1. PICK q \in Open : q = call[c]
    BY OpenIs
  <2>2. /\ q.op = "addLine" => KeptBoth(q.line)
        /\ q.op = "addIn" /\ Sdk[c] = "java" => Kept(q.line, "out")
        /\ q.op = "addOut" /\ Sdk[c] = "cpp" => Kept(q.line, "in")
    BY <2>1 DEF CallKept
  <2>3. "addLine" \in Adds /\ "addIn" \in Adds /\ "addOut" \in Adds /\ "in" \in Sides /\ "out" \in Sides
    BY DEF Adds, Sides
  <2>4. q.op \in Adds => q.line # r.line
    BY <2>1 DEF IndInv, OrderInv, AddingInOrder
  <2>5. q.line \in Lines /\ link[q.line] # None
    BY <1>4
  <2> QED BY <1>1, <1>6, <2>1, <2>2, <2>3, <2>4, <2>5, KeptExecute
<1>8. LateKept'
  <2> SUFFICES ASSUME NEW q \in late, q.op = "addLine", Sdk[link[q.line].client] = "java"
               PROVE  KeptBoth(q.line)'
    BY <1>1 DEF LateKept
  <2>1. KeptBoth(q.line) /\ q.line \in Lines /\ link[q.line] # None
    BY <1>4, OpenIs DEF LateKept
  <2>2. q.line = r.line => r.op \in Adds
    BY DEF IndInv, OrderInv, UndoOnFailure
  <2> QED BY <1>6, <2>1, <2>2
<1>9. LineKept'
  <2> SUFFICES ASSUME NEW l \in Lines, lines'[l],
                      Sdk[link[l].client] = "java" \/ result[l] = "success"
               PROVE  KeptBoth(l)'
    BY <1>1 DEF LineKept
  <2>1. l = r.line => r.op \in Adds /\ Sdk[link[l].client] = "java"
    BY DEF IndInv, OrderInv, UndoOnFailure
  <2>2. CASE lines[l]
    <3>1. KeptBoth(l) /\ link[l] # None
      BY <2>2 DEF LineKept, IndInv, OrderInv, NoRequestBefore
    <3> QED BY <1>6, <2>1, <3>1
  <2>3. CASE ~lines[l]
    <3>1. l = r.line /\ r.op = "addLine"
      BY <1>2, <1>3, <2>3 DEF IndInv, TypeOK
    <3>2. KeptBoth(l) /\ link[l] # None
      BY <1>1, <1>4, <2>1, <3>1 DEF LateKept
    <3> QED BY <1>6, <2>1, <3>2
  <2> QED BY <2>2, <2>3
<1>10. SuccessStays'
  <2> SUFFICES ASSUME NEW l \in Lines, result[l] = "success"
               PROVE  lines'[l] \/ l \in unlinked \/ \E s \in Sides : link[l][s] \in deleted
    BY <1>1 DEF SuccessStays
  <2>1. lines[l] \/ l \in unlinked \/ \E s \in Sides : link[l][s] \in deleted
    BY DEF SuccessStays
  <2>2. lines[l] => lines'[l]
    BY <1>2, <1>3 DEF IndInv, TypeOK
  <2> QED BY <2>1, <2>2
<1> QED BY <1>5, <1>7, <1>8, <1>9, <1>10

(* A client that goes on to its next addition has made all before it.      *)
LEMMA KeptCall ==
  ASSUME KeptIndInv, NEW c \in Clients, Answered(c) \/ AnswerLost(c) \/ GiveUp(c)
  PROVE  KeptInv'
<1> USE DEF KeptIndInv, KeptInv
<1>1. PICK r \in Requests, ok \in BOOLEAN :
        /\ r = call[c] /\ call[c] # None /\ GoOn(c, ok)
        /\ r.line \in Lines /\ link[r.line] \in Links /\ link[r.line].client = c
        /\ UNCHANGED <<link, unlinked, deleted>>
        /\ \/ Execute(r) /\ late' = late /\ ok = Accepted(r) /\ UNCHANGED disturbed
           \/ /\ Execute(r) /\ late' = late /\ ~ok
              /\ disturbed' = disturbed \union {r.line}
           \/ /\ ~ok /\ late' = late \union {r} /\ UNCHANGED <<stored, added>>
              /\ disturbed' = disturbed \union {r.line}
  BY CallStep
<1>2. /\ call \in [Clients -> Requests \union {None}] /\ PointsType
      /\ result \in [Lines -> {"success", "failure", None}]
      /\ Sdk[c] = "java" => r.op \in Adds
  BY <1>1 DEF IndInv, TypeOK, PointsType, OrderInv, CallsOwn
<1> DEFINE moves ==
      \/ /\ Sdk[c] = "java" /\ ok
         /\ \/ r.op = "addOut" /\ call'[c].op = "addIn"
            \/ r.op = "addIn" /\ call'[c].op = "addLine"
      \/ /\ Sdk[c] = "cpp" /\ ok
         /\ \/ r.op = "addIn" /\ call'[c].op = "addOut"
            \/ r.op = "addOut" /\ call'[c].op = "addLine"
      \/ /\ Sdk[c] = "cpp"
         /\ \/ ~ok /\ r.op = "addOut" /\ call'[c].op = "delIn"
            \/ ~ok /\ r.op = "addLine" /\ call'[c].op = "delOut"
            \/ r.op = "delOut" /\ call'[c].op = "delIn"
<1>3. /\ \A d \in Clients : d # c => call'[d] = call[d]
      /\ \A m \in Lines : m # r.line => result'[m] = result[m]
      /\ call'[c] # None => call'[c].line = r.line /\ result' = result /\ moves
      /\ call'[c] = None =>
           result'[r.line] = IF ok /\ r.op = "addLine" THEN "success" ELSE "failure"
  BY <1>1, <1>2, GoOnEffect
<1> HIDE DEF moves
<1>4. r \in Open /\ \A s \in Open : s.line \in Lines /\ link[s.line] # None
  BY <1>1, OpenIs, OpenLink DEF IndInv, OrderInv, NoRequestBefore
<1>5. /\ HasOwnEdges'
      /\ \A l \in Lines, s \in Sides :
           link[l] # None /\ Kept(l, s) /\ (l = r.line => r.op \in Adds) => Kept(l, s)'
  <2>1. CASE Execute(r)
    BY <1>1, <1>4, <2>1, KeptExecute
  <2>2. CASE UNCHANGED <<stored, added>>
    BY <1>1, <2>2 DEF stored, HasOwnEdges, Kept, HasEdge
  <2> QED BY <1>1, <2>1, <2>2
<1>6. ASSUME NEW l \in Lines, link[l] # None, KeptBoth(l), l = r.line => r.op \in Adds
      PROVE  KeptBoth(l)'
  BY <1>5, <1>6 DEF KeptBoth
<1>7. ok => /\ r.op = "addOut" => Kept(r.line, "out")'
            /\ r.op = "addIn" => Kept(r.line, "in")'
  <2> SUFFICES ASSUME ok PROVE /\ r.op = "addOut" => Kept(r.line, "out")'
                               /\ r.op = "addIn" => Kept(r.line, "in")'
    OBVIOUS
  <2>1. Execute(r) /\ Accepted(r)
    BY <1>1
  <2>2. /\ r.op = "addOut" => HasEdge(link[r.line].out, "out", r.line)'
        /\ r.op = "addIn" => HasEdge(link[r.line].in, "in", r.line)'
    BY <1>1, <1>4, <2>1, ExecuteEdges DEF Accepted
  <2> QED BY <1>1, <2>2 DEF Kept, HasEdge
<1>8. ASSUME NEW d \in Clients, d # c, call[d] # None
      PROVE  call[d].line \in Lines /\ call[d].line # r.line /\ link[call[d].line] # None
  <2>1. call[d] \in Open
    BY <1>8, OpenIs
  <2> QED BY <1>1, <1>4, <1>8, <2>1 DEF IndInv, OrderInv, CallsOwn
<1>9. /\ "addLine" \in Adds /\ "addIn" \in Adds /\ "addOut" \in Adds
      /\ "in" \in Sides /\ "out" \in Sides /\ \A s \in Sides : s = "in" \/ s = "out"
  BY DEF Adds, Sides
<1>10. CallKept'
  <2> SUFFICES ASSUME NEW d \in Clients, call'[d] # None, NEW q, q = call'[d]
               PROVE  /\ q.op = "addLine" => KeptBoth(q.line)'
                      /\ q.op = "addIn" /\ Sdk[d] = "java" => Kept(q.line, "out")'
                      /\ q.op = "addOut" /\ Sdk[d] = "cpp" => Kept(q.line, "in")'
    BY DEF CallKept, KeptBoth, Kept, HasEdge
  <2>1. CASE d # c
    <3>1. q = call[d] /\ call[d] # None
      BY <1>3, <2>1
    <3>2. /\ q.op = "addLine" => KeptBoth(q.line)
          /\ q.op = "addIn" /\ Sdk[d] = "java" => Kept(q.line, "out")
          /\ q.op = "addOut" /\ Sdk[d] = "cpp" => Kept(q.line, "in")
      BY <3>1 DEF CallKept
    <3> QED BY <1>5, <1>6, <1>8, <1>9, <2>1, <3>1, <3>2
  <2>2. CASE d = c
    <3>1. q = call'[c] /\ q.line = r.line /\ moves
      BY <1>3, <2>2
    <3>2. /\ r.op = "addIn" /\ Sdk[c] = "java" => Kept(r.line, "out")
          /\ r.op = "addOut" /\ Sdk[c] = "cpp" => Kept(r.line, "in")
      BY <1>1 DEF CallKept
    <3>3. /\ r.op = "addIn" /\ Sdk[c] = "java" => Kept(r.line, "out")'
          /\ r.op = "addOut" /\ Sdk[c] = "cpp" => Kept(r.line, "in")'
      BY <1>4, <1>5, <1>9, <3>2
    <3>4. CASE Sdk[c] = "java" /\ ok
      <4>1. \/ r.op = "addOut" /\ q.op = "addIn"
            \/ r.op = "addIn" /\ q.op = "addLine"
        BY <3>1, <3>4 DEF moves
      <4>2. q.op = "addIn" => Kept(r.line, "out")'
        BY <1>7, <3>4, <4>1
      <4>3. q.op = "addLine" => KeptBoth(r.line)'
        BY <1>7, <1>9, <3>3, <3>4, <4>1 DEF KeptBoth
      <4> QED BY <2>2, <3>1, <3>4, <4>2, <4>3
    <3>5. CASE Sdk[c] = "cpp" /\ ok /\ q.op \in Adds
      <4>1. \/ r.op = "addIn" /\ q.op = "addOut"
            \/ r.op = "addOut" /\ q.op = "addLine"
        BY <3>1, <3>5 DEF Adds, moves
      <4>2. q.op = "addOut" => Kept(r.line, "in")'
        BY <1>7, <3>5, <4>1
      <4>3. q.op = "addLine" => KeptBoth(r.line)'
        BY <1>7, <1>9, <3>3, <3>5, <4>1 DEF KeptBoth
      <4> QED BY <2>2, <3>1, <3>5, <4>2, <4>3
    <3>6. CASE q.op \notin Adds
      BY <1>9, <3>6
    <3>7. q.op \in Adds => (Sdk[c] = "java" \/ Sdk[c] = "cpp") /\ ok
      BY <3>1 DEF moves, Adds
    <3> QED BY <3>4, <3>5, <3>6, <3>7
  <2> QED BY <2>1, <2>2
<1>11. LateKept'
  <2> SUFFICES ASSUME NEW q \in late', q.op = "addLine", Sdk[link[q.line].client] = "java"
               PROVE  KeptBoth(q.line)'
    BY <1>1 DEF LateKept
  <2>1. CASE q \in late
    <3>1. KeptBoth(q.line) /\ q.line \in Lines /\ link[q.line] # None
      BY <1>4, <2>1, OpenIs DEF LateKept
    <3>2. q.line = r.line => r.op \in Adds
      BY <1>1, <1>2
    <3> QED BY <1>6, <3>1, <3>2
  <2>2. CASE q = r
    <3>1. KeptBoth(r.line)
      BY <1>1, <2>2 DEF CallKept
    <3> QED BY <1>4, <1>6, <1>9, <2>2, <3>1
  <2> QED BY <1>1, <2>1, <2>2
<1>12. /\ \A l \in Lines : lines'[l] => lines[l] \/ (l = r.line /\ r.op = "addLine")
       /\ \A l \in Lines : lines[l] => lines'[l]
       /\ Execute(r) /\ r.op = "addLine" => lines'[r.line]
  <2>1. CASE Execute(r)
    <3>1. lines' = IF r.op = "addLine" THEN [lines EXCEPT ![r.line] = TRUE] ELSE lines
      BY <1>1, <1>2, <2>1, ExecuteEffect
    <3> QED BY <1>1, <3>1 DEF IndInv, TypeOK
  <2>2. CASE UNCHANGED <<stored, added>> /\ ~Execute(r)
    BY <2>2 DEF stored
  <2> QED BY <1>1, <2>1, <2>2
<1>13. LineKept'
  <2> SUFFICES ASSUME NEW l \in Lines, lines'[l],
                      Sdk[link[l].client] = "java" \/ result'[l] = "success"
               PROVE  KeptBoth(l)'
    BY <1>1 DEF LineKept
  <2>1. CASE l = r.line
    <3>1. CASE r.op = "addLine"
      <4>1. KeptBoth(r.line)
        BY <1>1, <3>1 DEF CallKept
      <4> QED BY <1>4, <1>6, <1>9, <2>1, <3>1, <4>1
    <3>2. CASE r.op # "addLine"
      <4>1. result[l] = None
        BY <1>1, <2>1 DEF IndInv, OrderInv, CallsOwn
      <4>2. result'[l] # "success"
        BY <1>3, <2>1, <3>2, <4>1
      <4>3. Sdk[link[l].client] = "java" /\ r.op \in Adds /\ lines[l]
        BY <1>1, <1>2, <1>12, <2>1, <3>2, <4>2
      <4>4. KeptBoth(l)
        BY <4>3 DEF LineKept
      <4> QED BY <1>4, <1>6, <2>1, <4>3, <4>4
    <3> QED BY <3>1, <3>2
  <2>2. CASE l # r.line
    <3>1. lines[l] /\ result'[l] = result[l]
      BY <1>3, <1>12, <2>2
    <3>2. KeptBoth(l) /\ link[l] # None
      BY <3>1 DEF LineKept, IndInv, OrderInv, NoRequestBefore
    <3> QED BY <1>6, <2>2, <3>2
  <2> QED BY <2>1, <2>2
<1>14. SuccessStays'
  <2> SUFFICES ASSUME NEW l \in Lines, result'[l] = "success"
               PROVE  lines'[l] \/ l \in unlinked \/ \E s \in Sides : link[l][s] \in deleted
    BY <1>1 DEF SuccessStays
  <2>1. CASE result[l] = "success"
    BY <1>12, <2>1 DEF SuccessStays
  <2>2. CASE result[l] # "success"
    <3>1. l = r.line /\ ok /\ r.op = "addLine"
      BY <1>3, <2>2
    <3>2. Execute(r)
      BY <1>1, <3>1
    <3> QED BY <1>12, <3>1, <3>2
  <2> QED BY <2>1, <2>2
<1> QED BY <1>5, <1>10, <1>11, <1>13, <1>14

LEMMA KeptLink ==
  ASSUME KeptIndInv, NEW c \in Clients, NEW l \in Lines,
         NEW start \in Points, NEW end \in Points, Link(c, l, start, end)
  PROVE  KeptInv'
<1> USE DEF KeptIndInv, KeptInv
<1> DEFINE r == [op |-> FirstOp(c), line |-> l]
<1>1. /\ r.op # "addLine" /\ (Sdk[c] = "java" => r.op = "addOut")
      /\ (Sdk[c] = "cpp" => r.op = "addIn") /\ r.line = l
  BY DEF FirstOp
<1>2. /\ link[l] = None /\ call' = [call EXCEPT ![c] = r]
      /\ UNCHANGED <<points, lines, late, added, unlinked, deleted, result>>
      /\ \A m \in Lines : m # l => link'[m] = link[m]
  BY DEF Link, stored, history, IndInv, TypeOK
<1> HIDE DEF r
<1>3. call'[c] = r /\ \A d \in Clients : d # c => call'[d] = call[d]
  BY <1>2 DEF IndInv, TypeOK
<1>4. \A s \in Open : s.line \in Lines /\ s.line # l
  BY <1>2, OpenLink DEF IndInv, OrderInv, NoRequestBefore
<1>5. \A m \in Lines, s \in Sides : m # l => (Kept(m, s)' <=> Kept(m, s))
  BY <1>2 DEF Kept, HasEdge
<1>6. ~lines[l] /\ result[l] = None
  BY <1>2 DEF IndInv, OrderInv, NoRequestBefore
<1>7. HasOwnEdges'
  BY <1>2 DEF HasOwnEdges, HasEdge
<1>8. CallKept'
  <2> SUFFICES ASSUME NEW d \in Clients, call'[d] # None, NEW q, q = call'[d]
               PROVE  /\ q.op = "addLine" => KeptBoth(q.line)'
                      /\ q.op = "addIn" /\ Sdk[d] = "java" => Kept(q.line, "out")'
                      /\ q.op = "addOut" /\ Sdk[d] = "cpp" => Kept(q.line, "in")'
    BY DEF CallKept, KeptBoth, Kept, HasEdge
  <2>1. CASE d = c
    BY <1>1, <1>3, <2>1
  <2>2. CASE d # c
    <3>1. q = call[d] /\ call[d] # None /\ q.line \in Lines /\ q.line # l
      BY <1>3, <1>4, <2>2, OpenIs
    <3>2. /\ q.op = "addLine" => KeptBoth(q.line)
          /\ q.op = "addIn" /\ Sdk[d] = "java" => Kept(q.line, "out")
          /\ q.op = "addOut" /\ Sdk[d] = "cpp" => Kept(q.line, "in")
      BY <3>1 DEF CallKept
    <3> QED BY <1>5, <3>1, <3>2 DEF KeptBoth, Sides
  <2> QED BY <2>1, <2>2
<1>9. LateKept'
  <2> SUFFICES ASSUME NEW q \in late, q.op = "addLine", Sdk[link'[q.line].client] = "java"
               PROVE  KeptBoth(q.line)'
    BY <1>2 DEF LateKept
  <2>1. q.line \in Lines /\ q.line # l
    BY <1>4, OpenIs
  <2>2. KeptBoth(q.line)
    BY <1>2, <2>1 DEF LateKept
  <2> QED BY <1>5, <2>1, <2>2 DEF KeptBoth
<1>10. LineKept'
  <2> SUFFICES ASSUME NEW m \in Lines, lines[m],
                      Sdk[link'[m].client] = "java" \/ result[m] = "success"
               PROVE  KeptBoth(m)'
    BY <1>2 DEF LineKept
  <2>1. m # l
    BY <1>6
  <2>2. KeptBoth(m)
    BY <1>2, <2>1 DEF LineKept
  <2> QED BY <1>5, <2>1, <2>2 DEF KeptBoth
<1>11. SuccessStays'
  BY <1>2, <1>6 DEF SuccessStays
<1> QED BY <1>7, <1>8, <1>9, <1>10, <1>11

LEMMA EdgesKept == Spec => []KeptIndInv
<1>1. Init => KeptInv
  <2> SUFFICES ASSUME Init PROVE KeptInv
    OBVIOUS
  <2> QED BY DEF Init, KeptInv, HasOwnEdges, HasEdge, CallKept, LateKept, LineKept, SuccessStays
<1>2. KeptInv /\ IndInv /\ [Next]_vars => KeptInv'
  <2> SUFFICES ASSUME KeptInv, IndInv, [Next]_vars PROVE KeptInv'
    OBVIOUS
  <2>0. KeptIndInv
    BY DEF KeptIndInv
  <2>1. ASSUME NEW p \in Points, SetPoint(p) PROVE KeptInv'
    <3>1. UNCHANGED <<lines, link, call, late, added, unlinked, deleted, result>>
      BY <2>1 DEF SetPoint, history
    <3> QED BY <2>0, <2>1, <3>1, SetPointEdges, KeptWithout
  <2>2. ASSUME NEW p \in Points, DelPoint(p) PROVE KeptInv'
    <3>1. /\ UNCHANGED <<link, call, late, added, unlinked, result>>
          /\ deleted' = deleted \union {p}
      BY <2>2 DEF DelPoint
    <3>2. \A m \in Lines : lines'[m] <=> lines[m] /\ m \notin OwnLinesOf(p)
      BY <2>2, DelPointEffect
    <3>3. ASSUME NEW m \in OwnLinesOf(p) PROVE m \in Lines /\ lines[m] /\ \E s \in Sides : link[m][s] \in deleted'
      <4>1. m \in Lines /\ lines[m] /\ points[p] # None
        BY <2>2 DEF OwnLinesOf, DelPoint
      <4>2. PICK s \in Sides : points[p][s][m] > 0
        BY DEF OwnLinesOf
      <4>3. link[m][s] = p
        BY <4>1, <4>2 DEF KeptInv, HasOwnEdges, HasEdge
      <4> QED BY <3>1, <4>1, <4>3
    <3>4. \A q \in Points, s \in Sides, m \in Lines :
            HasEdge(q, s, m) => HasEdge(q, s, m)' \/ q \in deleted' \/ (lines[m] /\ ~lines'[m])
      BY <2>0, <2>2, <3>1, <3>2, <3>3, DelPointEdges
    <3>5. \A q \in Points, s \in Sides, m \in Lines : HasEdge(q, s, m)' => HasEdge(q, s, m)
      BY <2>2, DelPointEdges
    <3>6. \A m \in Lines : lines[m] =>
            lines'[m] \/ m \in unlinked' \/ \E s \in Sides : link[m][s] \in deleted'
      BY <3>2, <3>3
    <3> HIDE <2>2
    <3> QED BY <2>0, <3>1, <3>2, <3>4, <3>5, <3>6, KeptWithout
  <2>3. ASSUME NEW l \in Lines, Unlink(l) PROVE KeptInv'
    <3>1. UNCHANGED <<link, call, late, added, deleted, result>> /\ unlinked' = unlinked \union {l}
      BY <2>3 DEF Unlink
    <3>2. lines[l] /\ ~lines'[l] /\ \A m \in Lines : m # l => lines'[m] = lines[m]
      BY <2>3, UnlinkEffect
    <3>3. /\ \A p \in Points, s \in Sides, m \in Lines : HasEdge(p, s, m)' => HasEdge(p, s, m)
          /\ \A p \in Points, s \in Sides, m \in Lines :
               HasEdge(p, s, m) => HasEdge(p, s, m)' \/ m = l
      BY <2>3, UnlinkEdges
    <3> QED BY <2>0, <3>1, <3>2, <3>3, KeptWithout
  <2>4. ASSUME NEW c \in Clients, NEW l \in Lines, NEW start \in Points, NEW end \in Points,
               Link(c, l, start, end)
        PROVE  KeptInv'
    BY <2>0, <2>4, KeptLink
  <2>5. ASSUME NEW c \in Clients, Answered(c) \/ AnswerLost(c) \/ GiveUp(c) PROVE KeptInv'
    BY <2>0, <2>5, KeptCall
  <2>6. ASSUME NEW r \in late, ExecuteLate(r) PROVE KeptInv'
    BY <2>0, <2>6, KeptLate
  <2>7. ASSUME NEW r \in late, Drop(r) PROVE KeptInv'
    <3>1. /\ late' \subseteq late
          /\ UNCHANGED <<points, lines, link, call, added, unlinked, deleted, result>>
      BY <2>7 DEF Drop, stored, history
    <3> QED BY <2>0, <3>1, KeptWithout DEF HasEdge
  <2>8. CASE UNCHANGED vars
    <3>1. UNCHANGED <<points, lines, link, call, late, added, unlinked, deleted, result>>
      BY <2>8 DEF vars
    <3> QED BY <2>0, <3>1, KeptWithout DEF HasEdge
  <2> QED BY <2>1, <2>2, <2>3, <2>4, <2>5, <2>6, <2>7, <2>8 DEF Next
<1> QED BY <1>1, <1>2, Ordered, PTL DEF Spec, KeptIndInv

(* GCluster.java:218, the part of the comment that holds: the points of a  *)
(* connection of the Java client either both find each other or neither    *)
(* does, in every state, however its three requests fare.                  *)
THEOREM FoundBothWaysHolds == Spec => []FoundBothWays
<1>1. KeptIndInv => FoundBothWays
  <2> SUFFICES ASSUME KeptIndInv, NEW l \in Lines, link[l] # None,
                      Sdk[link[l].client] = "java", ~Recreated(l), NEW s \in Sides, Found(l, s)
               PROVE  \A t \in Sides : Found(l, t)
    BY DEF FoundBothWays, Sides
  <2>1. lines[l] /\ \A t \in Sides : points[link[l][t]] # None
    BY DEF Found
  <2>2. \A t \in Sides : link[l][t] \notin deleted
    BY <2>1 DEF Recreated
  <2>3. \A t \in Sides : HasEdge(link[l][t], t, l)
    BY <2>1, <2>2 DEF KeptIndInv, KeptInv, LineKept, KeptBoth, Kept
  <2> QED BY <2>1, <2>3 DEF Found
<1> QED BY <1>1, EdgesKept, PTL

(* What a client was told is linked is found from both points as long as   *)
(* neither the line nor one of its points is deleted.                      *)
THEOREM SuccessMeansLinkedHolds == Spec => []SuccessMeansLinked
<1>1. KeptIndInv => SuccessMeansLinked
  <2> SUFFICES ASSUME KeptIndInv, NEW l \in Lines, result[l] = "success", l \notin unlinked,
                      \A s \in Sides : link[l][s] \notin deleted
               PROVE  \A t \in Sides : Found(l, t)
    BY DEF SuccessMeansLinked, Sides
  <2>1. lines[l]
    BY DEF KeptIndInv, KeptInv, SuccessStays
  <2>2. \A t \in Sides : HasEdge(link[l][t], t, l)
    BY <2>1 DEF KeptIndInv, KeptInv, LineKept, KeptBoth, Kept
  <2>3. link[l] # None /\ \A t \in Sides : points[link[l][t]] # None
    BY <2>1, <2>2 DEF KeptIndInv, IndInv, OrderInv, NoRequestBefore, HasEdge
  <2> QED BY <2>1, <2>2, <2>3 DEF Found
<1> QED BY <1>1, EdgesKept, PTL

-----------------------------------------------------------------------------
(* What a failed Link of a C++ client leaves, by induction together with   *)
(* KeptIndInv.                                                             *)
CleanIndInv == KeptIndInv /\ CleanInv

At(p, s, l) == IF points[p] = None THEN 0 ELSE points[p][s][l]

LEMMA AtNat ==
  ASSUME PointsType, NEW p \in Points, NEW s \in Sides, NEW l \in Lines
  PROVE  At(p, s, l) \in Nat /\ (HasEdge(p, s, l) <=> At(p, s, l) # 0)
<1>1. points[p] # None => points[p][s][l] \in Nat
  BY DEF PointsType, Lists
<1> QED BY <1>1 DEF At, HasEdge

LEMMA CountIs ==
  ASSUME IndInv, NEW l \in Lines, link[l] # None, NEW s \in Sides
  PROVE  /\ link[l][s] \in Points /\ Count(l, s) = At(link[l][s], s, l)
         /\ Count(l, s) \in Nat
<1>1. link[l][s] \in Points /\ PointsType
  BY DEF IndInv, TypeOK, PointsType, Links, Sides
<1>2. Count(l, s) = At(link[l][s], s, l)
  BY DEF Count, At
<1> QED BY <1>1, <1>2, AtNat

(* The request of an undisturbed Link, as CleanInv has it.                 *)
CleanRequest(q) ==
  /\ q.op # "delOut"
  /\ q.op # "addLine" => Count(q.line, "out") = 0
  /\ q.op = "addIn" => Count(q.line, "in") = 0
  /\ Count(q.line, "in") <= 1

(* Steps that add no request and no edge.                                  *)
LEMMA CleanWithout ==
  ASSUME IndInv, IndInv', CleanInv, UNCHANGED <<link, call, result, disturbed>>,
         late' \subseteq late,
         \A p \in Points, s \in Sides, l \in Lines : At(p, s, l)' <= At(p, s, l)
  PROVE  CleanInv'
<1>1. ASSUME NEW l \in Lines, link[l] # None, NEW s \in Sides
      PROVE  Count(l, s) \in Nat /\ Count(l, s)' \in Nat /\ Count(l, s)' <= Count(l, s)
  <2>1. PICK p \in Points : p = link[l][s] /\ p = link'[l][s] /\ Count(l, s) = At(p, s, l)
    BY <1>1, CountIs
  <2>2. Count(l, s)' = At(p, s, l)'
    BY <2>1 DEF Count, At
  <2>3. PointsType /\ PointsType'
    BY DEF IndInv, TypeOK, PointsType
  <2>4. At(p, s, l) \in Nat /\ At(p, s, l)' <= At(p, s, l)
    BY <2>3, AtNat
  <2>5. At(p, s, l)' \in Nat
    <3>1. points'[p] # None => points'[p][s][l] \in Nat
      BY <2>3 DEF PointsType, Lists
    <3> QED BY <3>1 DEF At
  <2> QED BY <2>1, <2>2, <2>4, <2>5
<1>2. "out" \in Sides /\ "in" \in Sides
  BY DEF Sides
<1>3. \A l \in Lines : Undisturbed(l)' <=> Undisturbed(l)
  BY DEF Undisturbed
<1>4. \A r \in late' : r.line \in disturbed'
  BY DEF CleanInv
<1>5. ASSUME NEW l \in Lines, Undisturbed(l), result[l] = "failure"
      PROVE  Count(l, "out")' = 0 /\ Count(l, "in")' = 0
  <2>1. link[l] # None /\ Count(l, "out") = 0 /\ Count(l, "in") = 0
    BY <1>5 DEF CleanInv, Undisturbed
  <2> QED BY <1>1, <1>2, <2>1
<1>6. ASSUME NEW c \in Clients, NEW q, q = call[c], q # None, Undisturbed(q.line)
      PROVE  CleanRequest(q)'
  <2>1. CleanRequest(q)
    BY <1>6 DEF CleanInv, CleanRequest
  <2>2. q.line \in Lines /\ link[q.line] # None
    BY <1>6, OpenIs, OpenLink DEF Undisturbed
  <2>3. /\ Count(q.line, "out") \in Nat /\ Count(q.line, "out")' \in Nat
        /\ Count(q.line, "out")' <= Count(q.line, "out")
        /\ Count(q.line, "in") \in Nat /\ Count(q.line, "in")' \in Nat
        /\ Count(q.line, "in")' <= Count(q.line, "in")
    BY <1>1, <1>2, <2>2
  <2> QED BY <2>1, <2>3 DEF CleanRequest
<1> QED BY <1>3, <1>4, <1>5, <1>6 DEF CleanInv, CleanRequest, Undisturbed

(* How often the lists name a line after a request was executed.           *)
LEMMA CountExecute ==
  ASSUME IndInv, NEW r \in Open, Execute(r), UNCHANGED link
  PROVE  /\ \A l \in Lines, s \in Sides :
              link[l] # None /\ l # r.line => Count(l, s)' = Count(l, s)
         /\ Count(r.line, "out")' =
              IF points[link[r.line].out] = None THEN 0
              ELSE IF r.op = "addOut" THEN Count(r.line, "out") + 1
              ELSE IF r.op = "delOut" THEN Less(Count(r.line, "out"))
              ELSE Count(r.line, "out")
         /\ Count(r.line, "in")' =
              IF points[link[r.line].in] = None THEN 0
              ELSE IF r.op = "addIn" THEN Count(r.line, "in") + 1
              ELSE IF r.op = "delIn" THEN Less(Count(r.line, "in"))
              ELSE Count(r.line, "in")
<1>1. r \in Requests /\ r.line \in Lines /\ link[r.line] \in Links /\ PointsType
  BY OpenLink DEF IndInv, TypeOK, PointsType
<1>2. /\ \A q \in Points : points'[q] = None <=> points[q] = None
      /\ \A q \in Points, s \in Sides, m \in Lines :
           points[q] # None /\ (m = r.line => q # link[m][s]) =>
             points'[q][s][m] = points[q][s][m]
      /\ LET p == link[r.line].out
         IN points[p] # None => points'[p]["out"][r.line] =
              IF r.op = "addOut" THEN points[p]["out"][r.line] + 1
              ELSE IF r.op = "delOut" THEN Less(points[p]["out"][r.line])
              ELSE points[p]["out"][r.line]
      /\ LET p == link[r.line].in
         IN points[p] # None => points'[p]["in"][r.line] =
              IF r.op = "addIn" THEN points[p]["in"][r.line] + 1
              ELSE IF r.op = "delIn" THEN Less(points[p]["in"][r.line])
              ELSE points[p]["in"][r.line]
  BY <1>1, ExecuteEffect
<1>3. link[r.line].out \in Points /\ link[r.line].in \in Points
  BY <1>1 DEF Links
<1>4. ASSUME NEW l \in Lines, NEW s \in Sides, link[l] # None, l # r.line
      PROVE  Count(l, s)' = Count(l, s)
  <2>1. link[l][s] \in Points
    BY <1>4, CountIs
  <2> QED BY <1>2, <1>4, <2>1 DEF Count
<1>5. link[r.line].out = link[r.line]["out"] /\ link[r.line].in = link[r.line]["in"]
  OBVIOUS
<1>6. Count(r.line, "out")' =
        IF points[link[r.line].out] = None THEN 0
        ELSE IF r.op = "addOut" THEN Count(r.line, "out") + 1
        ELSE IF r.op = "delOut" THEN Less(Count(r.line, "out"))
        ELSE Count(r.line, "out")
  BY <1>2, <1>3, <1>5 DEF Count
<1>7. Count(r.line, "in")' =
        IF points[link[r.line].in] = None THEN 0
        ELSE IF r.op = "addIn" THEN Count(r.line, "in") + 1
        ELSE IF r.op = "delIn" THEN Less(Count(r.line, "in"))
        ELSE Count(r.line, "in")
  BY <1>2, <1>3, <1>5 DEF Count
<1> QED BY <1>4, <1>6, <1>7

LEMMA CleanLate ==
  ASSUME CleanIndInv, NEW r \in late, ExecuteLate(r)
  PROVE  CleanInv'
<1> USE DEF CleanIndInv, KeptIndInv
<1>1. /\ r \in Open /\ Execute(r) /\ late' = late \ {r}
      /\ UNCHANGED <<link, call, result, disturbed>>
  BY OpenIs DEF ExecuteLate
<1>2. \A l \in Lines, s \in Sides : link[l] # None /\ l # r.line => Count(l, s)' = Count(l, s)
  BY <1>1, CountExecute
<1>3. r.line \in disturbed /\ \A q \in late' : q.line \in disturbed'
  BY <1>1 DEF CleanInv
<1>4. ASSUME NEW l \in Lines, Undisturbed(l)
      PROVE  Count(l, "out")' = Count(l, "out") /\ Count(l, "in")' = Count(l, "in")
  BY <1>2, <1>3, <1>4 DEF Undisturbed, Sides
<1>5. ASSUME NEW c \in Clients, NEW q, q = call[c], q # None, Undisturbed(q.line)
      PROVE  CleanRequest(q)'
  <2>1. CleanRequest(q) /\ q.line \in Lines
    BY <1>5, OpenIs, OpenLink DEF CleanInv, CleanRequest
  <2> QED BY <1>4, <1>5, <2>1 DEF CleanRequest
<1> QED BY <1>1, <1>3, <1>4, <1>5 DEF CleanInv, CleanRequest, Undisturbed

LEMMA CleanLink ==
  ASSUME CleanIndInv, NEW c \in Clients, NEW l \in Lines,
         NEW start \in Points, NEW end \in Points, Link(c, l, start, end)
  PROVE  CleanInv'
<1> USE DEF CleanIndInv, KeptIndInv
<1> DEFINE r == [op |-> FirstOp(c), line |-> l]
<1>1. r.op # "delOut" /\ r.line = l
  BY DEF FirstOp
<1>2. /\ link[l] = None /\ call' = [call EXCEPT ![c] = r]
      /\ UNCHANGED <<points, late, result, disturbed>>
      /\ \A m \in Lines : m # l => link'[m] = link[m]
      /\ link'[l].out \in Points /\ link'[l].in \in Points
  BY DEF Link, stored, history, IndInv, TypeOK
<1> HIDE DEF r
<1>3. call'[c] = r /\ \A d \in Clients : d # c => call'[d] = call[d]
  BY <1>2 DEF IndInv, TypeOK
<1>4. Count(l, "out")' = 0 /\ Count(l, "in")' = 0
  <2>1. ASSUME NEW s \in Sides, NEW p \in Points, points[p] # None PROVE points[p][s][l] = 0
    <3>1. points[p][s][l] \in Nat
      BY <2>1 DEF IndInv, TypeOK, Lists
    <3>2. ~HasEdge(p, s, l)
      BY <1>2 DEF KeptInv, HasOwnEdges
    <3> QED BY <2>1, <3>1, <3>2 DEF HasEdge
  <2>2. /\ link'[l].out = link'[l]["out"] /\ link'[l].in = link'[l]["in"]
        /\ "out" \in Sides /\ "in" \in Sides
    BY DEF Sides
  <2> QED BY <1>2, <2>1, <2>2 DEF Count
<1>5. \A m \in Lines : m # l =>
        /\ Count(m, "out")' = Count(m, "out") /\ Count(m, "in")' = Count(m, "in")
        /\ Undisturbed(m)' <=> Undisturbed(m)
  BY <1>2 DEF Count, Undisturbed
<1>6. result[l] = None
  BY <1>2 DEF IndInv, OrderInv, NoRequestBefore
<1>7. \A q \in late' : q.line \in disturbed'
  BY <1>2 DEF CleanInv
<1>8. ASSUME NEW m \in Lines, Undisturbed(m)', result'[m] = "failure"
      PROVE  Count(m, "out")' = 0 /\ Count(m, "in")' = 0
  BY <1>2, <1>5, <1>6, <1>8 DEF CleanInv
<1>9. ASSUME NEW d \in Clients, NEW q, q = call'[d], q # None, Undisturbed(q.line)'
      PROVE  CleanRequest(q)'
  <2>1. CASE d = c
    BY <1>1, <1>3, <1>4, <1>9, <2>1 DEF CleanRequest
  <2>2. CASE d # c
    <3>1. q = call[d] /\ q \in Open
      BY <1>3, <1>9, <2>2, OpenIs
    <3>2. q.line \in Lines /\ q.line # l
      BY <1>2, <3>1, OpenLink
    <3>3. CleanRequest(q)
      BY <1>5, <1>9, <3>1, <3>2 DEF CleanInv, CleanRequest
    <3> QED BY <1>5, <3>2, <3>3 DEF CleanRequest
  <2> QED BY <2>1, <2>2
<1> QED BY <1>7, <1>8, <1>9 DEF CleanInv, CleanRequest, Undisturbed, Count

(* When Link of a C++ client returns.                                      *)
LEMMA CppReturns ==
  ASSUME call \in [Clients -> Requests \union {None}],
         NEW c \in Clients, Sdk[c] = "cpp", NEW ok \in BOOLEAN, GoOn(c, ok),
         NEW r \in Requests, r = call[c], call'[c] = None
  PROVE  \/ r.op = "addIn" /\ ~ok
         \/ r.op = "addLine" /\ ok
         \/ r.op = "delIn"
<1> DEFINE next == NextOp(c, r.op, ok)
<1>1. next = IF ok THEN CppNext[r.op] ELSE CppUndo[r.op]
  BY DEF NextOp
<1>2. /\ CppNext["addIn"] = "addOut" /\ CppNext["addOut"] = "addLine"
      /\ CppNext["addLine"] = "return" /\ CppNext["delOut"] = "delIn"
      /\ CppNext["delIn"] = "return"
  BY DEF CppNext
<1>3. /\ CppUndo["addIn"] = "return" /\ CppUndo["addOut"] = "delIn"
      /\ CppUndo["addLine"] = "delOut" /\ CppUndo["delOut"] = "delIn"
      /\ CppUndo["delIn"] = "return"
  BY DEF CppUndo
<1>4. r.op \in Ops /\ r.line \in Lines
  BY DEF Requests
<1>5. next = "return"
  <2> SUFFICES ASSUME next # "return" PROVE FALSE
    OBVIOUS
  <2>1. next \in Ops
    BY <1>1, <1>2, <1>3, <1>4 DEF Ops
  <2> HIDE DEF next
  <2>2. [op |-> next, line |-> r.line] \in Requests
    BY <1>4, <2>1 DEF Requests
  <2>3. call' = [call EXCEPT ![c] = [op |-> next, line |-> r.line]]
    BY DEF GoOn, next
  <2> QED BY <2>2, <2>3
<1> HIDE DEF next
<1> QED BY <1>1, <1>2, <1>3, <1>4, <1>5 DEF Ops

(* An undisturbed Link goes on, or returns and has cleaned up.             *)
LEMMA CleanStep ==
  ASSUME CleanIndInv, NEW c \in Clients, NEW r \in Requests, r = call[c], call[c] # None,
         Execute(r), GoOn(c, Accepted(r)), UNCHANGED link, Undisturbed(r.line)
  PROVE  /\ \A q : q = call'[c] /\ q # None => CleanRequest(q)'
         /\ result'[r.line] = "failure" =>
              Count(r.line, "out")' = 0 /\ Count(r.line, "in")' = 0
<1> USE DEF CleanIndInv, KeptIndInv
<1>1. /\ r \in Open /\ r.line \in Lines /\ r.op \in Ops /\ Sdk[c] = "cpp"
      /\ link[r.line] # None /\ result[r.line] = None
  BY OpenIs, OpenLink DEF IndInv, OrderInv, CallsOwn, Undisturbed, Requests
<1>2. CleanRequest(r)
  BY DEF CleanInv, CleanRequest
<1>3. Accepted(r) \in BOOLEAN
  BY DEF Accepted
<1>4. /\ call \in [Clients -> Requests \union {None}]
      /\ result \in [Lines -> {"success", "failure", None}]
      /\ "out" \in Sides /\ "in" \in Sides
  BY DEF IndInv, TypeOK, Sides
<1> DEFINE out == Count(r.line, "out")
           in  == Count(r.line, "in")
           toOut == points[link[r.line].out]
           toIn  == points[link[r.line].in]
<1>5. out \in Nat /\ in \in Nat
  BY <1>1, <1>4, CountIs
<1>6. /\ out' = IF toOut = None THEN 0 ELSE IF r.op = "addOut" THEN out + 1
                ELSE IF r.op = "delOut" THEN Less(out) ELSE out
      /\ in' = IF toIn = None THEN 0 ELSE IF r.op = "addIn" THEN in + 1
               ELSE IF r.op = "delIn" THEN Less(in) ELSE in
  BY <1>1, CountExecute
<1>7. /\ Accepted(r) /\ r.op = "addOut" => toOut # None
      /\ Accepted(r) /\ r.op = "addIn" => toIn # None
      /\ ~Accepted(r) => (r.op = "addOut" /\ toOut = None) \/ (r.op = "addIn" /\ toIn = None)
  BY DEF Accepted
<1>8. /\ r.op # "delOut" /\ in <= 1
      /\ r.op # "addLine" => out = 0
      /\ r.op = "addIn" => in = 0
  BY <1>2 DEF CleanRequest
<1>9. ASSUME call'[c] # None
      PROVE  /\ call'[c].line = r.line /\ result' = result
             /\ \/ r.op = "addIn" /\ Accepted(r) /\ call'[c].op = "addOut"
                \/ r.op = "addOut" /\ Accepted(r) /\ call'[c].op = "addLine"
                \/ r.op = "addOut" /\ ~Accepted(r) /\ call'[c].op = "delIn"
                \/ r.op = "addLine" /\ ~Accepted(r)
                \/ r.op = "delOut"
  BY <1>1, <1>3, <1>4, <1>9, GoOnEffect
<1>10. ASSUME call'[c] = None
       PROVE  /\ \/ r.op = "addIn" /\ ~Accepted(r)
                 \/ r.op = "addLine" /\ Accepted(r)
                 \/ r.op = "delIn"
              /\ result'[r.line] = IF Accepted(r) /\ r.op = "addLine" THEN "success" ELSE "failure"
  <2>1. \/ r.op = "addIn" /\ ~Accepted(r)
        \/ r.op = "addLine" /\ Accepted(r)
        \/ r.op = "delIn"
    BY <1>1, <1>3, <1>4, <1>10, CppReturns
  <2>2. result'[r.line] = IF Accepted(r) /\ r.op = "addLine" THEN "success" ELSE "failure"
    BY <1>1, <1>3, <1>4, <1>10, GoOnEffect
  <2> QED BY <2>1, <2>2
<1> HIDE DEF toOut, toIn
<1>11. ASSUME NEW q, q = call'[c], q # None PROVE CleanRequest(q)'
  <2>1. q.line = r.line
    BY <1>9, <1>11
  <2>2. /\ q.op # "delOut" /\ in' <= 1
        /\ q.op # "addLine" => out' = 0
        /\ q.op # "addIn"
    <3> HIDE DEF out, in
    <3> QED BY <1>5, <1>6, <1>7, <1>8, <1>9, <1>11
  <2> QED BY <2>1, <2>2 DEF CleanRequest
<1>12. ASSUME result'[r.line] = "failure" PROVE out' = 0 /\ in' = 0
  <2>1. call'[c] = None
    BY <1>1, <1>9, <1>12
  <2>2. (r.op = "addIn" /\ ~Accepted(r)) \/ r.op = "delIn"
    BY <1>10, <1>12, <2>1
  <2> HIDE DEF out, in
  <2> QED BY <1>5, <1>6, <1>7, <1>8, <2>2 DEF Less
<1> QED BY <1>11, <1>12

LEMMA CleanClient ==
  ASSUME CleanIndInv, IndInv', NEW c \in Clients, Answered(c) \/ AnswerLost(c) \/ GiveUp(c)
  PROVE  CleanInv'
<1> USE DEF CleanIndInv, KeptIndInv
<1>1. PICK r \in Requests, ok \in BOOLEAN :
        /\ r = call[c] /\ call[c] # None /\ GoOn(c, ok)
        /\ r.line \in Lines /\ link[r.line] \in Links /\ link[r.line].client = c
        /\ UNCHANGED <<link, unlinked, deleted>>
        /\ \/ Execute(r) /\ late' = late /\ ok = Accepted(r) /\ UNCHANGED disturbed
           \/ /\ Execute(r) /\ late' = late /\ ~ok
              /\ disturbed' = disturbed \union {r.line}
           \/ /\ ~ok /\ late' = late \union {r} /\ UNCHANGED <<stored, added>>
              /\ disturbed' = disturbed \union {r.line}
  BY CallStep
<1>2. /\ \A d \in Clients : d # c => call'[d] = call[d]
      /\ \A m \in Lines : m # r.line => result'[m] = result[m]
      /\ call'[c] # None => call'[c].line = r.line
  <2>1. /\ call \in [Clients -> Requests \union {None}]
        /\ result \in [Lines -> {"success", "failure", None}]
        /\ Sdk[c] = "java" => r.op \in Adds
    BY <1>1 DEF IndInv, TypeOK, OrderInv, CallsOwn
  <2> QED BY <1>1, <2>1, GoOnEffect
<1>3. r \in Open
  BY <1>1, OpenIs
<1>4. \A q \in late' : q.line \in disturbed'
  BY <1>1 DEF CleanInv
<1>5. \A l \in Lines : l # r.line =>
        /\ Undisturbed(l)' <=> Undisturbed(l)
        /\ Undisturbed(l) => Count(l, "out")' = Count(l, "out") /\ Count(l, "in")' = Count(l, "in")
  <2>1. \A l \in Lines, s \in Sides : link[l] # None /\ l # r.line => Count(l, s)' = Count(l, s)
    <3>1. CASE Execute(r)
      BY <1>1, <1>3, <3>1, CountExecute
    <3>2. CASE UNCHANGED <<stored, added>>
      BY <1>1, <3>2 DEF stored, Count
    <3> QED BY <1>1, <3>1, <3>2
  <2> QED BY <1>1, <2>1 DEF Undisturbed, Sides
<1>6. ASSUME Undisturbed(r.line)'
      PROVE  Undisturbed(r.line) /\ Execute(r) /\ GoOn(c, Accepted(r))
  BY <1>1, <1>6 DEF Undisturbed
<1>7. ASSUME NEW l \in Lines, Undisturbed(l)', result'[l] = "failure"
      PROVE  Count(l, "out")' = 0 /\ Count(l, "in")' = 0
  <2>1. CASE l = r.line
    BY <1>1, <1>6, <1>7, <2>1, CleanStep
  <2>2. CASE l # r.line
    BY <1>2, <1>5, <1>7, <2>2 DEF CleanInv
  <2> QED BY <2>1, <2>2
<1>8. ASSUME NEW d \in Clients, NEW q, q = call'[d], q # None, Undisturbed(q.line)'
      PROVE  CleanRequest(q)'
  <2>1. CASE d = c
    <3>1. q.line = r.line
      BY <1>2, <1>8, <2>1
    <3>2. Undisturbed(r.line)'
      BY <1>1, <1>8, <3>1 DEF Undisturbed
    <3> QED BY <1>1, <1>6, <1>8, <2>1, <3>2, CleanStep
  <2>2. CASE d # c
    <3>1. q = call[d] /\ q \in Open
      BY <1>2, <1>8, <2>2, OpenIs
    <3>2. q.line \in Lines /\ q.line # r.line
      BY <1>1, <1>3, <2>2, <3>1, OpenLink DEF IndInv, OrderInv, CallsOwn
    <3>3. Undisturbed(q.line)
      BY <1>1, <1>5, <1>8, <3>2
    <3>4. CleanRequest(q)
      BY <1>8, <3>1, <3>3 DEF CleanInv, CleanRequest
    <3> QED BY <1>5, <3>2, <3>3, <3>4 DEF CleanRequest
  <2> QED BY <2>1, <2>2
<1> QED BY <1>4, <1>7, <1>8 DEF CleanInv, CleanRequest, Undisturbed, Count

(* When every request of a Link of the C++ client was answered and Link    *)
(* has failed, its undo has left no edge of the line, however other        *)
(* clients delete and create its points meanwhile.                         *)
THEOREM CleanFailureHolds == Spec => []CleanFailure
<1>1. Init => CleanInv
  <2> SUFFICES ASSUME Init PROVE CleanInv
    OBVIOUS
  <2> QED BY DEF Init, CleanInv, Undisturbed
<1>2. CleanInv /\ KeptIndInv /\ KeptIndInv' /\ [Next]_vars => CleanInv'
  <2> SUFFICES ASSUME CleanInv, KeptIndInv, KeptIndInv', [Next]_vars PROVE CleanInv'
    OBVIOUS
  <2>0. CleanIndInv /\ IndInv /\ IndInv' /\ PointsType /\ PointsType'
    BY DEF CleanIndInv, KeptIndInv, IndInv, TypeOK, PointsType
  <2>01. \A p \in Points, s \in Sides, l \in Lines :
           /\ points[p] # None => points[p][s][l] \in Nat
           /\ points'[p] # None => points'[p][s][l] \in Nat
    BY <2>0 DEF PointsType, Lists
  <2>1. ASSUME NEW p \in Points, SetPoint(p) PROVE CleanInv'
    <3>1. UNCHANGED <<link, call, late, result, disturbed>>
      BY <2>1 DEF SetPoint
    <3>2. \A q \in Points, s \in Sides, l \in Lines : At(q, s, l)' <= At(q, s, l)
      BY <2>0, <2>01, <2>1, SetPointEffect DEF At
    <3> QED BY <2>0, <3>1, <3>2, CleanWithout
  <2>2. ASSUME NEW p \in Points, DelPoint(p) PROVE CleanInv'
    <3>1. UNCHANGED <<link, call, late, result, disturbed>>
      BY <2>2 DEF DelPoint
    <3>2. \A q \in Points, s \in Sides, l \in Lines : At(q, s, l)' <= At(q, s, l)
      BY <2>0, <2>01, <2>2, DelPointEffect DEF At
    <3> QED BY <2>0, <3>1, <3>2, CleanWithout
  <2>3. ASSUME NEW l \in Lines, Unlink(l) PROVE CleanInv'
    <3>1. UNCHANGED <<link, call, late, result, disturbed>>
      BY <2>3 DEF Unlink
    <3>2. \A q \in Points, s \in Sides, m \in Lines : At(q, s, m)' <= At(q, s, m)
      BY <2>0, <2>01, <2>3, UnlinkEffect DEF At
    <3> QED BY <2>0, <3>1, <3>2, CleanWithout
  <2>4. ASSUME NEW c \in Clients, NEW l \in Lines, NEW start \in Points, NEW end \in Points,
               Link(c, l, start, end)
        PROVE  CleanInv'
    BY <2>0, <2>4, CleanLink
  <2>5. ASSUME NEW c \in Clients, Answered(c) \/ AnswerLost(c) \/ GiveUp(c) PROVE CleanInv'
    BY <2>0, <2>5, CleanClient
  <2>6. ASSUME NEW r \in late, ExecuteLate(r) PROVE CleanInv'
    BY <2>0, <2>6, CleanLate
  <2>7. CASE UNCHANGED <<points, link, call, result, disturbed>> /\ late' \subseteq late
    <3>1. \A q \in Points, s \in Sides, l \in Lines : At(q, s, l)' <= At(q, s, l)
      BY <2>01, <2>7 DEF At
    <3> QED BY <2>0, <2>7, <3>1, CleanWithout
  <2>8. ASSUME NEW r \in late, Drop(r) PROVE CleanInv'
    BY <2>7, <2>8 DEF Drop, stored
  <2>9. CASE UNCHANGED vars
    BY <2>7, <2>9 DEF vars
  <2> QED BY <2>1, <2>2, <2>3, <2>4, <2>5, <2>6, <2>8, <2>9 DEF Next
<1>3. CleanInv /\ KeptIndInv => CleanFailure
  <2> SUFFICES ASSUME CleanInv, KeptIndInv, NEW l \in Lines, result[l] = "failure",
                      Sdk[link[l].client] = "cpp", l \notin disturbed,
                      NEW p \in Points, NEW s \in Sides, HasEdge(p, s, l)
               PROVE  FALSE
    BY DEF CleanFailure
  <2>1. link[l] # None /\ link[l][s] = p
    BY DEF KeptIndInv, KeptInv, HasOwnEdges
  <2>2. Count(l, s) = 0
    BY <2>1 DEF CleanInv, Undisturbed, Sides
  <2>3. IndInv /\ PointsType
    BY DEF KeptIndInv, IndInv, TypeOK, PointsType
  <2>4. At(p, s, l) # 0
    BY <2>3, AtNat
  <2> QED BY <2>1, <2>2, <2>3, <2>4, CountIs
<1> QED BY <1>1, <1>2, <1>3, EdgesKept, PTL DEF Spec
-----------------------------------------------------------------------------
(* Search.                                                                 *)
HIDE GraphAssumption

-----------------------------------------------------------------------------
(* What a search has to find, as paths over the cluster w.                 *)
Passes(w, q, p) == p \in w.points /\ p \in q.filter

\* Line l, on route k, leads from p to e.
Hop(w, q, k, p, e) ==
  \E l \in w.lines : /\ l \in q.routes[k].take /\ w.ends[l][q.routes[k].side] = p
                     /\ w.ends[l][Opposite(q.routes[k].side)] = e /\ Passes(w, q, e)

\* The routes after the first j lead from p to e.
Leads(w, q, j, p, e) ==
  \E s \in [j .. Len(q.routes) -> Points] :
    /\ s[j] = p /\ s[Len(q.routes)] = e
    /\ \A k \in j + 1 .. Len(q.routes) : Hop(w, q, k, s[k - 1], s[k])

Begin(w, q) == IF q.routes = <<>> THEN {p \in q.starts : Passes(w, q, p)} ELSE q.starts \intersect w.points

From(w, q, j, X) == {e \in Points : \E p \in X : Leads(w, q, j, p, e)}

ByPoints(w, q, j, A) == {e \in Points : \E p \in A : Passes(w, q, p) /\ Leads(w, q, j, p, e)}

ByLines(w, q, j, L) ==
  {e \in Points : \E l \in L : /\ l \in w.lines /\ l \in q.routes[j].take
                               /\ e \in ByPoints(w, q, j, {w.ends[l][Opposite(q.routes[j].side)]})}

Goal(w, q) == From(w, q, 0, Begin(w, q))

-----------------------------------------------------------------------------
Done(s) == Len(s.query.routes) - Len(s.routes)

(* What is left to other nodes in m.  The lines of the first route are     *)
(* what is asked in a round over lines.                                    *)
Work(w, s, m) ==
  {e \in Points : \E k \in 1 .. Len(s.routes) :
     \/ e \in ByPoints(w, s.query, Done(s) + k, m[k].points)
     \/ (k # 1 \/ s.fromPoint) /\ e \in ByLines(w, s.query, Done(s) + k, m[k].lines)}

(* What node n is asked to find.                                           *)
ShareOf(w, s, ids) ==
  IF ~s.fromPoint THEN ByLines(w, s.query, Done(s) + 1, ids)
  ELSE IF s.startFilter THEN ByPoints(w, s.query, Done(s), ids)
  ELSE From(w, s.query, Done(s), ids \intersect w.points)

Share(w, s, n) == ShareOf(w, s, {x \in s.ids : w.owner[x] = n})

Cover(w, s) == {e \in Points : e \in s.found \/ e \in Work(w, s, s.mids) \/ \E n \in s.unread : e \in Share(w, s, n)}

(* What the client knows, or is to read in this round.                     *)
Known == {e \in Points : e \in search.found
            \/ \E n \in search.unread : replies[n] # <<>> /\ e \in Head(replies[n]).ends}

-----------------------------------------------------------------------------
RoutesSet == UNION {[1 .. n -> Routes] : n \in 0 .. MaxRoutes}

RequestSet ==
  {r \in [no : Nat, fromPoint : BOOLEAN, startFilter : BOOLEAN, ids : SUBSET Ids, routes : RoutesSet,
          filter : SUBSET Points, opts : BOOLEAN] :
     r.ids \subseteq (IF r.fromPoint THEN Points ELSE Lines)}

ReplySet == [ok : BOOLEAN, ends : SUBSET Points, mids : MidsSet]

SearchOK(s) ==
  /\ s \in SearchSet
  /\ s.unsent \subseteq s.unread
  /\ s.ids \subseteq (IF s.fromPoint THEN Points ELSE Lines)
  /\ s.fromPoint \/ s.routes # <<>>
  /\ s.routes = <<>> => s.startFilter
  /\ Len(s.routes) <= Len(s.query.routes)
  /\ \A k \in 1 .. Len(s.routes) : s.routes[k] = s.query.routes[Done(s) + k]

\* Kinds of values.
SearchKinds ==
  /\ world \in Worlds
  /\ asked \in 0 .. Len(world.plan)
  /\ search # None => SearchOK(search)
  /\ requests \in [Nodes -> Seq(RequestSet)]
  /\ \A n \in Nodes : \A i \in DOMAIN requests[n] : requests[n][i].no <= asked
  /\ replies \in [Nodes -> Seq(ReplySet)]
  /\ mark \in [Points -> 0 .. asked]
  /\ failed \in BOOLEAN

\* The connections hold nothing of a search that has failed.
Clean == world.sdk = "java" => ~failed

Waits(n) == search # None /\ n \in search.unread /\ n \notin search.unsent

(* While nothing has failed, or if all connections are closed when         *)
(* something does, only the round that goes on is on them.                 *)
NetInv == Clean => \A n \in Nodes :
  IF Waits(n)
  THEN \/ /\ replies[n] = <<>>
          /\ \E opts \in BOOLEAN : requests[n] = <<Request(n, opts)>> /\ (world.sdk = "java" => opts)
       \/ /\ requests[n] = <<>>
          /\ \E x \in ReplySet : replies[n] = <<x>> /\ (world.sdk = "java" => x.ok)
  ELSE requests[n] = <<>> /\ replies[n] = <<>>

(* A reply that is not read gives nothing its node was not asked for and,  *)
(* to the Java client, all of it but what is known already: points that    *)
(* were marked are not reported twice.                                     *)
Gives(x) == {e \in Points : e \in x.ends \/ e \in Work(world, search, x.mids)}

ReplyInv == Clean => \A n \in Nodes : Waits(n) /\ replies[n] # <<>> =>
  LET x == Head(replies[n])
  IN /\ Gives(x) \subseteq Share(world, search, n)
     /\ world.sdk = "java" => Share(world, search, n) \subseteq Gives(x) \union Known

(* What is found, what is left and what is being asked for is the goal; the *)
(* C++ client may lose some of it (Renumbered).                            *)
CoverInv == Clean /\ search # None =>
  /\ Cover(world, search) \subseteq Goal(world, search.query)
  /\ world.sdk = "java" => Goal(world, search.query) \subseteq Cover(world, search)

(* A node has marked for this search only points that it has reported.     *)
MarkInv == Clean /\ world.sdk = "java" /\ search # None =>
  \A p \in Points : mark[p] = asked /\ p \in search.query.filter => p \in Known

AnswerInv == answer # None =>
  /\ answer.query \in QuerySet
  /\ world.sdk = "cpp" => answer.found \subseteq Goal(world, answer.query)
  /\ world.sdk = "java" /\ answer.clean => answer.found = Goal(world, answer.query)

SearchIInv == SearchKinds /\ NetInv /\ ReplyInv /\ CoverInv /\ MarkInv /\ AnswerInv

Recurs(seed, n, F, g) == g[0] = seed /\ \A k \in 1 .. n : g[k] = F[k][g[k - 1]]

LEMMA Recursion ==
  ASSUME NEW S, NEW seed, NEW n, NEW F, seed \in S, n \in Nat, F \in [1 .. n -> [S -> S]]
  PROVE  \E g \in [0 .. n -> S] : Recurs(seed, n, F, g)
  <1> DEFINE T == {m \in Nat : m <= n =>
                     \E g \in [0 .. m -> S] : g[0] = seed /\ \A k \in 1 .. m : g[k] = F[k][g[k - 1]]}
  <1>1. 0 \in T
    <2> DEFINE g == [i \in 0 .. 0 |-> seed]
    <2>1. g \in [0 .. 0 -> S] /\ g[0] = seed /\ 1 .. 0 = {}
      OBVIOUS
    <2> HIDE DEF g
    <2> QED
      BY <2>1
  <1>2. ASSUME NEW m \in T PROVE m + 1 \in T
    <2>0. m \in Nat /\ m + 1 \in Nat
      OBVIOUS
    <2> SUFFICES ASSUME m + 1 <= n
                 PROVE  \E h \in [0 .. m + 1 -> S] :
                          h[0] = seed /\ \A k \in 1 .. m + 1 : h[k] = F[k][h[k - 1]]
      BY <2>0, Zenon
    <2>1. PICK g \in [0 .. m -> S] : g[0] = seed /\ \A k \in 1 .. m : g[k] = F[k][g[k - 1]]
      OBVIOUS
    <2>2. m \in Nat /\ g[m] \in S
      OBVIOUS
    <2> DEFINE last == F[m + 1][g[m]]
               h == [i \in 0 .. m + 1 |-> IF i = m + 1 THEN last ELSE g[i]]
    <2>3. last \in S
      BY <2>2
    <2> HIDE DEF last
    <2>4. h \in [0 .. m + 1 -> S]
      BY <2>2, <2>3
    <2>5. h[0] = seed
      BY <2>1, <2>2
    <2>6. ASSUME NEW k \in 1 .. m + 1 PROVE h[k] = F[k][h[k - 1]]
      <3>1. h[k - 1] = g[k - 1]
        BY <2>2
      <3>2. CASE k = m + 1
        <4>1. h[k] = last /\ k - 1 = m /\ h[k - 1] = g[m]
          BY <2>2, <3>1, <3>2
        <4> HIDE DEF h
        <4> QED
          BY <3>2, <4>1 DEF last
      <3>3. CASE k # m + 1
        BY <2>1, <2>2, <3>1, <3>3
      <3> QED
        BY <3>2, <3>3
    <2> HIDE DEF h
    <2> QED
      BY <2>4, <2>5, <2>6
  <1>3. T = Nat
    <2> HIDE DEF T
    <2>1. T \in SUBSET Nat
      BY DEF T
    <2> QED
      BY <1>1, <1>2, <2>1, AllNumbers
  <1> QED
    BY <1>3 DEF Recurs
-----------------------------------------------------------------------------
LEMMA QueryFacts ==
  ASSUME NEW q \in QuerySet
  PROVE  /\ Len(q.routes) \in Nat /\ Len(q.routes) <= MaxRoutes /\ q.routes \in [1 .. Len(q.routes) -> Routes]
         /\ q.routes \in Seq(Routes) /\ (q.routes = <<>> <=> Len(q.routes) = 0)
         /\ q.filter \subseteq Points /\ q.starts \subseteq Points
         /\ \A k \in 1 .. Len(q.routes) :
              /\ q.routes[k].side \in Sides /\ Opposite(q.routes[k].side) \in Sides
              /\ q.routes[k].take \subseteq Lines
  <1>1. MaxRoutes \in Nat
    BY SearchAssumption
  <1>2. PICK n \in 0 .. MaxRoutes : q.routes \in [1 .. n -> Routes]
    BY DEF QuerySet
  <1>3. Len(q.routes) = n /\ n \in Nat /\ q.routes \in Seq(Routes)
    BY <1>1, <1>2
  <1>4. \A x \in Routes : x.side \in Sides /\ Opposite(x.side) \in Sides /\ x.take \subseteq Lines
    BY DEF Routes, Sides, Opposite
  <1>5. q.routes = <<>> <=> Len(q.routes) = 0
    BY <1>3
  <1> QED
    BY <1>1, <1>2, <1>3, <1>4, <1>5 DEF QuerySet

LEMMA WorldFacts ==
  ASSUME NEW w \in WorldSet
  PROVE  /\ w.points \subseteq Points /\ w.lines \subseteq Lines /\ w.owner \in [Points \union Lines -> Nodes]
         /\ \A l \in Lines : \A side \in Sides : w.ends[l][side] \in Points
         /\ w.sdk \in {"java", "cpp"} /\ w.plan \in Seq(QuerySet)
  BY DEF WorldSet, Ends

LEMMA LeadsAtEnd ==
  ASSUME NEW w \in WorldSet, NEW q \in QuerySet, NEW p \in Points, NEW e
  PROVE  Leads(w, q, Len(q.routes), p, e) <=> e = p
  <1> DEFINE N == Len(q.routes)
  <1>1. N \in Nat
    BY QueryFacts
  <1> HIDE DEF N
  <1>2. ASSUME e = p
        PROVE  \E s \in [N .. N -> Points] : s[N] = p /\ s[N] = e /\ \A k \in N + 1 .. N : Hop(w, q, k, s[k - 1], s[k])
    <2>1. [k \in N .. N |-> p] \in [N .. N -> Points] /\ [k \in N .. N |-> p][N] = p
      BY <1>1
    <2>2. N + 1 .. N = {}
      BY <1>1
    <2> QED
      BY <1>2, <2>1, <2>2
  <1> QED
    BY <1>2 DEF Leads, N

LEMMA LeadsOn ==
  ASSUME NEW w \in WorldSet, NEW q \in QuerySet, NEW p \in Points, NEW e,
         NEW j \in Nat, j < Len(q.routes)
  PROVE  Leads(w, q, j, p, e) <=> \E y \in Points : Hop(w, q, j + 1, p, y) /\ Leads(w, q, j + 1, y, e)
  <1> DEFINE N == Len(q.routes)
  <1>1. N \in Nat /\ j < N
    BY QueryFacts
  <1> HIDE DEF N
  <1>2. ASSUME NEW s \in [j .. N -> Points], s[j] = p, s[N] = e, \A k \in j + 1 .. N : Hop(w, q, k, s[k - 1], s[k])
        PROVE  \E y \in Points : Hop(w, q, j + 1, p, y) /\ Leads(w, q, j + 1, y, e)
    <2> DEFINE t == [k \in j + 1 .. N |-> s[k]]
    <2>1. t \in [j + 1 .. N -> Points] /\ t[j + 1] = s[j + 1] /\ t[N] = e /\ s[j + 1] \in Points
      BY <1>1, <1>2
    <2>2. \A k \in (j + 1) + 1 .. N : Hop(w, q, k, t[k - 1], t[k])
      <3> SUFFICES ASSUME NEW k \in (j + 1) + 1 .. N PROVE Hop(w, q, k, t[k - 1], t[k])
        OBVIOUS
      <3>1. t[k - 1] = s[k - 1] /\ t[k] = s[k] /\ k \in j + 1 .. N
        BY <1>1
      <3> QED
        BY <1>2, <3>1
    <2>3. Hop(w, q, j + 1, p, s[j + 1])
      <3>1. j + 1 \in j + 1 .. N /\ (j + 1) - 1 = j
        BY <1>1
      <3>2. Hop(w, q, j + 1, s[(j + 1) - 1], s[j + 1])
        BY <1>2, <3>1
      <3> QED
        BY <1>2, <3>1, <3>2
    <2> HIDE DEF t
    <2> QED
      BY <2>1, <2>2, <2>3 DEF Leads, N
  <1>3. ASSUME NEW y \in Points, Hop(w, q, j + 1, p, y), NEW t \in [j + 1 .. N -> Points], t[j + 1] = y, t[N] = e,
               \A k \in (j + 1) + 1 .. N : Hop(w, q, k, t[k - 1], t[k])
        PROVE  Leads(w, q, j, p, e)
    <2> DEFINE s == [k \in j .. N |-> IF k = j THEN p ELSE t[k]]
    <2>1. s \in [j .. N -> Points] /\ s[j] = p /\ s[N] = e
      BY <1>1, <1>3
    <2>2. \A k \in j + 1 .. N : Hop(w, q, k, s[k - 1], s[k])
      <3> SUFFICES ASSUME NEW k \in j + 1 .. N PROVE Hop(w, q, k, s[k - 1], s[k])
        OBVIOUS
      <3>1. CASE k = j + 1
        <4>1. s[k - 1] = p /\ s[k] = y
          BY <1>1, <1>3, <3>1
        <4> QED
          BY <1>3, <3>1, <4>1
      <3>2. CASE k # j + 1
        <4>1. s[k - 1] = t[k - 1] /\ s[k] = t[k] /\ k \in (j + 1) + 1 .. N
          BY <1>1, <3>2
        <4> QED
          BY <1>3, <4>1
      <3> QED
        BY <3>1, <3>2
    <2> HIDE DEF s
    <2> QED
      BY <2>1, <2>2 DEF Leads, N
  <1> QED
    BY <1>2, <1>3 DEF Leads, N

\* What the points have to give is what the lines have that are listed there.
LEMMA FromOn ==
  ASSUME NEW w \in WorldSet, NEW q \in QuerySet, NEW X \in SUBSET Points, NEW j \in Nat, j < Len(q.routes)
  PROVE  From(w, q, j, X) = ByLines(w, q, j + 1, {l \in Lines : w.ends[l][q.routes[j + 1].side] \in X})
  <1> DEFINE R == q.routes[j + 1]
             L == {l \in Lines : w.ends[l][R.side] \in X}
  <1>1. j + 1 \in 1 .. Len(q.routes) /\ Opposite(R.side) \in Sides /\ w.lines \subseteq Lines
    BY QueryFacts, WorldFacts
  <1>2. \A l \in Lines : w.ends[l][Opposite(R.side)] \in Points
    BY <1>1, WorldFacts
  <1>3. ASSUME NEW e \in Points, NEW p \in X, Leads(w, q, j, p, e)
        PROVE  e \in ByLines(w, q, j + 1, L)
    <2>1. PICK y \in Points : Hop(w, q, j + 1, p, y) /\ Leads(w, q, j + 1, y, e)
      BY <1>3, LeadsOn
    <2>2. PICK l \in w.lines : /\ l \in R.take /\ w.ends[l][R.side] = p /\ w.ends[l][Opposite(R.side)] = y
                               /\ Passes(w, q, y)
      BY <2>1 DEF Hop
    <2>3. l \in L
      BY <1>1, <1>3, <2>2
    <2>4. e \in ByPoints(w, q, j + 1, {y})
      BY <1>3, <2>1, <2>2 DEF ByPoints
    <2> HIDE DEF L
    <2> QED
      BY <1>3, <2>2, <2>3, <2>4 DEF ByLines
  <1>4. ASSUME NEW e \in Points, e \in ByLines(w, q, j + 1, L)
        PROVE  \E p \in X : Leads(w, q, j, p, e)
    <2>1. PICK l \in L : l \in w.lines /\ l \in R.take /\ e \in ByPoints(w, q, j + 1, {w.ends[l][Opposite(R.side)]})
      BY <1>4 DEF ByLines
    <2> DEFINE p == w.ends[l][R.side]
               y == w.ends[l][Opposite(R.side)]
    <2>2. Passes(w, q, y) /\ Leads(w, q, j + 1, y, e) /\ y \in Points /\ p \in X
      BY <1>2, <2>1 DEF ByPoints
    <2>3. Hop(w, q, j + 1, p, y)
      BY <2>1, <2>2 DEF Hop
    <2>4. Leads(w, q, j, p, e)
      BY <2>2, <2>3, LeadsOn
    <2> QED
      BY <2>2, <2>4
  <1> HIDE DEF L
  <1>5. From(w, q, j, X) \subseteq ByLines(w, q, j + 1, L)
    BY <1>3 DEF From
  <1>6. ByLines(w, q, j + 1, L) \subseteq From(w, q, j, X)
    BY <1>4 DEF From, ByLines
  <1> QED
    BY <1>5, <1>6 DEF L

LEMMA FromAtEnd ==
  ASSUME NEW w \in WorldSet, NEW q \in QuerySet, NEW X \in SUBSET Points
  PROVE  From(w, q, Len(q.routes), X) = X
  <1> DEFINE N == Len(q.routes)
  <1>1. \A e \in Points : \A p \in X : Leads(w, q, N, p, e) <=> e = p
    BY LeadsAtEnd
  <1> HIDE DEF N
  <1> QED
    BY <1>1 DEF From, N
-----------------------------------------------------------------------------
(* Reference is the set of points its paths lead to.                       *)
RefStep(q, k, X) == FarEnds(Listed(X, q.routes[k].side), q.routes[k]) \intersect world.points \intersect q.filter

RefStart(q) == IF q.routes = <<>> THEN q.starts \intersect world.points \intersect q.filter
                                  ELSE q.starts \intersect world.points

LEMMA ReferenceIs ==
  ASSUME NEW q \in QuerySet, world \in WorldSet
  PROVE  \E g \in [0 .. Len(q.routes) -> SUBSET Points] :
           /\ g[0] = RefStart(q) /\ \A k \in 1 .. Len(q.routes) : g[k] = RefStep(q, k, g[k - 1])
           /\ Reference(q) = g[Len(q.routes)]
  <1> DEFINE N == Len(q.routes)
             F == [k \in 1 .. N |-> [X \in SUBSET Points |-> RefStep(q, k, X)]]
             Is(g) == g = [k \in 0 .. N |->
                IF k = 0
                THEN IF q.routes = <<>> THEN q.starts \intersect world.points \intersect q.filter
                                        ELSE q.starts \intersect world.points
                ELSE FarEnds(Listed(g[k - 1], q.routes[k].side), q.routes[k])
                       \intersect world.points \intersect q.filter]
  <1>1. N \in Nat /\ RefStart(q) \in SUBSET Points /\ \A k, X : RefStep(q, k, X) \in SUBSET Points
    BY QueryFacts, WorldFacts DEF RefStart, RefStep
  <1> HIDE DEF N
  <1>2. F \in [1 .. N -> [SUBSET Points -> SUBSET Points]]
    BY <1>1
  <1>3. PICK g \in [0 .. N -> SUBSET Points] : g[0] = RefStart(q) /\ \A k \in 1 .. N : g[k] = F[k][g[k - 1]]
    <2> DEFINE S == SUBSET Points
               seed == RefStart(q)
    <2>1. seed \in S /\ F \in [1 .. N -> [S -> S]] /\ N \in Nat
      BY <1>1, <1>2
    <2> HIDE DEF F, S, seed
    <2>2. \E g \in [0 .. N -> S] : Recurs(seed, N, F, g)
      BY <2>1, Recursion
    <2> QED
      BY <2>2 DEF S, seed, Recurs
  <1>4. \A k \in 1 .. N : g[k] = RefStep(q, k, g[k - 1])
    <2> SUFFICES ASSUME NEW k \in 1 .. N PROVE g[k] = RefStep(q, k, g[k - 1])
      OBVIOUS
    <2>1. g[k - 1] \in SUBSET Points
      BY <1>1
    <2> QED
      BY <1>3, <2>1
  <1>5. Is(g)
    <2>1. \A k \in 0 .. N : g[k] = IF k = 0 THEN RefStart(q) ELSE RefStep(q, k, g[k - 1])
      <3>1. \A k \in 0 .. N : (k = 0 \/ k \in 1 .. N) /\ (k \in 1 .. N => k # 0)
        BY <1>1
      <3> QED
        BY <1>3, <1>4, <3>1, Zenon
    <2> QED
      BY <2>1 DEF RefStart, RefStep
  <1>6. \E h : Is(h) /\ Reference(q) = h[N]
    <2>1. \E h : Is(h)
      BY <1>5
    <2> QED
      BY <2>1 DEF Reference, N
  <1>7. PICK h : Is(h) /\ Reference(q) = h[N]
    BY <1>6
  <1>8. \A k \in 0 .. N : h[k] = IF k = 0 THEN RefStart(q) ELSE RefStep(q, k, h[k - 1])
    BY <1>7 DEF RefStart, RefStep
  <1>9. h \in [0 .. N -> SUBSET Points]
    <2>1. \A k \in 0 .. N : h[k] \in SUBSET Points
      BY <1>1, <1>8
    <2>2. h = [k \in 0 .. N |-> h[k]]
      BY <1>7
    <2> HIDE DEF Is
    <2> QED
      BY <2>1, <2>2
  <1> HIDE DEF Is
  <1>10. h[0] = RefStart(q) /\ \A k \in 1 .. N : h[k] = RefStep(q, k, h[k - 1])
    <2>1. 0 \in 0 .. N /\ \A k \in 1 .. N : k \in 0 .. N /\ k # 0
      BY <1>1
    <2> QED
      BY <1>8, <2>1, Zenon
  <1> QED
    BY <1>7, <1>9, <1>10 DEF N

LEMMA GoalIsReference ==
  ASSUME NEW q \in QuerySet, world \in WorldSet
  PROVE  Goal(world, q) = Reference(q)
  <1> DEFINE N == Len(q.routes)
  <1>1. PICK g \in [0 .. N -> SUBSET Points] :
          /\ g[0] = RefStart(q) /\ \A k \in 1 .. N : g[k] = RefStep(q, k, g[k - 1])
          /\ Reference(q) = g[N]
    BY ReferenceIs
  <1>2. N \in Nat
    BY QueryFacts
  <1> DEFINE T == {k \in Nat : k <= N => From(world, q, k, g[k]) = Goal(world, q)}
  <1>3. 0 \in T
    <2>1. g[0] = Begin(world, q)
      BY <1>1, QueryFacts, WorldFacts DEF RefStart, Begin, Passes
    <2> QED
      BY <2>1 DEF Goal
  <1>4. ASSUME NEW k \in T PROVE k + 1 \in T
    <2> SUFFICES ASSUME k + 1 <= N PROVE From(world, q, k + 1, g[k + 1]) = Goal(world, q)
      OBVIOUS
    <2>1. k \in Nat /\ k < N /\ From(world, q, k, g[k]) = Goal(world, q) /\ g[k] \in SUBSET Points
      BY <1>2
    <2> DEFINE R == q.routes[k + 1]
               L == {l \in Lines : world.ends[l][R.side] \in g[k]}
    <2>2. From(world, q, k, g[k]) = ByLines(world, q, k + 1, L)
      BY <2>1, FromOn
    <2>3. g[k + 1] = RefStep(q, k + 1, g[k])
      BY <1>1, <1>2, <2>1
    <2> HIDE DEF N
    <2>4. g[k + 1] = {world.ends[l][Opposite(R.side)] : l \in L \intersect world.lines \intersect R.take}
                       \intersect world.points \intersect q.filter
      BY <2>3 DEF RefStep, FarEnds, Listed, LoadPoint
    <2> HIDE DEF L, R
    <2>5. ByLines(world, q, k + 1, L) = From(world, q, k + 1, g[k + 1])
      BY <2>4 DEF ByLines, ByPoints, From, Passes, R
    <2> QED
      BY <2>1, <2>2, <2>5
  <1>5. T = Nat
    <2> HIDE DEF T
    <2>1. T \in SUBSET Nat
      BY DEF T
    <2> QED
      BY <1>3, <1>4, <2>1, AllNumbers
  <1>6. From(world, q, N, g[N]) = Goal(world, q)
    BY <1>2, <1>5
  <1>7. g[N] \in SUBSET Points
    BY <1>2
  <1>8. From(world, q, N, g[N]) = g[N]
    <2> DEFINE X == g[N]
    <2>1. X \in SUBSET Points
      BY <1>7
    <2> HIDE DEF X
    <2>2. From(world, q, Len(q.routes), X) = X
      BY <2>1, FromAtEnd, Zenon
    <2> QED
      BY <2>2 DEF X
  <1> QED
    BY <1>1, <1>6, <1>8

-----------------------------------------------------------------------------
(* What a node has found and what it leaves to others are together what    *)
(* it was asked for.                                                       *)
WalkStep(n, r, k, X) == LoadLine(Own(n, Arrived(n, r, k, X))) \intersect r.filter

LEMMA WalkIs ==
  ASSUME NEW n, NEW r, Len(r.routes) \in Nat, world \in WorldSet
  PROVE  /\ \A k \in 0 .. Len(r.routes) : Walk(n, r)[k] \subseteq Points
         /\ Walk(n, r)[0] = Started(r)
         /\ \A k \in 1 .. Len(r.routes) : Walk(n, r)[k] = WalkStep(n, r, k, Walk(n, r)[k - 1])
  <1> DEFINE N == Len(r.routes)
             F == [k \in 1 .. N |-> [X \in SUBSET Points |-> WalkStep(n, r, k, X)]]
             Is(g) == g = [k \in 0 .. N |->
                        IF k = 0 THEN Started(r)
                        ELSE LoadLine(Own(n, Arrived(n, r, k, g[k - 1]))) \intersect r.filter]
  <1>1. Started(r) \in SUBSET Points /\ \A k, X : WalkStep(n, r, k, X) \in SUBSET Points
    BY WorldFacts DEF Started, WalkStep, LoadLine
  <1> HIDE DEF N
  <1>2. F \in [1 .. N -> [SUBSET Points -> SUBSET Points]] /\ N \in Nat
    BY <1>1 DEF N
  <1>3. PICK g \in [0 .. N -> SUBSET Points] : g[0] = Started(r) /\ \A k \in 1 .. N : g[k] = F[k][g[k - 1]]
    <2> DEFINE S == SUBSET Points
               seed == Started(r)
    <2>1. seed \in S /\ F \in [1 .. N -> [S -> S]] /\ N \in Nat
      BY <1>1, <1>2
    <2> HIDE DEF F, S, seed
    <2>2. \E g \in [0 .. N -> S] : Recurs(seed, N, F, g)
      BY <2>1, Recursion
    <2> QED
      BY <2>2 DEF S, seed, Recurs
  <1>4. \A k \in 1 .. N : g[k] = WalkStep(n, r, k, g[k - 1])
    <2> SUFFICES ASSUME NEW k \in 1 .. N PROVE g[k] = WalkStep(n, r, k, g[k - 1])
      OBVIOUS
    <2>1. g[k - 1] \in SUBSET Points
      BY <1>2
    <2> QED
      BY <1>3, <2>1
  <1>5. Is(g)
    <2>1. \A k \in 0 .. N : g[k] = IF k = 0 THEN Started(r) ELSE WalkStep(n, r, k, g[k - 1])
      <3>1. \A k \in 0 .. N : (k = 0 \/ k \in 1 .. N) /\ (k \in 1 .. N => k # 0)
        BY <1>2
      <3> QED
        BY <1>3, <1>4, <3>1, Zenon
    <2> QED
      BY <2>1 DEF WalkStep
  <1>6. Is(Walk(n, r))
    <2>1. \E h : Is(h)
      BY <1>5
    <2> QED
      BY <2>1 DEF Walk, N
  <1> DEFINE h == Walk(n, r)
  <1>7. \A k \in 0 .. N : h[k] = IF k = 0 THEN Started(r) ELSE WalkStep(n, r, k, h[k - 1])
    <2> HIDE DEF h
    <2>1. Is(h)
      BY <1>6 DEF h
    <2> QED
      BY <2>1 DEF WalkStep
  <1> HIDE DEF h, Is
  <1>8. \A k \in 0 .. N : h[k] \subseteq Points
    BY <1>1, <1>7
  <1>9. h[0] = Started(r) /\ \A k \in 1 .. N : h[k] = WalkStep(n, r, k, h[k - 1])
    BY <1>2, <1>7
  <1> QED
    BY <1>8, <1>9 DEF N, h

\* What follows of route k, the j-th of the whole search, after the points in X.
LEMMA WalkOneOn ==
  ASSUME world \in WorldSet, NEW q \in QuerySet, NEW n, NEW r, NEW k, NEW j \in 1 .. Len(q.routes),
         r.filter = q.filter, r.routes[k] = q.routes[j], NEW X \in SUBSET Points,
         NEW e \in Points
  PROVE  e \in ByLines(world, q, j, Ahead(r, k, X)) <=>
           \/ e \in ByLines(world, q, j, Away(n, Ahead(r, k, X)))
           \/ e \in ByPoints(world, q, j, Away(n, Arrived(n, r, k, X)))
           \/ e \in From(world, q, j, WalkStep(n, r, k, X))
  <1> DEFINE A == Ahead(r, k, X)
             R == q.routes[j]
             far(l) == world.ends[l][Opposite(R.side)]
             B == Arrived(n, r, k, X)
  <1>1. A = Own(n, A) \union Away(n, A) /\ B = Own(n, B) \union Away(n, B)
    BY DEF Own, Away
  <1>2. B = {far(l) : l \in Own(n, A) \intersect world.lines \intersect R.take}
    BY DEF Arrived, FarEnds, LoadPoint
  <1>3. e \in ByPoints(world, q, j, Own(n, B)) <=> e \in From(world, q, j, WalkStep(n, r, k, X))
    <2>1. WalkStep(n, r, k, X) = {p \in Own(n, B) : Passes(world, q, p)}
      BY DEF WalkStep, LoadLine, Passes
    <2> HIDE DEF B
    <2> QED
      BY <2>1 DEF ByPoints, From
  <1> HIDE DEF A, B
  <1>4. e \in ByLines(world, q, j, Own(n, A)) <=> e \in ByPoints(world, q, j, B)
    BY <1>2 DEF ByLines, ByPoints
  <1>5. e \in ByLines(world, q, j, A) <=> e \in ByLines(world, q, j, Own(n, A)) \/ e \in ByLines(world, q, j, Away(n, A))
    BY <1>1 DEF ByLines
  <1>6. e \in ByPoints(world, q, j, B) <=> e \in ByPoints(world, q, j, Own(n, B)) \/ e \in ByPoints(world, q, j, Away(n, B))
    BY <1>1 DEF ByPoints
  <1> QED
    BY <1>3, <1>4, <1>5, <1>6 DEF A, B

\* What a request r, which goes on with query q after the first d routes,
\* asks for, and what its node leaves to others.
AskedOf(q, d, r) == IF r.fromPoint THEN From(world, q, d, Started(r)) ELSE ByLines(world, q, d + 1, r.ids)

Leaves(n, q, d, r, e) ==
  \E k \in 1 .. Len(r.routes) : \/ e \in ByLines(world, q, d + k, Left(n, r, k).lines)
                               \/ e \in ByPoints(world, q, d + k, Left(n, r, k).points)

LEMMA WalkGives ==
  ASSUME world \in WorldSet, NEW q \in QuerySet, NEW n, NEW r, NEW d \in Nat,
         Len(r.routes) \in Nat, d + Len(r.routes) = Len(q.routes), r.filter = q.filter,
         \A k \in 1 .. Len(r.routes) : r.routes[k] = q.routes[d + k],
         r.fromPoint \/ Len(r.routes) # 0, NEW e \in Points
  PROVE  e \in AskedOf(q, d, r) <=> e \in Walk(n, r)[Len(r.routes)] \/ Leaves(n, q, d, r, e)
  <1> DEFINE N == Len(r.routes)
             W == Walk(n, r)
             Has(k) == \/ e \in ByLines(world, q, d + k, Left(n, r, k).lines)
                       \/ e \in ByPoints(world, q, d + k, Left(n, r, k).points)
             Start == IF r.fromPoint THEN From(world, q, d, Started(r)) ELSE ByLines(world, q, d + 1, r.ids)
             Reached(k) == IF k = 0 THEN Start ELSE From(world, q, d + k, W[k])
  <1>1. N \in Nat /\ d + N = Len(q.routes) /\ (\A k \in 1 .. N : r.routes[k] = q.routes[d + k])
        /\ (r.fromPoint \/ N # 0)
    OBVIOUS
  <1>2. /\ \A k \in 0 .. N : W[k] \in SUBSET Points
        /\ W[0] = Started(r) /\ \A k \in 1 .. N : W[k] = WalkStep(n, r, k, W[k - 1])
    BY WalkIs
  <1>3. ASSUME NEW k \in Nat, k < N
        PROVE  e \in Reached(k) <=> Has(k + 1) \/ e \in Reached(k + 1)
    <2> DEFINE X == W[k]
    <2> HIDE DEF N
    <2>1. /\ k + 1 \in 1 .. N /\ (k + 1) - 1 = k /\ d + (k + 1) \in 1 .. Len(q.routes) /\ d + k \in Nat
          /\ d + k < Len(q.routes) /\ (d + k) + 1 = d + (k + 1) /\ r.routes[k + 1] = q.routes[d + (k + 1)]
      <3>1. k + 1 \in 1 .. N /\ (k + 1) - 1 = k /\ d + k \in Nat /\ (d + k) + 1 = d + (k + 1)
        BY <1>1, <1>3
      <3>2. d + (k + 1) \in 1 .. Len(q.routes) /\ d + k < Len(q.routes)
        BY <1>1, <1>3
      <3> QED
        BY <1>1, <3>1, <3>2
    <2>2. X \in SUBSET Points /\ W[k + 1] = WalkStep(n, r, k + 1, X)
      <3>1. k \in 0 .. N
        BY <1>1, <1>3
      <3> HIDE DEF W
      <3> QED
        BY <1>2, <2>1, <3>1
    <2>3. Reached(k) = ByLines(world, q, d + (k + 1), Ahead(r, k + 1, X))
      <3>1. From(world, q, d + k, X) = ByLines(world, q, d + (k + 1), Listed(X, q.routes[d + (k + 1)].side))
        <4> HIDE DEF X
        <4>1. From(world, q, d + k, X) =
                ByLines(world, q, (d + k) + 1, {l \in Lines : world.ends[l][q.routes[(d + k) + 1].side] \in X})
          BY <2>1, <2>2, FromOn, Zenon
        <4> QED
          BY <2>1, <4>1 DEF Listed
      <3>2. CASE k = 0 /\ ~r.fromPoint
        BY <3>2 DEF Ahead
      <3>3. CASE k # 0 \/ r.fromPoint
        <4>1. Ahead(r, k + 1, X) = Listed(X, q.routes[d + (k + 1)].side)
          <5>1. ~(k + 1 = 1 /\ ~r.fromPoint)
            BY <1>3, <3>3
          <5>2. Ahead(r, k + 1, X) = Listed(X, r.routes[k + 1].side)
            BY <5>1 DEF Ahead
          <5> QED
            BY <2>1, <5>2
        <4>2. Reached(k) = From(world, q, d + k, X)
          BY <1>2, <3>3
        <4> QED
          BY <3>1, <4>1, <4>2
      <3> QED
        BY <3>2, <3>3
    <2>4. Left(n, r, k + 1) = [lines |-> Away(n, Ahead(r, k + 1, X)), points |-> Away(n, Arrived(n, r, k + 1, X))]
      BY <2>1 DEF Left
    <2>5. Reached(k + 1) = From(world, q, d + (k + 1), WalkStep(n, r, k + 1, X))
      BY <1>3, <2>2
    <2> HIDE DEF Reached, X, W
    <2> QED
      BY <2>1, <2>2, <2>3, <2>4, <2>5, WalkOneOn
  <1> DEFINE T == {k \in Nat : k <= N => (e \in Start <=> e \in Reached(k) \/ \E i \in 1 .. k : Has(i))}
  <1>4. 0 \in T
    OBVIOUS
  <1>5. ASSUME NEW k \in T PROVE k + 1 \in T
    <2> SUFFICES ASSUME k + 1 <= N PROVE e \in Start <=> e \in Reached(k + 1) \/ \E i \in 1 .. k + 1 : Has(i)
      OBVIOUS
    <2>1. k \in Nat /\ k < N /\ (e \in Start <=> e \in Reached(k) \/ \E i \in 1 .. k : Has(i))
      BY <1>1
    <2>2. 1 .. k + 1 = (1 .. k) \union {k + 1}
      BY <2>1
    <2>3. e \in Reached(k) <=> Has(k + 1) \/ e \in Reached(k + 1)
      BY <1>3, <2>1
    <2> HIDE DEF Start, Reached, Has, N, T
    <2> QED
      BY <2>1, <2>2, <2>3
  <1>6. T = Nat
    <2> HIDE DEF T
    <2>1. T \in SUBSET Nat
      BY DEF T
    <2> QED
      BY <1>4, <1>5, <2>1, AllNumbers
  <1>7. e \in Start <=> e \in Reached(N) \/ \E i \in 1 .. N : Has(i)
    <2> HIDE DEF N
    <2>1. N <= N
      BY <1>1
    <2>2. N \in T
      <3> HIDE DEF T
      <3> QED
        BY <1>1, <1>6
    <2> HIDE DEF Start, Reached, Has
    <2> QED
      BY <2>1, <2>2
  <1>8. Reached(N) = W[N]
    <2>1. From(world, q, Len(q.routes), W[N]) = W[N]
      <3> DEFINE X == W[N]
      <3>1. X \in SUBSET Points
        BY <1>1, <1>2
      <3> HIDE DEF X
      <3>2. From(world, q, Len(q.routes), X) = X
        BY <3>1, FromAtEnd, Zenon
      <3> QED
        BY <3>2 DEF X
    <2>2. CASE N = 0
      <3>1. Reached(N) = From(world, q, d, W[0]) /\ d = Len(q.routes)
        BY <1>1, <1>2, <2>2
      <3> QED
        BY <2>1, <2>2, <3>1
    <2>3. CASE N # 0
      BY <1>1, <2>1, <2>3
    <2> QED
      BY <2>2, <2>3
  <1> HIDE DEF Reached
  <1> QED
    BY <1>7, <1>8 DEF AskedOf, Leaves
-----------------------------------------------------------------------------
LEMMA SearchFacts ==
  ASSUME NEW s, SearchOK(s)
  PROVE  /\ s.query \in QuerySet /\ s.routes \in RoutesSet /\ s.found \subseteq Points /\ s.mids \in MidsSet
         /\ s.fromPoint \in BOOLEAN /\ s.startFilter \in BOOLEAN /\ s.ids \subseteq Ids
         /\ s.unsent \subseteq s.unread /\ s.unread \subseteq Nodes /\ s \in SearchSet
         /\ Done(s) \in Nat /\ Len(s.routes) \in Nat /\ Done(s) + Len(s.routes) = Len(s.query.routes)
         /\ Len(s.routes) <= MaxRoutes /\ MaxRoutes \in Nat /\ s.routes \in Seq(Routes)
         /\ (s.routes = <<>> <=> Len(s.routes) = 0)
         /\ \A k \in 1 .. Len(s.routes) :
              /\ s.routes[k] = s.query.routes[Done(s) + k]
              /\ Done(s) + k \in 1 .. Len(s.query.routes) /\ k \in 1 .. MaxRoutes
              /\ s.mids[k].lines \subseteq Lines /\ s.mids[k].points \subseteq Points
  <1>1. s \in SearchSet
    BY DEF SearchOK
  <1>2. /\ s.query \in QuerySet /\ s.routes \in RoutesSet /\ s.found \subseteq Points /\ s.mids \in MidsSet
        /\ s.fromPoint \in BOOLEAN /\ s.startFilter \in BOOLEAN /\ s.ids \subseteq Ids
        /\ s.unsent \subseteq s.unread /\ s.unread \subseteq Nodes
    BY <1>1 DEF SearchOK, SearchSet, RoutesSet
  <1>3. MaxRoutes \in Nat
    BY SearchAssumption
  <1>4. PICK n \in 0 .. MaxRoutes : s.routes \in [1 .. n -> Routes]
    BY <1>2 DEF RoutesSet
  <1>5. Len(s.routes) = n /\ n \in Nat /\ n <= MaxRoutes /\ s.routes \in Seq(Routes)
    BY <1>3, <1>4
  <1>6. s.routes = <<>> <=> Len(s.routes) = 0
    BY <1>5
  <1>7. Len(s.query.routes) \in Nat
    BY <1>2, QueryFacts
  <1>8. Done(s) = Len(s.query.routes) - n /\ Done(s) \in Nat /\ Done(s) + n = Len(s.query.routes)
    BY <1>5, <1>7 DEF SearchOK, Done
  <1>9. \A k \in 1 .. n : /\ s.routes[k] = s.query.routes[Done(s) + k]
                          /\ Done(s) + k \in 1 .. Len(s.query.routes) /\ k \in 1 .. MaxRoutes
    BY <1>3, <1>5, <1>7, <1>8 DEF SearchOK
  <1>10. \A k \in 1 .. MaxRoutes : s.mids[k].lines \subseteq Lines /\ s.mids[k].points \subseteq Points
    BY <1>2 DEF MidsSet
  <1> QED
    BY <1>1, <1>2, <1>3, <1>5, <1>6, <1>8, <1>9, <1>10

LEMMA KindFacts ==
  ASSUME SearchKinds
  PROVE  /\ world \in WorldSet /\ world.owner \in [Ids -> Nodes] /\ world.points \subseteq Points
         /\ world.lines \subseteq Lines /\ world.sdk \in {"java", "cpp"} /\ world.plan \in Seq(QuerySet)
         /\ asked \in Nat /\ mark \in [Points -> 0 .. asked] /\ failed \in BOOLEAN
         /\ requests \in [Nodes -> Seq(RequestSet)] /\ replies \in [Nodes -> Seq(ReplySet)]
         /\ search # None => SearchOK(search)
  <1>1. world \in WorldSet
    BY SearchAssumption DEF SearchKinds
  <1>2. asked \in Nat
    <2>1. Len(world.plan) \in Nat /\ asked \in 0 .. Len(world.plan)
      BY <1>1, WorldFacts DEF SearchKinds
    <2> QED
      BY <2>1
  <1>3. /\ world.owner \in [Ids -> Nodes] /\ world.points \subseteq Points
        /\ world.lines \subseteq Lines /\ world.sdk \in {"java", "cpp"} /\ world.plan \in Seq(QuerySet)
    BY <1>1, WorldFacts DEF Ids
  <1> QED
    BY <1>1, <1>2, <1>3 DEF SearchKinds

\* t is search s in a round that asks for X.
Rounds(t, s, fp, sf, X) ==
  /\ t \in SearchSet /\ t.query = s.query /\ t.routes = s.routes /\ t.found = s.found /\ t.mids = s.mids
  /\ t.fromPoint = fp /\ t.startFilter = sf /\ t.ids = X
  /\ t.unsent = t.unread /\ t.unread = {world.owner[id] : id \in X}

LEMMA RoundIs ==
  ASSUME world \in WorldSet, NEW s \in SearchSet, NEW fp \in BOOLEAN, NEW sf \in BOOLEAN, NEW X \in SUBSET Ids
  PROVE  Rounds(Round(s, fp, sf, X), s, fp, sf, X)
  <1>1. {world.owner[id] : id \in X} \subseteq Nodes
    BY WorldFacts DEF Ids
  <1> QED
    BY <1>1 DEF Round, Rounds, SearchSet

LEMMA ReplyIs ==
  ASSUME world \in WorldSet, NEW n, NEW r \in RequestSet
  PROVE  /\ Reply(n, r) \in ReplySet /\ Reply(n, r).ok = TRUE
         /\ Reply(n, r).ends = Unmarked(r, Walk(n, r)[Len(r.routes)])
         /\ Len(r.routes) \in Nat /\ Len(r.routes) <= MaxRoutes
         /\ \A k \in 1 .. Len(r.routes) : Reply(n, r).mids[k] = Left(n, r, k)
  <1>1. r.routes \in RoutesSet /\ r.ids \subseteq (IF r.fromPoint THEN Points ELSE Lines)
    BY DEF RequestSet
  <1>2. MaxRoutes \in Nat
    BY SearchAssumption
  <1>3. PICK m \in 0 .. MaxRoutes : r.routes \in [1 .. m -> Routes]
    BY <1>1 DEF RoutesSet
  <1>4. Len(r.routes) = m /\ m \in Nat /\ m <= MaxRoutes
    BY <1>2, <1>3
  <1>5. \A k \in 0 .. m : Walk(n, r)[k] \subseteq Points
    BY <1>4, WalkIs
  <1>6. Unmarked(r, Walk(n, r)[m]) \subseteq Points
    BY <1>4, <1>5 DEF Unmarked
  <1>7. ASSUME NEW k \in 1 .. m
        PROVE  Left(n, r, k) \in [lines : SUBSET Lines, points : SUBSET Points]
    <2>1. r.routes[k].side \in Sides /\ Opposite(r.routes[k].side) \in Sides
      BY <1>3, <1>4 DEF Routes, Sides, Opposite
    <2>2. \A X : Ahead(r, k, X) \subseteq Lines
      BY <1>1, <1>4 DEF Ahead, Listed
    <2>3. \A X : Arrived(n, r, k, X) \subseteq Points
      <3>1. \A l \in Lines : world.ends[l][Opposite(r.routes[k].side)] \in Points
        BY <2>1, WorldFacts
      <3> QED
        BY <2>2, <3>1 DEF Arrived, FarEnds, Own, LoadPoint
    <2> QED
      BY <2>2, <2>3 DEF Left, Away
  <1>8. Nothing \in [lines : SUBSET Lines, points : SUBSET Points]
    BY DEF Nothing
  <1>9. Reply(n, r).mids \in MidsSet /\ \A k \in 1 .. m : Reply(n, r).mids[k] = Left(n, r, k)
    BY <1>2, <1>4, <1>7, <1>8 DEF Reply, MidsSet
  <1> QED
    BY <1>4, <1>6, <1>9 DEF Reply, ReplySet

LEMMA RefusedIs == Refused \in ReplySet /\ Refused.ok = FALSE /\ Refused.ends = {}
                   /\ \A k \in 1 .. MaxRoutes : Refused.mids[k] = Nothing
  <1>1. [k \in 1 .. MaxRoutes |-> Nothing] \in MidsSet
    BY DEF MidsSet, Nothing
  <1> QED
    BY <1>1 DEF Refused, ReplySet

LEMMA RequestIs ==
  ASSUME SearchKinds, search # None, NEW n, NEW opts \in BOOLEAN
  PROVE  LET r == Request(n, opts)
         IN /\ r \in RequestSet /\ r.no = asked /\ r.fromPoint = search.fromPoint /\ r.opts = opts
            /\ r.startFilter = search.startFilter /\ r.ids = {x \in search.ids : world.owner[x] = n}
            /\ r.routes = search.routes /\ r.filter = search.query.filter
  <1>1. SearchOK(search) /\ asked \in Nat
    BY KindFacts
  <1>2. search.query.filter \subseteq Points
    BY <1>1, SearchFacts, QueryFacts
  <1>3. Own(n, search.ids) \subseteq (IF search.fromPoint THEN Points ELSE Lines) /\ Own(n, search.ids) \subseteq Ids
    BY <1>1, SearchFacts DEF SearchOK, Own
  <1> QED
    BY <1>1, <1>2, <1>3, SearchFacts DEF Request, RequestSet, Own

-----------------------------------------------------------------------------
(* What a node has to find, and what the client has.                       *)
LEMMA NodeGives ==
  ASSUME SearchKinds, search # None, NEW n, NEW opts \in BOOLEAN, NEW e \in Points
  PROVE  LET r == Request(n, opts)
         IN e \in Share(world, search, n) <=>
              e \in Walk(n, r)[Len(r.routes)] \/ e \in Work(world, search, Reply(n, r).mids)
  <1> DEFINE r == Request(n, opts)
             s == search
             d == Done(search)
  <1>1. SearchOK(s) /\ world \in WorldSet
    BY KindFacts
  <1>2. /\ r \in RequestSet /\ r.fromPoint = s.fromPoint /\ r.startFilter = s.startFilter
        /\ r.ids = {x \in s.ids : world.owner[x] = n} /\ r.routes = s.routes /\ r.filter = s.query.filter
    BY RequestIs
  <1> HIDE DEF r
  <1>3. /\ \A k \in 1 .. Len(r.routes) : Reply(n, r).mids[k] = Left(n, r, k)
        /\ Len(r.routes) \in Nat
    BY <1>1, <1>2, ReplyIs
  <1>4. /\ d \in Nat /\ d + Len(s.routes) = Len(s.query.routes) /\ s.query \in QuerySet
        /\ \A k \in 1 .. Len(s.routes) : s.routes[k] = s.query.routes[d + k]
        /\ s.fromPoint \/ Len(s.routes) # 0
    BY <1>1, SearchFacts DEF SearchOK
  <1> HIDE DEF d
  <1>5. e \in AskedOf(s.query, d, r) <=> e \in Walk(n, r)[Len(r.routes)] \/ Leaves(n, s.query, d, r, e)
    <2> DEFINE q == s.query
    <2>1. /\ q \in QuerySet /\ d + Len(r.routes) = Len(q.routes) /\ r.filter = q.filter
          /\ \A k \in 1 .. Len(r.routes) : r.routes[k] = q.routes[d + k]
          /\ (r.fromPoint \/ Len(r.routes) # 0)
      BY <1>2, <1>4
    <2> HIDE DEF q, s
    <2>2. e \in AskedOf(q, d, r) <=> e \in Walk(n, r)[Len(r.routes)] \/ Leaves(n, q, d, r, e)
      BY <1>1, <1>3, <1>4, <2>1, WalkGives, Zenon
    <2> QED
      BY <2>2 DEF q
  <1>6. Share(world, s, n) = AskedOf(s.query, d, r)
    <2>1. Share(world, s, n) = ShareOf(world, s, r.ids)
      BY <1>2 DEF Share
    <2>2. CASE ~s.fromPoint
      BY <1>2, <2>1, <2>2 DEF AskedOf, ShareOf, d
    <2>3. CASE s.fromPoint /\ s.startFilter
      <3>1. Started(r) = {p \in r.ids : Passes(world, s.query, p)}
        BY <1>2, <2>3 DEF Started, Passes
      <3>2. ByPoints(world, s.query, d, r.ids) = From(world, s.query, d, Started(r))
        BY <3>1 DEF ByPoints, From
      <3> QED
        BY <1>2, <2>1, <2>3, <3>2 DEF AskedOf, ShareOf, d
    <2>4. CASE s.fromPoint /\ ~s.startFilter
      BY <1>2, <2>1, <2>4 DEF AskedOf, ShareOf, Started, d
    <2> QED
      BY <2>2, <2>3, <2>4
  <1>7. e \in Work(world, s, Reply(n, r).mids) <=> Leaves(n, s.query, d, r, e)
    <2>1. ~s.fromPoint => Left(n, r, 1).lines = {}
      BY <1>2 DEF Left, Ahead, Away, Own
    <2>2. ~s.fromPoint => e \notin ByLines(world, s.query, d + 1, Left(n, r, 1).lines)
      BY <2>1 DEF ByLines
    <2> QED
      BY <1>2, <1>3, <2>2 DEF Work, Leaves, d
  <1> QED
    BY <1>5, <1>6, <1>7 DEF r

\* A point that is marked was reported, now or before.
LEMMA MarkedAreFound ==
  ASSUME SearchKinds, search # None, NEW n, NEW opts \in BOOLEAN, NEW p \in Points,
         p \in MarkedBy(n, Request(n, opts)), p \in search.query.filter
  PROVE  p \in Walk(n, Request(n, opts))[Len(Request(n, opts).routes)]
  <1> DEFINE r == Request(n, opts)
             N == Len(r.routes)
  <1>1. SearchOK(search) /\ world \in WorldSet
    BY KindFacts
  <1>2. /\ r \in RequestSet /\ r.fromPoint = search.fromPoint /\ r.startFilter = search.startFilter
        /\ r.routes = search.routes /\ r.filter = search.query.filter
    BY RequestIs
  <1>3. /\ N \in Nat /\ (r.routes = <<>> <=> N = 0)
        /\ r.routes = <<>> => r.fromPoint /\ r.startFilter
    BY <1>1, <1>2, SearchFacts DEF SearchOK
  <1> HIDE DEF r
  <1>4. Walk(n, r)[0] = Started(r) /\ \A k \in 1 .. N : Walk(n, r)[k] = WalkStep(n, r, k, Walk(n, r)[k - 1])
    BY <1>1, <1>3, WalkIs
  <1> HIDE DEF N
  <1>5. CASE r.routes = <<>>
    BY <1>2, <1>3, <1>4, <1>5 DEF MarkedBy, Started, r, N
  <1>6. CASE r.routes # <<>>
    <2>1. N \in 1 .. N
      BY <1>3, <1>6
    <2>2. p \in LoadLine(Own(n, Arrived(n, r, N, Walk(n, r)[N - 1])))
      BY <1>6 DEF MarkedBy, r, N
    <2> QED
      BY <1>2, <1>4, <2>1, <2>2 DEF WalkStep, r, N
  <1> QED
    BY <1>5, <1>6 DEF r, N

\* Where the work does not change.
LEMMA SameWork ==
  ASSUME NEW w, NEW s, NEW t, t.query = s.query, t.routes = s.routes, t.fromPoint = s.fromPoint, NEW m
  PROVE  Work(w, t, m) = Work(w, s, m)
  BY DEF Work, Done

LEMMA SameShare ==
  ASSUME NEW w, NEW s, NEW t, t.query = s.query, t.routes = s.routes, t.fromPoint = s.fromPoint,
         t.startFilter = s.startFilter, t.ids = s.ids, NEW n
  PROVE  Share(w, t, n) = Share(w, s, n)
  BY DEF Share, ShareOf, Done

LEMMA MergedWork ==
  ASSUME NEW w, NEW s, SearchOK(s), NEW m \in MidsSet, NEW more \in MidsSet, NEW e \in Points
  PROVE  /\ Merged(m, more) \in MidsSet
         /\ e \in Work(w, s, Merged(m, more)) <=> e \in Work(w, s, m) \/ e \in Work(w, s, more)
  <1>1. \A k \in 1 .. Len(s.routes) : k \in 1 .. MaxRoutes
    BY SearchFacts
  <1>2. \A k \in 1 .. MaxRoutes : /\ Merged(m, more)[k].lines = m[k].lines \union more[k].lines
                                  /\ Merged(m, more)[k].points = m[k].points \union more[k].points
    BY DEF Merged
  <1>3. ASSUME NEW q, NEW j, NEW A, NEW B
        PROVE  /\ e \in ByPoints(w, q, j, A \union B) <=> e \in ByPoints(w, q, j, A) \/ e \in ByPoints(w, q, j, B)
               /\ e \in ByLines(w, q, j, A \union B) <=> e \in ByLines(w, q, j, A) \/ e \in ByLines(w, q, j, B)
    <2>1. e \in ByPoints(w, q, j, A \union B) <=> e \in ByPoints(w, q, j, A) \/ e \in ByPoints(w, q, j, B)
      BY DEF ByPoints
    <2>2. e \in ByLines(w, q, j, A \union B) <=> e \in ByLines(w, q, j, A) \/ e \in ByLines(w, q, j, B)
      BY DEF ByLines
    <2> QED
      BY <2>1, <2>2
  <1>5. Merged(m, more) \in MidsSet
    BY DEF Merged, MidsSet
  <1> HIDE DEF Merged
  <1> DEFINE K == 1 .. Len(s.routes)
             Has(mm, k) == \/ e \in ByPoints(w, s.query, Done(s) + k, mm[k].points)
                           \/ (k # 1 \/ s.fromPoint) /\ e \in ByLines(w, s.query, Done(s) + k, mm[k].lines)
  <1>6. \A k \in K : Has(Merged(m, more), k) <=> Has(m, k) \/ Has(more, k)
    <2> SUFFICES ASSUME NEW k \in K PROVE Has(Merged(m, more), k) <=> Has(m, k) \/ Has(more, k)
      OBVIOUS
    <2>1. /\ Merged(m, more)[k].lines = m[k].lines \union more[k].lines
          /\ Merged(m, more)[k].points = m[k].points \union more[k].points
      BY <1>1, <1>2
    <2>2. e \in ByPoints(w, s.query, Done(s) + k, m[k].points \union more[k].points) <=>
            e \in ByPoints(w, s.query, Done(s) + k, m[k].points) \/ e \in ByPoints(w, s.query, Done(s) + k, more[k].points)
      BY <1>3
    <2>3. e \in ByLines(w, s.query, Done(s) + k, m[k].lines \union more[k].lines) <=>
            e \in ByLines(w, s.query, Done(s) + k, m[k].lines) \/ e \in ByLines(w, s.query, Done(s) + k, more[k].lines)
      BY <1>3
    <2> QED
      BY <2>1, <2>2, <2>3
  <1>7. \A mm : e \in Work(w, s, mm) <=> \E k \in K : Has(mm, k)
    BY DEF Work
  <1> HIDE DEF Has, K
  <1> QED
    BY <1>5, <1>6, <1>7

\* All nodes of a round together have its ids.
LEMMA SharesAre ==
  ASSUME NEW w, NEW t, t.unread = {w.owner[id] : id \in t.ids}, NEW e
  PROVE  (\E n \in t.unread : e \in Share(w, t, n)) <=> e \in ShareOf(w, t, t.ids)
  <1> DEFINE Asked(n) == {x \in t.ids : w.owner[x] = n}
  <1>1. \A x \in t.ids : \E n \in t.unread : x \in Asked(n)
    OBVIOUS
  <1>2. \A n : Asked(n) \subseteq t.ids
    OBVIOUS
  <1>3. \A n : Share(w, t, n) = ShareOf(w, t, Asked(n))
    BY DEF Share
  <1> HIDE DEF Asked
  <1>4. \A q, j : (\E n \in t.unread : e \in ByLines(w, q, j, Asked(n))) <=> e \in ByLines(w, q, j, t.ids)
    BY <1>1, <1>2 DEF ByLines
  <1>5. \A q, j : (\E n \in t.unread : e \in ByPoints(w, q, j, Asked(n))) <=> e \in ByPoints(w, q, j, t.ids)
    BY <1>1, <1>2 DEF ByPoints
  <1>6. \A q, j : (\E n \in t.unread : e \in From(w, q, j, Asked(n) \intersect w.points))
                     <=> e \in From(w, q, j, t.ids \intersect w.points)
    BY <1>1, <1>2 DEF From
  <1>7. CASE ~t.fromPoint
    BY <1>3, <1>4, <1>7 DEF ShareOf
  <1>8. CASE t.fromPoint /\ t.startFilter
    BY <1>3, <1>5, <1>8 DEF ShareOf
  <1>9. CASE t.fromPoint /\ ~t.startFilter
    <2>1. \A X : ShareOf(w, t, X) = From(w, t.query, Done(t), X \intersect w.points)
      BY <1>9 DEF ShareOf
    <2>2. \A n : Share(w, t, n) = From(w, t.query, Done(t), Asked(n) \intersect w.points)
      BY <1>3, <2>1
    <2>3. (\E n \in t.unread : e \in From(w, t.query, Done(t), Asked(n) \intersect w.points)) <=>
            e \in From(w, t.query, Done(t), t.ids \intersect w.points)
      BY <1>6
    <2> QED
      BY <2>1, <2>2, <2>3
  <1> QED
    BY <1>7, <1>8, <1>9
-----------------------------------------------------------------------------
(* The rounds of a search.                                                 *)
LEMMA FirstIs ==
  ASSUME NEW S \in SUBSET Nat, S # {}
  PROVE  First(S) \in S /\ \A m \in S : First(S) <= m
  <1>1. \E n \in S : \A m \in S : n <= m
    BY LeastNumber
  <1> QED
    BY <1>1 DEF First

\* What is left on the k-th route of search s, in m.
LeftOn(w, s, m, k, e) ==
  \/ e \in ByPoints(w, s.query, Done(s) + k, m[k].points)
  \/ (k # 1 \/ s.fromPoint) /\ e \in ByLines(w, s.query, Done(s) + k, m[k].lines)

LEMMA WorkIs ==
  ASSUME NEW w, NEW s, NEW m, NEW e \in Points
  PROVE  e \in Work(w, s, m) <=> \E k \in 1 .. Len(s.routes) : LeftOn(w, s, m, k, e)
  BY DEF Work, LeftOn

LEMMA NothingLeft ==
  ASSUME NEW w, NEW s, NEW m, NEW k, NEW e, m[k] = Nothing
  PROVE  ~LeftOn(w, s, m, k, e)
  BY DEF LeftOn, Nothing, ByPoints, ByLines

LEMMA CoverOfRound ==
  ASSUME NEW w, NEW t, t.unread = {w.owner[id] : id \in t.ids}, NEW e \in Points
  PROVE  e \in Cover(w, t) <=> e \in t.found \/ e \in Work(w, t, t.mids) \/ e \in ShareOf(w, t, t.ids)
  BY SharesAre DEF Cover

\* Going on from the points that the first route has led to.
LEMMA OverPointsIs ==
  ASSUME world \in WorldSet, NEW s, SearchOK(s), s.routes # <<>>, s.fromPoint => s.mids[1].lines = {}
  PROVE  /\ SearchOK(OverPoints(s)) /\ OverPoints(s).query = s.query /\ OverPoints(s).found = s.found
         /\ OverPoints(s).unsent = OverPoints(s).unread
         /\ \A e \in Points : e \in Cover(world, OverPoints(s)) <=> e \in s.found \/ e \in Work(world, s, s.mids)
  <1> DEFINE N == Len(s.routes)
             d == Done(s)
             u == [s EXCEPT !.routes = Tail(@), !.mids = Shift(@, 1)]
             t == OverPoints(s)
  <1>1. /\ s \in SearchSet /\ d \in Nat /\ N \in Nat /\ N # 0 /\ d + N = Len(s.query.routes) /\ N <= MaxRoutes
        /\ MaxRoutes \in Nat /\ s.routes \in Seq(Routes) /\ s.mids \in MidsSet /\ s.found \subseteq Points
        /\ \A k \in 1 .. N : s.routes[k] = s.query.routes[d + k]
    BY SearchFacts
  <1> HIDE DEF d, N
  <1>2. /\ Tail(s.routes) \in Seq(Routes) /\ Len(Tail(s.routes)) = N - 1
        /\ \A k \in 1 .. N - 1 : Tail(s.routes)[k] = s.routes[k + 1]
    BY <1>1 DEF N
  <1>3. Tail(s.routes) \in RoutesSet
    <2>1. Tail(s.routes) \in [1 .. Len(Tail(s.routes)) -> Routes]
      <3> DEFINE T == Tail(s.routes)
      <3>1. T \in Seq(Routes)
        BY <1>2
      <3> HIDE DEF T
      <3>2. T \in [1 .. Len(T) -> Routes]
        BY <3>1
      <3> QED
        BY <3>2 DEF T
    <2>2. N - 1 \in 0 .. MaxRoutes
      BY <1>1
    <2> QED
      BY <1>2, <2>1, <2>2 DEF RoutesSet
  <1>4. Shift(s.mids, 1) \in MidsSet /\ \A k \in 1 .. N - 1 : Shift(s.mids, 1)[k] = s.mids[k + 1]
    <2>1. \A k \in 1 .. MaxRoutes : k + 1 <= MaxRoutes => s.mids[k + 1] \in [lines : SUBSET Lines, points : SUBSET Points]
      BY <1>1 DEF MidsSet
    <2>2. Nothing \in [lines : SUBSET Lines, points : SUBSET Points]
      BY DEF Nothing
    <2>3. Shift(s.mids, 1) \in MidsSet
      BY <2>1, <2>2 DEF Shift, MidsSet
    <2>4. \A k \in 1 .. N - 1 : k \in 1 .. MaxRoutes /\ k + 1 <= MaxRoutes
      BY <1>1
    <2>5. \A k \in 1 .. N - 1 : Shift(s.mids, 1)[k] = s.mids[k + 1]
      BY <2>4 DEF Shift
    <2> QED
      BY <2>3, <2>5
  <1>5. /\ u \in SearchSet /\ u.query = s.query /\ u.found = s.found /\ u.routes = Tail(s.routes)
        /\ u.mids = Shift(s.mids, 1)
    BY <1>1, <1>3, <1>4 DEF SearchSet, RoutesSet
  <1>6. s.mids[1].points \subseteq Points /\ s.mids[1].lines \subseteq Lines
    BY <1>1, SearchFacts DEF N
  <1>7. /\ t \in SearchSet /\ t.query = s.query /\ t.routes = Tail(s.routes) /\ t.found = s.found
        /\ t.mids = Shift(s.mids, 1) /\ t.fromPoint = TRUE /\ t.startFilter = TRUE /\ t.ids = s.mids[1].points
        /\ t.unsent = t.unread /\ t.unread = {world.owner[id] : id \in t.ids}
    <2> DEFINE X == s.mids[1].points
    <2>1. X \in SUBSET Ids
      BY <1>6 DEF Ids
    <2> HIDE DEF X, u
    <2>2. Rounds(Round(u, TRUE, TRUE, X), u, TRUE, TRUE, X)
      BY <1>5, <2>1, RoundIs
    <2>3. t = Round(u, TRUE, TRUE, X)
      BY DEF OverPoints, X, u
    <2> HIDE DEF t
    <2> QED
      BY <1>5, <2>2, <2>3 DEF Rounds, X
  <1> HIDE DEF t, u
  <1>8. Done(t) = d + 1
    <2>1. Done(t) = Len(s.query.routes) - (N - 1)
      BY <1>2, <1>7 DEF Done
    <2>2. Len(s.query.routes) = d + N
      BY <1>1
    <2> QED
      BY <1>1, <2>1, <2>2
  <1>9. \A k \in 1 .. N - 1 : k + 1 \in 1 .. N /\ d + (k + 1) = (d + 1) + k
    BY <1>1
  <1>10. SearchOK(t)
    <2>1. Len(t.routes) <= Len(t.query.routes)
      BY <1>1, <1>2, <1>7
    <2>2. \A k \in 1 .. Len(t.routes) : t.routes[k] = t.query.routes[Done(t) + k]
      BY <1>1, <1>2, <1>7, <1>8, <1>9
    <2> QED
      BY <1>6, <1>7, <2>1, <2>2 DEF SearchOK
  <1>11. ASSUME NEW e \in Points
         PROVE  e \in Cover(world, t) <=> e \in s.found \/ e \in Work(world, s, s.mids)
    <2>1. e \in Cover(world, t) <=>
            e \in s.found \/ e \in Work(world, t, t.mids) \/ e \in ByPoints(world, s.query, d + 1, s.mids[1].points)
      BY <1>7, <1>8, CoverOfRound DEF ShareOf
    <2>2. e \in ByPoints(world, s.query, d + 1, s.mids[1].points) <=> LeftOn(world, s, s.mids, 1, e)
      <3>1. s.fromPoint => e \notin ByLines(world, s.query, d + 1, s.mids[1].lines)
        BY DEF ByLines
      <3> QED
        BY <3>1 DEF LeftOn, d
    <2>3. \A k \in 1 .. N - 1 : LeftOn(world, t, t.mids, k, e) <=> LeftOn(world, s, s.mids, k + 1, e)
      <3> SUFFICES ASSUME NEW k \in 1 .. N - 1
                   PROVE  LeftOn(world, t, t.mids, k, e) <=> LeftOn(world, s, s.mids, k + 1, e)
        OBVIOUS
      <3>1. /\ t.mids[k] = s.mids[k + 1] /\ Done(t) + k = d + (k + 1) /\ t.fromPoint = TRUE /\ t.query = s.query
            /\ k + 1 # 1
        BY <1>4, <1>7, <1>8, <1>9
      <3> QED
        BY <3>1 DEF LeftOn, d
    <2>4. e \in Work(world, t, t.mids) <=> \E k \in 1 .. N - 1 : LeftOn(world, t, t.mids, k, e)
      BY <1>2, <1>7, WorkIs
    <2>5. e \in Work(world, s, s.mids) <=> \E k \in 1 .. N : LeftOn(world, s, s.mids, k, e)
      BY WorkIs DEF N
    <2>6. (\E k \in 1 .. N : LeftOn(world, s, s.mids, k, e)) <=>
             LeftOn(world, s, s.mids, 1, e) \/ \E k \in 1 .. N - 1 : LeftOn(world, s, s.mids, k + 1, e)
      <3>1. ASSUME NEW k \in 1 .. N
            PROVE  k = 1 \/ (k - 1 \in 1 .. N - 1 /\ (k - 1) + 1 = k)
        BY <1>1
      <3>2. 1 \in 1 .. N
        BY <1>1
      <3> QED
        BY <1>9, <3>1, <3>2
    <2> QED
      BY <2>1, <2>2, <2>3, <2>4, <2>5, <2>6
  <1> QED
    BY <1>7, <1>10, <1>11 DEF t

\* Going over the lines the first route has still to lead over.
LEMMA LinesRound ==
  ASSUME world \in WorldSet, NEW s, SearchOK(s), s.routes # <<>>, s.fromPoint = TRUE
  PROVE  LET t == Round(s, FALSE, TRUE, s.mids[1].lines)
         IN /\ SearchOK(t) /\ t.query = s.query /\ t.found = s.found /\ t.unsent = t.unread
            /\ \A e \in Points : e \in Cover(world, t) <=> e \in s.found \/ e \in Work(world, s, s.mids)
  <1> DEFINE L == s.mids[1].lines
             t == Round(s, FALSE, TRUE, L)
             N == Len(s.routes)
  <1>1. s \in SearchSet /\ N \in Nat /\ N # 0
    BY SearchFacts
  <1>2. L \subseteq Lines
    BY <1>1, SearchFacts
  <1> HIDE DEF L, N
  <1>3. /\ t \in SearchSet /\ t.query = s.query /\ t.routes = s.routes /\ t.found = s.found /\ t.mids = s.mids
        /\ t.fromPoint = FALSE /\ t.startFilter = TRUE /\ t.ids = L
        /\ t.unsent = t.unread /\ t.unread = {world.owner[id] : id \in L}
    <2>1. L \in SUBSET Ids
      BY <1>2 DEF Ids
    <2>2. Rounds(t, s, FALSE, TRUE, L)
      BY <1>1, <2>1, RoundIs
    <2> HIDE DEF t
    <2> QED
      BY <2>2 DEF Rounds
  <1> HIDE DEF t
  <1>4. Done(t) = Done(s)
    BY <1>3 DEF Done
  <1>5. SearchOK(t)
    BY <1>2, <1>3, <1>4 DEF SearchOK
  <1>6. ASSUME NEW e \in Points
        PROVE  e \in Cover(world, t) <=> e \in s.found \/ e \in Work(world, s, s.mids)
    <2>1. e \in Cover(world, t) <=>
            e \in s.found \/ e \in Work(world, t, s.mids) \/ e \in ByLines(world, s.query, Done(s) + 1, L)
      BY <1>3, <1>4, CoverOfRound DEF ShareOf
    <2>2. \A k \in 1 .. N : k # 1 => (LeftOn(world, t, s.mids, k, e) <=> LeftOn(world, s, s.mids, k, e))
      BY <1>3, <1>4 DEF LeftOn
    <2>3. LeftOn(world, s, s.mids, 1, e) <=>
            LeftOn(world, t, s.mids, 1, e) \/ e \in ByLines(world, s.query, Done(s) + 1, L)
      BY <1>3, <1>4 DEF LeftOn, L
    <2>4. e \in Work(world, t, s.mids) <=> \E k \in 1 .. N : LeftOn(world, t, s.mids, k, e)
      BY <1>3, WorkIs DEF N
    <2>5. e \in Work(world, s, s.mids) <=> \E k \in 1 .. N : LeftOn(world, s, s.mids, k, e)
      BY WorkIs DEF N
    <2>6. 1 \in 1 .. N
      BY <1>1
    <2> QED
      BY <2>1, <2>2, <2>3, <2>4, <2>5, <2>6
  <1> QED
    BY <1>3, <1>5, <1>6 DEF t, L
\* Leaving out the routes nothing is left of.
LEMMA RemainingIs ==
  ASSUME world \in WorldSet, NEW s, SearchOK(s), s.fromPoint = TRUE, Undone(s) # {}
  PROVE  /\ SearchOK(Remaining(s)) /\ Remaining(s).routes # <<>> /\ Remaining(s).fromPoint = TRUE
         /\ Remaining(s).query = s.query /\ Remaining(s).found = s.found
         /\ \A e \in Points :
              /\ e \in Work(world, Remaining(s), Remaining(s).mids) => e \in Work(world, s, s.mids)
              /\ world.sdk = "java" /\ e \in Work(world, s, s.mids) => e \in Work(world, Remaining(s), Remaining(s).mids)
  <1> DEFINE N == Len(s.routes)
             d == Done(s)
             K == First(Undone(s))
             S == SubSeq(s.routes, K, N)
             M == Renumbered(s.mids, K)
             t == Remaining(s)
  <1>1. /\ s \in SearchSet /\ d \in Nat /\ N \in Nat /\ d + N = Len(s.query.routes) /\ N <= MaxRoutes
        /\ MaxRoutes \in Nat /\ s.routes \in Seq(Routes) /\ s.mids \in MidsSet
        /\ \A k \in 1 .. N : s.routes[k] = s.query.routes[d + k]
    BY SearchFacts
  <1>2. K \in 1 .. N /\ \A k \in 1 .. N : k < K => s.mids[k] = Nothing
    <2>1. Undone(s) \in SUBSET Nat /\ Undone(s) \subseteq 1 .. N
      BY DEF Undone
    <2>2. K \in Undone(s) /\ \A m \in Undone(s) : K <= m
      BY <2>1, FirstIs
    <2>3. K \in 1 .. N
      BY <2>1, <2>2
    <2>4. ASSUME NEW k \in 1 .. N, k < K PROVE s.mids[k] = Nothing
      BY <2>2, <2>3, <2>4 DEF Undone
    <2> QED
      BY <2>3, <2>4
  <1> HIDE DEF d, N, K
  <1>3. S \in Seq(Routes) /\ Len(S) = N - K + 1 /\ \A k \in 1 .. N - K + 1 : S[k] = s.routes[K + k - 1]
    BY <1>1, <1>2 DEF N
  <1> HIDE DEF S
  <1>4. S \in RoutesSet /\ S # <<>>
    <2>1. S \in [1 .. Len(S) -> Routes]
      BY <1>3
    <2>2. N - K + 1 \in 1 .. MaxRoutes
      BY <1>1, <1>2
    <2> QED
      BY <1>3, <2>1, <2>2 DEF RoutesSet
  <1>5. M \in MidsSet /\ \A k \in 1 .. N - K + 1 :
          M[k] = s.mids[k + (K - 1)] \/ (M[k] = Nothing /\ world.sdk = "cpp")
    <2> DEFINE Mid == [lines : SUBSET Lines, points : SUBSET Points]
    <2>1. Nothing \in Mid
      BY DEF Nothing
    <2>2. s.mids \in [1 .. MaxRoutes -> Mid] /\ MidsSet = [1 .. MaxRoutes -> Mid]
      BY <1>1 DEF MidsSet
    <2> HIDE DEF Mid
    <2>3. CASE world.sdk = "cpp" /\ K = 1
      <3>1. M = [s.mids EXCEPT ![1] = Nothing]
        BY <2>3 DEF Renumbered
      <3>2. \A k \in 1 .. N - K + 1 : k \in 1 .. MaxRoutes /\ k + (K - 1) = k
        BY <1>1, <2>3
      <3> HIDE DEF M
      <3> QED
        BY <2>1, <2>2, <2>3, <3>1, <3>2
    <2>4. CASE ~(world.sdk = "cpp" /\ K = 1)
      <3>1. M = Shift(s.mids, K - 1)
        BY <2>4 DEF Renumbered
      <3>2. \A k \in 1 .. N - K + 1 : k \in 1 .. MaxRoutes /\ k + (K - 1) <= MaxRoutes
        BY <1>1, <1>2
      <3>3. M = [k \in 1 .. MaxRoutes |-> IF k + (K - 1) <= MaxRoutes THEN s.mids[k + (K - 1)] ELSE Nothing]
        BY <3>1 DEF Shift
      <3>4. \A k \in 1 .. MaxRoutes : k + (K - 1) <= MaxRoutes => k + (K - 1) \in 1 .. MaxRoutes
        BY <1>1, <1>2
      <3> HIDE DEF M
      <3> QED
        BY <2>1, <2>2, <3>2, <3>3, <3>4
    <2> QED
      BY <2>3, <2>4
  <1> HIDE DEF M
  <1>6. /\ t \in SearchSet /\ t.query = s.query /\ t.found = s.found /\ t.routes = S /\ t.mids = M
        /\ t.fromPoint = TRUE /\ t.ids = s.ids /\ t.unsent = s.unsent /\ t.unread = s.unread
    <2>1. t = [s EXCEPT !.routes = S, !.mids = M]
      BY DEF Remaining, S, M, K, N
    <2> HIDE DEF t
    <2> QED
      BY <1>1, <1>4, <1>5, <2>1 DEF SearchSet, RoutesSet
  <1> HIDE DEF t
  <1>7. Done(t) = d + (K - 1)
    <2>1. Done(t) = Len(s.query.routes) - (N - K + 1)
      BY <1>3, <1>6 DEF Done
    <2>2. Len(s.query.routes) = d + N
      BY <1>1
    <2> QED
      BY <1>1, <1>2, <2>1, <2>2
  <1>8. \A k \in 1 .. N - K + 1 :
          /\ k + (K - 1) \in 1 .. N /\ K + k - 1 = k + (K - 1) /\ (d + (K - 1)) + k = d + (k + (K - 1))
    BY <1>1, <1>2
  <1>9. SearchOK(t)
    <2>1. Len(t.routes) <= Len(t.query.routes)
      BY <1>1, <1>2, <1>3, <1>6
    <2>2. \A k \in 1 .. Len(t.routes) : t.routes[k] = t.query.routes[Done(t) + k]
      <3>1. ASSUME NEW k \in 1 .. N - K + 1 PROVE S[k] = s.query.routes[(d + (K - 1)) + k]
        <4>1. S[k] = s.routes[k + (K - 1)]
          BY <1>3, <1>8
        <4>2. s.routes[k + (K - 1)] = s.query.routes[d + (k + (K - 1))]
          BY <1>1, <1>8
        <4> QED
          BY <1>8, <4>1, <4>2
      <3> QED
        BY <1>3, <1>6, <1>7, <3>1
    <2> QED
      BY <1>4, <1>6, <2>1, <2>2 DEF SearchOK
  <1>10. ASSUME NEW e \in Points
         PROVE  /\ e \in Work(world, t, M) => e \in Work(world, s, s.mids)
                /\ world.sdk = "java" /\ e \in Work(world, s, s.mids) => e \in Work(world, t, M)
    <2>1. e \in Work(world, t, M) <=> \E k \in 1 .. N - K + 1 : LeftOn(world, t, M, k, e)
      BY <1>3, <1>6, WorkIs
    <2>2. e \in Work(world, s, s.mids) <=> \E k \in 1 .. N : LeftOn(world, s, s.mids, k, e)
      BY WorkIs DEF N
    <2>3. ASSUME NEW k \in 1 .. N - K + 1, M[k] = s.mids[k + (K - 1)]
          PROVE  LeftOn(world, t, M, k, e) <=> LeftOn(world, s, s.mids, k + (K - 1), e)
      <3>1. Done(t) + k = d + (k + (K - 1)) /\ t.query = s.query /\ t.fromPoint = TRUE /\ s.fromPoint = TRUE
        BY <1>6, <1>7, <1>8
      <3> QED
        BY <2>3, <3>1 DEF LeftOn, d
    <2>4. ASSUME NEW k \in 1 .. N - K + 1, LeftOn(world, t, M, k, e)
          PROVE  LeftOn(world, s, s.mids, k + (K - 1), e)
      <3>1. M[k] # Nothing
        BY <2>4, NothingLeft
      <3> QED
        BY <1>5, <2>3, <2>4, <3>1
    <2>5. ASSUME NEW j \in 1 .. N, LeftOn(world, s, s.mids, j, e), world.sdk = "java"
          PROVE  \E k \in 1 .. N - K + 1 : LeftOn(world, t, M, k, e)
      <3>1. s.mids[j] # Nothing
        BY <2>5, NothingLeft
      <3>2. j - (K - 1) \in 1 .. N - K + 1 /\ (j - (K - 1)) + (K - 1) = j
        BY <1>1, <1>2, <3>1
      <3> DEFINE k == j - (K - 1)
      <3>3. k \in 1 .. N - K + 1 /\ k + (K - 1) = j
        BY <3>2
      <3> HIDE DEF k
      <3>4. M[k] = s.mids[k + (K - 1)]
        BY <1>5, <2>5, <3>3
      <3>5. LeftOn(world, t, M, k, e) <=> LeftOn(world, s, s.mids, k + (K - 1), e)
        BY <2>3, <3>3, <3>4
      <3> QED
        BY <2>5, <3>3, <3>5
    <2> QED
      BY <1>8, <2>1, <2>2, <2>4, <2>5
  <1> QED
    BY <1>4, <1>6, <1>9, <1>10 DEF t

\* When nothing is left, all is found.
LEMMA NoWorkLeft ==
  ASSUME NEW w, NEW s, Undone(s) = {}
  PROVE  Work(w, s, s.mids) = {}
  <1>1. \A k \in 1 .. Len(s.routes) : s.mids[k] = Nothing
    BY DEF Undone
  <1>2. \A e \in Points : e \notin Work(w, s, s.mids)
    BY <1>1, WorkIs, NothingLeft
  <1> QED
    BY <1>2 DEF Work

\* A search begins with its goal ahead.
LEMMA BeginsWithGoal ==
  ASSUME world \in WorldSet, NEW q \in QuerySet, NEW s, s \in SearchSet, s.query = q, s.routes = q.routes, s.found = {},
         s.mids = Refused.mids
  PROVE  LET t == Round(s, TRUE, q.routes = <<>>, q.starts)
         IN SearchOK(t) /\ t.query = q /\ t.unsent = t.unread /\ \A e \in Points : e \in Cover(world, t) <=> e \in Goal(world, q)
  <1> DEFINE X == q.starts
             sf == q.routes = <<>>
             t == Round(s, TRUE, sf, X)
  <1>1. X \in SUBSET Ids /\ X \subseteq Points /\ sf \in BOOLEAN
    BY QueryFacts DEF Ids
  <1>2. sf <=> q.routes = <<>>
    OBVIOUS
  <1> HIDE DEF X, sf
  <1>3. Rounds(t, s, TRUE, sf, X)
    BY <1>1, RoundIs
  <1> HIDE DEF t
  <1>4. Len(q.routes) \in Nat /\ Len(q.routes) <= MaxRoutes /\ Done(t) = 0
    <2>1. Len(q.routes) \in Nat /\ Len(q.routes) <= MaxRoutes
      BY QueryFacts
    <2>2. Done(t) = Len(q.routes) - Len(q.routes)
      BY <1>3 DEF Done, Rounds
    <2> QED
      BY <2>1, <2>2
  <1>5. SearchOK(t)
    <2>1. \A k \in 1 .. Len(q.routes) : 0 + k = k
      BY <1>4
    <2> QED
      BY <1>1, <1>2, <1>3, <1>4, <2>1 DEF SearchOK, Rounds
  <1>6. Work(world, t, t.mids) = {}
    <2>1. \A k \in 1 .. Len(t.routes) : t.mids[k] = Nothing
      <3>1. \A k \in 1 .. Len(q.routes) : k \in 1 .. MaxRoutes
        BY <1>4, SearchAssumption
      <3> QED
        BY <1>3, <3>1, RefusedIs DEF Rounds
    <2>2. \A e \in Points : e \notin Work(world, t, t.mids)
      BY <2>1, WorkIs, NothingLeft
    <2> QED
      BY <2>2 DEF Work
  <1>7. ShareOf(world, t, X) = Goal(world, q)
    <2>1. CASE sf
      <3>1. Begin(world, q) = {p \in X : Passes(world, q, p)}
        BY <1>2, <2>1 DEF Begin, X
      <3>2. ByPoints(world, q, 0, X) = From(world, q, 0, Begin(world, q))
        BY <3>1 DEF ByPoints, From
      <3> QED
        BY <1>3, <1>4, <2>1, <3>2 DEF ShareOf, Goal, Rounds
    <2>2. CASE ~sf
      <3>1. Begin(world, q) = X \intersect world.points
        BY <1>2, <2>2 DEF Begin, X
      <3> QED
        BY <1>3, <1>4, <2>2, <3>1 DEF ShareOf, Goal, Rounds
    <2> QED
      BY <2>1, <2>2
  <1>8. \A e \in Points : e \in Cover(world, t) <=> e \in Goal(world, q)
    BY <1>3, <1>6, <1>7, CoverOfRound DEF Rounds
  <1> QED
    BY <1>3, <1>5, <1>8 DEF Rounds, t, sf, X
-----------------------------------------------------------------------------
(* The steps.                                                              *)
LEMMA SearchInitial == SearchInit => SearchIInv
  <1> SUFFICES ASSUME SearchInit PROVE SearchIInv
    OBVIOUS
  <1>1. world \in Worlds /\ world \in WorldSet /\ Len(world.plan) \in Nat
    BY SearchAssumption, WorldFacts DEF SearchInit
  <1>2. <<>> \in Seq(RequestSet) /\ <<>> \in Seq(ReplySet)
    OBVIOUS
  <1>3. SearchKinds
    <2>1. /\ requests \in [Nodes -> Seq(RequestSet)] /\ replies \in [Nodes -> Seq(ReplySet)]
          /\ \A n \in Nodes : DOMAIN requests[n] = {}
      BY <1>2 DEF SearchInit
    <2>2. asked \in 0 .. Len(world.plan) /\ mark \in [Points -> 0 .. asked]
      BY <1>1 DEF SearchInit
    <2>3. failed \in BOOLEAN
      BY Zenon DEF SearchInit
    <2> QED
      BY <1>1, <2>1, <2>2, <2>3 DEF SearchInit, SearchKinds
  <1> QED
    BY <1>3 DEF SearchInit, SearchIInv, NetInv, ReplyInv, CoverInv, MarkInv, AnswerInv, Waits

\* When a search fails the connections its replies are still on are closed,
\* or the failure is remembered.
LEMMA FailKeeps ==
  ASSUME SearchIInv, NEW S \in SUBSET Nodes, Fail(S)
  PROVE  SearchIInv'
  <1>1. /\ world' = world /\ asked' = asked /\ mark' = mark /\ search' = None /\ failed' = TRUE /\ answer' = None
        /\ requests' = [n \in Nodes |-> IF n \in Closed(S) THEN <<>> ELSE requests[n]]
        /\ replies'  = [n \in Nodes |-> IF n \in Closed(S) THEN <<>> ELSE replies[n]]
    BY DEF Fail
  <1>2. SearchKinds'
    <2>1. SearchKinds
      BY DEF SearchIInv
    <2>2. requests' \in [Nodes -> Seq(RequestSet)] /\ replies' \in [Nodes -> Seq(ReplySet)]
      BY <1>1, <2>1 DEF SearchKinds
    <2>3. \A n \in Nodes : \A i \in DOMAIN requests'[n] : requests'[n][i].no <= asked
      BY <1>1, <2>1 DEF SearchKinds
    <2>4. failed' \in BOOLEAN
      BY <1>1, Zenon
    <2> QED
      BY <1>1, <2>1, <2>2, <2>3, <2>4 DEF SearchKinds
  <1>3. NetInv'
    <2> SUFFICES ASSUME Clean', NEW n \in Nodes PROVE requests'[n] = <<>> /\ replies'[n] = <<>>
      BY <1>1 DEF NetInv, Waits
    <2>1. world.sdk = "cpp"
      BY <1>1, KindFacts DEF Clean, SearchIInv
    <2> QED
      BY <1>1, <2>1 DEF Closed
  <1> QED
    BY <1>1, <1>2, <1>3 DEF SearchIInv, ReplyInv, CoverInv, MarkInv, AnswerInv, Waits

\* What holds of the connections a round goes on on.
LEMMA NetFacts ==
  ASSUME SearchIInv, Clean, NEW n \in Nodes
  PROVE  /\ ~Waits(n) => requests[n] = <<>> /\ replies[n] = <<>>
         /\ requests[n] # <<>> =>
              /\ Waits(n) /\ replies[n] = <<>>
              /\ \E opts \in BOOLEAN : requests[n] = <<Request(n, opts)>> /\ (world.sdk = "java" => opts)
         /\ replies[n] # <<>> =>
              Waits(n) /\ requests[n] = <<>> /\ \E x \in ReplySet : replies[n] = <<x>> /\ (world.sdk = "java" => x.ok)
  <1>1. IF Waits(n)
        THEN \/ /\ replies[n] = <<>>
                /\ \E opts \in BOOLEAN : requests[n] = <<Request(n, opts)>> /\ (world.sdk = "java" => opts)
             \/ /\ requests[n] = <<>>
                /\ \E x \in ReplySet : replies[n] = <<x>> /\ (world.sdk = "java" => x.ok)
        ELSE requests[n] = <<>> /\ replies[n] = <<>>
    BY DEF SearchIInv, NetInv
  <1>2. CASE ~Waits(n)
    BY <1>1, <1>2
  <1>3. CASE Waits(n) /\ replies[n] = <<>>
    BY <1>1, <1>3
  <1>4. CASE Waits(n) /\ replies[n] # <<>>
    BY <1>1, <1>4
  <1> QED
    BY <1>2, <1>3, <1>4

LEMMA ForgetKeeps ==
  ASSUME SearchIInv, NEW p \in Points, Forget(p)
  PROVE  SearchIInv'
  <1>1. /\ mark[p] # 0 /\ mark' = [mark EXCEPT ![p] = 0]
        /\ world' = world /\ search' = search /\ asked' = asked /\ requests' = requests /\ replies' = replies
        /\ failed' = failed /\ answer' = answer
    BY DEF Forget, net
  <1>2. SearchKinds /\ asked \in Nat /\ mark \in [Points -> 0 .. asked]
    BY KindFacts DEF SearchIInv
  <1>3. mark' \in [Points -> 0 .. asked]
    BY <1>1, <1>2
  <1>4. SearchKinds'
    BY <1>1, <1>2, <1>3 DEF SearchKinds
  <1>5. MarkInv'
    <2>1. asked # 0
      BY <1>1, <1>2
    <2>2. \A x \in Points : mark'[x] = asked => mark[x] = asked
      BY <1>1, <1>2, <2>1
    <2>3. Known' = Known /\ Clean' = Clean
      BY <1>1 DEF Known, Clean
    <2> QED
      BY <1>1, <2>2, <2>3 DEF SearchIInv, MarkInv
  <1> QED
    BY <1>1, <1>4, <1>5 DEF SearchIInv, NetInv, ReplyInv, CoverInv, AnswerInv, Clean, Waits, Request, Own, Gives, Known
LEMMA MoveKeeps ==
  ASSUME SearchIInv, Move
  PROVE  SearchIInv'
  <1> DEFINE q == world.plan[asked + 1]
             s0 == [query |-> q, routes |-> q.routes, found |-> {}, mids |-> Refused.mids,
                    fromPoint |-> TRUE, startFilter |-> TRUE, ids |-> {}, unsent |-> {}, unread |-> {}]
  <1>1. /\ search = None /\ asked < Len(world.plan) /\ asked' = asked + 1
        /\ search' = Round(s0, TRUE, q.routes = <<>>, q.starts)
        /\ world' = world /\ requests' = requests /\ replies' = replies /\ mark' = mark /\ failed' = failed
        /\ answer' = answer
    BY DEF Move, net
  <1>2. /\ SearchKinds /\ world \in WorldSet /\ asked \in Nat /\ mark \in [Points -> 0 .. asked]
        /\ world.plan \in Seq(QuerySet)
    BY KindFacts DEF SearchIInv
  <1>3. q \in QuerySet
    BY <1>1, <1>2
  <1> HIDE DEF q
  <1>4. s0 \in SearchSet
    <2>1. q.routes \in UNION {[1 .. n -> Routes] : n \in 0 .. MaxRoutes}
      BY <1>3 DEF QuerySet
    <2>2. Refused.mids \in MidsSet
      BY RefusedIs DEF ReplySet
    <2> QED
      BY <1>3, <2>1, <2>2, Zenon DEF SearchSet
  <1>5. s0.query = q /\ s0.routes = q.routes /\ s0.found = {} /\ s0.mids = Refused.mids
    OBVIOUS
  <1> HIDE DEF s0
  <1>6. /\ SearchOK(search') /\ search'.query = q /\ search'.unsent = search'.unread
        /\ \A e \in Points : e \in Cover(world, search') <=> e \in Goal(world, q)
    BY <1>1, <1>2, <1>3, <1>4, <1>5, BeginsWithGoal
  <1>7. SearchKinds'
    <2>1. asked' \in 0 .. Len(world.plan) /\ mark \in [Points -> 0 .. asked']
      <3>1. Len(world.plan) \in Nat
        BY <1>2
      <3>2. asked' \in 0 .. Len(world.plan) /\ \A x \in 0 .. asked : x \in 0 .. asked'
        BY <1>1, <1>2, <3>1
      <3> QED
        BY <1>2, <3>2
    <2>2. \A n \in Nodes : \A i \in DOMAIN requests[n] : requests[n][i].no <= asked'
      <3> SUFFICES ASSUME NEW n \in Nodes, NEW i \in DOMAIN requests[n] PROVE requests[n][i].no <= asked'
        OBVIOUS
      <3>1. requests[n][i].no <= asked
        BY <1>2 DEF SearchKinds
      <3>2. requests[n][i] \in RequestSet
        BY <1>2 DEF SearchKinds
      <3>3. requests[n][i].no \in Nat
        BY <3>2 DEF RequestSet
      <3> QED
        BY <1>1, <1>2, <3>1, <3>3
    <2> QED
      BY <1>1, <1>2, <1>6, <2>1, <2>2 DEF SearchKinds
  <1>8. \A n \in Nodes : ~Waits(n) /\ ~Waits(n)'
    BY <1>1, <1>6 DEF Waits
  <1>9. NetInv'
    <2>1. \A n \in Nodes : Clean => requests[n] = <<>> /\ replies[n] = <<>>
      BY <1>8, NetFacts
    <2> QED
      BY <1>1, <1>8, <2>1 DEF NetInv, Clean
  <1>10. ReplyInv'
    BY <1>8 DEF ReplyInv
  <1>11. CoverInv'
    <2>1. \A e : e \in Cover(world, search') => e \in Points
      BY DEF Cover
    <2>2. \A e : e \in Goal(world, q) => e \in Points
      BY DEF Goal, From
    <2> QED
      BY <1>1, <1>6, <2>1, <2>2 DEF CoverInv
  <1>12. MarkInv'
    <2>1. \A p \in Points : mark[p] # asked'
      <3> SUFFICES ASSUME NEW p \in Points PROVE mark[p] # asked'
        OBVIOUS
      <3>1. mark[p] \in 0 .. asked
        BY <1>2
      <3> QED
        BY <1>1, <1>2, <3>1
    <2> QED
      BY <1>1, <2>1 DEF MarkInv
  <1>13. AnswerInv'
    BY <1>1 DEF AnswerInv, SearchIInv
  <1> QED
    BY <1>7, <1>9, <1>10, <1>11, <1>12, <1>13 DEF SearchIInv

\* Search s is at the same round as search t.
SameRound(s, t) ==
  /\ t.query = s.query /\ t.routes = s.routes /\ t.fromPoint = s.fromPoint
  /\ t.startFilter = s.startFilter /\ t.ids = s.ids

LEMMA SameRoundIs ==
  ASSUME NEW w, NEW s, NEW t, SameRound(s, t)
  PROVE  (\A n : Share(w, t, n) = Share(w, s, n)) /\ (\A m : Work(w, t, m) = Work(w, s, m))
  BY SameShare, SameWork DEF SameRound

\* A request has gone out, with the options or without.
LEMMA SentKeeps ==
  ASSUME SearchIInv, NEW n \in Nodes, NEW opts \in BOOLEAN, world.sdk = "java" => opts,
         search # None, n \in search.unsent, Sent(n),
         Clean => requests' = [requests EXCEPT ![n] = <<Request(n, opts)>>] /\ replies' = replies,
         requests' \in [Nodes -> Seq(RequestSet)], replies' \in [Nodes -> Seq(ReplySet)],
         \A k \in Nodes : \A i \in DOMAIN requests'[k] : requests'[k][i].no <= asked,
         UNCHANGED <<world, asked, mark, failed, answer>>
  PROVE  SearchIInv'
  <1>1. /\ SearchKinds /\ SearchOK(search) /\ search \in SearchSet /\ search.unsent \subseteq search.unread
        /\ search.unread \subseteq Nodes
        /\ requests \in [Nodes -> Seq(RequestSet)] /\ replies \in [Nodes -> Seq(ReplySet)]
    BY KindFacts, SearchFacts DEF SearchIInv
  <1>2. /\ SameRound(search, search') /\ search' \in SearchSet /\ search'.found = search.found
        /\ search'.mids = search.mids /\ search'.unread = search.unread /\ search'.unsent = search.unsent \ {n}
    BY <1>1 DEF Sent, SearchSet, SameRound
  <1>3. search' # None
    BY <1>2, SearchAssumption
  <1>4. SearchOK(search')
    <2>1. Done(search') = Done(search)
      BY <1>2 DEF Done, SameRound
    <2> HIDE DEF Sent
    <2> QED
      BY <1>1, <1>2, <2>1 DEF SearchOK, SameRound
  <1>5. SearchKinds'
    BY <1>1, <1>4 DEF SearchKinds
  <1>6. /\ \A k \in Nodes : k # n => (Waits(k)' <=> Waits(k))
        /\ Waits(n)' /\ ~Waits(n)
    BY <1>1, <1>2, <1>3 DEF Waits
  <1>7. \A k, o : Request(k, o)' = Request(k, o)
    BY <1>2 DEF Request, Own, SameRound
  <1>8. Clean' = Clean
    BY DEF Clean
  <1>9. NetInv'
    <2> SUFFICES ASSUME Clean, NEW k \in Nodes
                 PROVE  IF Waits(k)'
                        THEN \/ /\ replies'[k] = <<>>
                                /\ \E o \in BOOLEAN : requests'[k] = <<Request(k, o)>> /\ (world.sdk = "java" => o)
                             \/ /\ requests'[k] = <<>>
                                /\ \E x \in ReplySet : replies'[k] = <<x>> /\ (world.sdk = "java" => x.ok)
                        ELSE requests'[k] = <<>> /\ replies'[k] = <<>>
      BY <1>7, <1>8 DEF NetInv
    <2>1. CASE k = n
      <3>1. requests'[n] = <<Request(n, opts)>> /\ replies'[n] = <<>>
        BY <1>1, <1>6, NetFacts
      <3> QED
        BY <1>6, <2>1, <3>1
    <2>2. CASE k # n
      <3>1. requests'[k] = requests[k] /\ replies'[k] = replies[k] /\ (Waits(k)' <=> Waits(k))
        BY <1>1, <1>6, <2>2
      <3> QED
        BY <3>1 DEF SearchIInv, NetInv
    <2> QED
      BY <2>1, <2>2
  <1>10. (\A k : Share(world, search', k) = Share(world, search, k)) /\ (\A m : Work(world, search', m) = Work(world, search, m))
    <2> DEFINE t == search'
               s == search
               w == world
    <2>1. SameRound(s, t)
      BY <1>2
    <2> HIDE DEF s, t, w
    <2>2. (\A k : Share(w, t, k) = Share(w, s, k)) /\ (\A m : Work(w, t, m) = Work(w, s, m))
      BY <2>1, SameRoundIs, Zenon
    <2> QED
      BY <2>2 DEF s, t, w
  <1>12. Clean => Known' = Known
    BY <1>2 DEF Known
  <1>13. ReplyInv'
    <2> SUFFICES ASSUME Clean, NEW k \in Nodes, Waits(k)', replies[k] # <<>>
                 PROVE  LET x == Head(replies[k])
                        IN /\ Gives(x)' \subseteq Share(world, search', k)
                           /\ world.sdk = "java" => Share(world, search', k) \subseteq Gives(x)' \union Known
      BY <1>8, <1>12 DEF ReplyInv
    <2>1. Waits(k)
      BY NetFacts
    <2>2. \A x : Gives(x)' = Gives(x)
      BY <1>10 DEF Gives
    <2> QED
      BY <1>10, <2>1, <2>2 DEF SearchIInv, ReplyInv
  <1>14. CoverInv'
    <2>1. Cover(world, search') = Cover(world, search)
      BY <1>2, <1>10 DEF Cover
    <2> QED
      BY <1>2, <1>3, <1>8, <2>1 DEF SearchIInv, CoverInv, SameRound, Sent
  <1>15. MarkInv'
    BY <1>2, <1>8, <1>12 DEF SearchIInv, MarkInv, SameRound, Sent
  <1> QED
    BY <1>5, <1>9, <1>13, <1>14, <1>15 DEF SearchIInv, AnswerInv
LEMMA SendKeeps ==
  ASSUME SearchIInv, NEW n \in Nodes, Send(n) \/ Resend(n)
  PROVE  SearchIInv'
  <1>1. /\ search # None /\ search.unsent # {} /\ n = First(search.unsent) /\ Sent(n)
        /\ UNCHANGED <<world, asked, mark, failed, answer>>
    BY DEF Send, Resend, Sending
  <1>2. /\ SearchKinds /\ SearchOK(search) /\ search.unsent \subseteq Nodes /\ asked \in Nat /\ world.sdk \in {"java", "cpp"}
        /\ requests \in [Nodes -> Seq(RequestSet)] /\ replies \in [Nodes -> Seq(ReplySet)]
        /\ \A k \in Nodes : \A i \in DOMAIN requests[k] : requests[k][i].no <= asked
    BY <1>1, KindFacts, SearchFacts DEF SearchIInv, SearchKinds
  <1>3. n \in search.unsent
    <2>1. search.unsent \in SUBSET Nat
      BY <1>2, SearchAssumption
    <2> QED
      BY <1>1, <2>1, FirstIs
  <1>4. ~Waits(n)
    BY <1>3 DEF Waits
  <1>5. CASE Send(n)
    <2> DEFINE r == Request(n, TRUE)
    <2>1. r \in RequestSet /\ r.no = asked
      BY <1>1, <1>2, RequestIs
    <2>2. requests' = [requests EXCEPT ![n] = Append(@, r)] /\ replies' = replies
      BY <1>5 DEF Send
    <2> HIDE DEF r
    <2>3. requests' \in [Nodes -> Seq(RequestSet)]
      BY <1>2, <2>1, <2>2
    <2>4. \A k \in Nodes : \A i \in DOMAIN requests'[k] : requests'[k][i].no <= asked
      <3> SUFFICES ASSUME NEW k \in Nodes, NEW i \in DOMAIN requests'[k] PROVE requests'[k][i].no <= asked
        OBVIOUS
      <3>1. CASE k # n
        BY <1>2, <2>2, <3>1
      <3>2. CASE k = n
        <4>1. requests'[n] = Append(requests[n], r) /\ requests[n] \in Seq(RequestSet)
          BY <1>2, <2>2
        <4>2. i \in DOMAIN requests[n] \/ requests'[n][i] = r
          BY <3>2, <4>1
        <4>3. i \in DOMAIN requests[n] => requests'[n][i] = requests[n][i]
          BY <4>1
        <4> QED
          BY <1>2, <2>1, <3>2, <4>2, <4>3
      <3> QED
        BY <3>1, <3>2
    <2>5. Clean => requests' = [requests EXCEPT ![n] = <<r>>]
      <3> SUFFICES ASSUME Clean PROVE requests' = [requests EXCEPT ![n] = <<r>>]
        OBVIOUS
      <3>1. requests[n] = <<>>
        BY <1>4, NetFacts
      <3>2. Append(requests[n], r) = <<r>>
        BY <3>1
      <3> QED
        BY <2>2, <3>2
    <2> QED
      BY <1>1, <1>2, <1>3, <2>2, <2>3, <2>4, <2>5, SentKeeps DEF r
  <1>6. CASE Resend(n)
    <2> DEFINE r == Request(n, FALSE)
    <2>1. r \in RequestSet /\ r.no = asked
      BY <1>1, <1>2, RequestIs
    <2>2. requests' = [requests EXCEPT ![n] = <<r>>] /\ replies' = [replies EXCEPT ![n] = <<>>] /\ world.sdk = "cpp"
      BY <1>6 DEF Resend
    <2> HIDE DEF r
    <2>3. requests' \in [Nodes -> Seq(RequestSet)] /\ replies' \in [Nodes -> Seq(ReplySet)]
      BY <1>2, <2>1, <2>2
    <2>4. \A k \in Nodes : \A i \in DOMAIN requests'[k] : requests'[k][i].no <= asked
      <3> SUFFICES ASSUME NEW k \in Nodes, NEW i \in DOMAIN requests'[k] PROVE requests'[k][i].no <= asked
        OBVIOUS
      <3>1. CASE k # n
        BY <1>2, <2>2, <3>1
      <3>2. CASE k = n
        <4>1. requests'[k][i] = r
          BY <1>2, <2>2, <3>2
        <4> QED
          BY <1>2, <2>1, <4>1
      <3> QED
        BY <3>1, <3>2
    <2>5. Clean => replies' = replies
      <3> SUFFICES ASSUME Clean PROVE replies' = replies
        OBVIOUS
      <3>1. replies[n] = <<>>
        BY <1>4, NetFacts
      <3> QED
        BY <1>2, <2>2, <3>1
    <2> QED
      BY <1>1, <1>2, <1>3, <2>2, <2>3, <2>4, <2>5, SentKeeps DEF r
  <1> QED
    BY <1>5, <1>6

LEMMA FailuresKeep ==
  ASSUME SearchIInv, NEW n \in Nodes, SendFails(n) \/ ReadRefusal(n) \/ ReadFails(n)
  PROVE  SearchIInv'
  <1>1. PICK S \in {{}, {n}} : Fail(S)
    BY DEF SendFails, ReadRefusal, ReadFails
  <1>2. S \in SUBSET Nodes
    OBVIOUS
  <1> QED
    BY <1>1, <1>2, FailKeeps

\* The next round of a search.
LEMMA NextRoundKeeps ==
  ASSUME SearchIInv, search # None, search.unread = {},
         SearchOK(search'), search'.query = search.query, search'.found = search.found,
         search'.unsent = search'.unread,
         \A e \in Points : e \in Cover(world, search') => e \in Cover(world, search),
         world.sdk = "java" => \A e \in Points : e \in Cover(world, search) => e \in Cover(world, search'),
         UNCHANGED <<world, asked, net, mark, failed, answer>>
  PROVE  SearchIInv'
  <1>1. world' = world /\ asked' = asked /\ requests' = requests /\ replies' = replies /\ mark' = mark
        /\ failed' = failed /\ answer' = answer
    BY DEF net
  <1>2. SearchKinds'
    BY <1>1 DEF SearchIInv, SearchKinds
  <1>3. \A n \in Nodes : ~Waits(n) /\ ~Waits(n)'
    BY DEF Waits
  <1>4. NetInv'
    <2>1. \A n \in Nodes : Clean => requests[n] = <<>> /\ replies[n] = <<>>
      BY <1>3, NetFacts
    <2> QED
      BY <1>1, <1>3, <2>1 DEF NetInv, Clean
  <1>5. ReplyInv'
    BY <1>3 DEF ReplyInv
  <1>6. CoverInv'
    <2>1. \A s, e : e \in Cover(world, s) => e \in Points
      BY DEF Cover
    <2>2. \A q, e : e \in Goal(world, q) => e \in Points
      BY DEF Goal, From
    <2> QED
      BY <1>1, <2>1, <2>2 DEF SearchIInv, CoverInv, Clean
  <1>7. MarkInv'
    <2>1. \A e : e \in Known => e \in Known'
      BY DEF Known
    <2> QED
      BY <1>1, <2>1 DEF SearchIInv, MarkInv, Clean
  <1>8. AnswerInv'
    BY <1>1 DEF SearchIInv, AnswerInv
  <1> QED
    BY <1>2, <1>4, <1>5, <1>6, <1>7, <1>8 DEF SearchIInv

LEMMA BetweenRounds ==
  ASSUME NEW w, NEW s, s.unread = {}, NEW e \in Points
  PROVE  e \in Cover(w, s) <=> e \in s.found \/ e \in Work(w, s, s.mids)
  BY DEF Cover

LEMMA AfterLinesKeeps ==
  ASSUME SearchIInv, AfterLines
  PROVE  SearchIInv'
  <1>1. search # None /\ search.unread = {} /\ search.fromPoint # TRUE /\ search' = OverPoints(search)
        /\ UNCHANGED <<world, asked, net, mark, failed, answer>>
    BY DEF AfterLines, Turn
  <1>2. SearchOK(search) /\ world \in WorldSet /\ search.routes # <<>> /\ ~search.fromPoint
    BY <1>1, KindFacts DEF SearchIInv, SearchOK, AfterLines
  <1>3. /\ SearchOK(search') /\ search'.query = search.query /\ search'.found = search.found
        /\ search'.unsent = search'.unread
        /\ \A e \in Points : e \in Cover(world, search') <=> e \in search.found \/ e \in Work(world, search, search.mids)
    BY <1>1, <1>2, OverPointsIs
  <1>4. \A e \in Points : e \in Cover(world, search') <=> e \in Cover(world, search)
    BY <1>1, <1>3, BetweenRounds
  <1> QED
    BY <1>1, <1>3, <1>4, NextRoundKeeps

LEMMA OverLinesKeeps ==
  ASSUME SearchIInv, OverLines
  PROVE  SearchIInv'
  <1> DEFINE s == Remaining(search)
  <1>1. /\ search # None /\ search.unread = {} /\ search.fromPoint /\ Undone(search) # {}
        /\ search' = IF s.mids[1].lines # {} THEN Round(s, FALSE, TRUE, s.mids[1].lines) ELSE OverPoints(s)
        /\ UNCHANGED <<world, asked, net, mark, failed, answer>>
    BY DEF OverLines, Turn
  <1>2. SearchOK(search) /\ world \in WorldSet /\ search.fromPoint = TRUE
    BY <1>1, KindFacts, SearchFacts DEF SearchIInv
  <1>3. /\ SearchOK(s) /\ s.routes # <<>> /\ s.fromPoint = TRUE /\ s.query = search.query /\ s.found = search.found
        /\ \A e \in Points :
              /\ e \in Work(world, s, s.mids) => e \in Work(world, search, search.mids)
              /\ world.sdk = "java" /\ e \in Work(world, search, search.mids) => e \in Work(world, s, s.mids)
    BY <1>1, <1>2, RemainingIs
  <1> HIDE DEF s
  <1>4. /\ SearchOK(search') /\ search'.query = search.query /\ search'.found = search.found
        /\ search'.unsent = search'.unread
        /\ \A e \in Points : e \in Cover(world, search') <=> e \in search.found \/ e \in Work(world, s, s.mids)
    <2>1. CASE s.mids[1].lines # {}
      BY <1>1, <1>2, <1>3, <2>1, LinesRound
    <2>2. CASE s.mids[1].lines = {}
      BY <1>1, <1>2, <1>3, <2>2, OverPointsIs
    <2> QED
      BY <2>1, <2>2
  <1>5. /\ \A e \in Points : e \in Cover(world, search') => e \in Cover(world, search)
        /\ world.sdk = "java" => \A e \in Points : e \in Cover(world, search) => e \in Cover(world, search')
    BY <1>1, <1>3, <1>4, BetweenRounds
  <1> QED
    BY <1>1, <1>4, <1>5, NextRoundKeeps

LEMMA ReturnKeeps ==
  ASSUME SearchIInv, Return
  PROVE  SearchIInv'
  <1>1. /\ search # None /\ search.unread = {} /\ Undone(search) = {} /\ search' = None
        /\ answer' = [query |-> search.query, found |-> search.found, clean |-> ~failed]
        /\ world' = world /\ asked' = asked /\ requests' = requests /\ replies' = replies /\ mark' = mark
        /\ failed' = failed
    BY DEF Return, Turn, net
  <1>2. SearchOK(search) /\ search.query \in QuerySet /\ search.found \subseteq Points
    BY <1>1, KindFacts, SearchFacts DEF SearchIInv
  <1>3. SearchKinds'
    BY <1>1 DEF SearchIInv, SearchKinds
  <1>4. \A n \in Nodes : ~Waits(n) /\ ~Waits(n)'
    BY <1>1 DEF Waits
  <1>5. NetInv'
    <2>1. \A n \in Nodes : Clean => requests[n] = <<>> /\ replies[n] = <<>>
      BY <1>4, NetFacts
    <2> QED
      BY <1>1, <1>4, <2>1 DEF NetInv, Clean
  <1>6. Cover(world, search) = search.found
    <2>1. Work(world, search, search.mids) = {}
      BY <1>1, NoWorkLeft
    <2>2. \A e \in Points : e \in Cover(world, search) <=> e \in search.found
      BY <1>1, <2>1, BetweenRounds
    <2>3. Cover(world, search) \subseteq Points
      BY DEF Cover
    <2> QED
      BY <1>2, <2>2, <2>3
  <1>7. AnswerInv'
    <2>1. Clean => search.found \subseteq Goal(world, search.query)
      BY <1>1, <1>6 DEF SearchIInv, CoverInv
    <2>2. Clean /\ world.sdk = "java" => search.found = Goal(world, search.query)
      BY <1>1, <1>6, <2>1 DEF SearchIInv, CoverInv
    <2>3. answer'.query = search.query /\ answer'.found = search.found /\ (answer'.clean <=> ~failed)
      BY <1>1
    <2>4. (world.sdk = "cpp" => Clean) /\ (~failed => Clean)
      BY DEF Clean
    <2> QED
      BY <1>1, <1>2, <2>1, <2>2, <2>3, <2>4 DEF AnswerInv
  <1> QED
    BY <1>1, <1>3, <1>4, <1>5, <1>7 DEF SearchIInv, ReplyInv, CoverInv, MarkInv
LEMMA ReadKeeps ==
  ASSUME SearchIInv, NEW n \in Nodes, Read(n)
  PROVE  SearchIInv'
  <1> DEFINE x == Head(replies[n])
  <1>1. /\ search # None /\ search.unsent = {} /\ search.unread # {} /\ n = First(search.unread) /\ replies[n] # <<>>
        /\ search' = [search EXCEPT !.unread = @ \ {n}, !.found = @ \union x.ends, !.mids = Merged(@, x.mids)]
        /\ replies' = [replies EXCEPT ![n] = Tail(@)]
        /\ world' = world /\ asked' = asked /\ requests' = requests /\ mark' = mark /\ failed' = failed
        /\ answer' = answer
    BY DEF Read, Reading
  <1>2. /\ SearchKinds /\ SearchOK(search) /\ search \in SearchSet /\ search.unread \subseteq Nodes /\ search.mids \in MidsSet
        /\ search.found \subseteq Points /\ search.query \in QuerySet
        /\ requests \in [Nodes -> Seq(RequestSet)] /\ replies \in [Nodes -> Seq(ReplySet)]
    BY <1>1, KindFacts, SearchFacts DEF SearchIInv
  <1>3. x \in ReplySet /\ x.ends \subseteq Points /\ x.mids \in MidsSet
    <2>1. replies[n] \in Seq(ReplySet)
      BY <1>2
    <2>2. x \in ReplySet
      BY <1>1, <2>1
    <2> QED
      BY <2>2 DEF ReplySet
  <1>4. n \in search.unread
    <2>1. search.unread \in SUBSET Nat
      BY <1>2, SearchAssumption
    <2> QED
      BY <1>1, <2>1, FirstIs
  <1> HIDE DEF x
  <1>5. Merged(search.mids, x.mids) \in MidsSet
    BY <1>3, <1>2 DEF Merged, MidsSet
  <1>6. /\ SameRound(search, search') /\ search' \in SearchSet /\ search'.found = search.found \union x.ends
        /\ search'.mids = Merged(search.mids, x.mids) /\ search'.unread = search.unread \ {n} /\ search'.unsent = {}
    BY <1>1, <1>2, <1>3, <1>5 DEF SearchSet, SameRound
  <1>7. search' # None
    BY <1>6, SearchAssumption
  <1>8. SearchOK(search')
    <2>1. Done(search') = Done(search)
      BY <1>6 DEF Done, SameRound
    <2> QED
      BY <1>2, <1>6, <2>1 DEF SearchOK, SameRound
  <1>9. SearchKinds'
    <2>1. replies' \in [Nodes -> Seq(ReplySet)]
      BY <1>1, <1>2
    <2> QED
      BY <1>1, <1>2, <1>8, <2>1 DEF SearchKinds
  <1>10. \A k \in Nodes : /\ k # n => (Waits(k)' <=> Waits(k)) /\ replies'[k] = replies[k]
                          /\ ~Waits(n)' /\ Waits(n)
    BY <1>1, <1>2, <1>4, <1>6, <1>7 DEF Waits
  <1>11. \A k, o : Request(k, o)' = Request(k, o)
    BY <1>1, <1>6 DEF Request, Own, SameRound
  <1>12. Clean' = Clean
    BY <1>1 DEF Clean
  <1>13. Clean => requests[n] = <<>> /\ replies[n] = <<x>> /\ replies'[n] = <<>>
    <2> SUFFICES ASSUME Clean PROVE requests[n] = <<>> /\ replies[n] = <<x>> /\ replies'[n] = <<>>
      OBVIOUS
    <2>1. requests[n] = <<>> /\ \E y \in ReplySet : replies[n] = <<y>>
      BY <1>1, NetFacts
    <2> QED
      BY <1>1, <1>2, <2>1 DEF x
  <1>14. NetInv'
    <2> SUFFICES ASSUME Clean, NEW k \in Nodes
                 PROVE  IF Waits(k)'
                        THEN \/ /\ replies'[k] = <<>>
                                /\ \E o \in BOOLEAN : requests[k] = <<Request(k, o)>> /\ (world.sdk = "java" => o)
                             \/ /\ requests[k] = <<>>
                                /\ \E y \in ReplySet : replies'[k] = <<y>> /\ (world.sdk = "java" => y.ok)
                        ELSE requests[k] = <<>> /\ replies'[k] = <<>>
      BY <1>1, <1>11, <1>12 DEF NetInv
    <2>1. CASE k = n
      BY <1>10, <1>13, <2>1
    <2>2. CASE k # n
      BY <1>10, <2>2 DEF SearchIInv, NetInv
    <2> QED
      BY <2>1, <2>2
  <1>15. (\A k : Share(world, search', k) = Share(world, search, k)) /\ (\A m : Work(world, search', m) = Work(world, search, m))
    <2> DEFINE t == search'
               s == search
               w == world
    <2>1. SameRound(s, t)
      BY <1>6
    <2> HIDE DEF s, t, w
    <2>2. (\A k : Share(w, t, k) = Share(w, s, k)) /\ (\A m : Work(w, t, m) = Work(w, s, m))
      BY <2>1, SameRoundIs, Zenon
    <2> QED
      BY <2>2 DEF s, t, w
  <1>16. Clean => \A e \in Points : e \in Known <=> e \in Known'
    <2> SUFFICES ASSUME Clean, NEW e \in Points PROVE e \in Known <=> e \in Known'
      OBVIOUS
    <2>1. e \in Known <=> e \in search.found \/ \E k \in search.unread : replies[k] # <<>> /\ e \in Head(replies[k]).ends
      BY DEF Known
    <2>2. e \in Known' <=> e \in search.found \/ e \in x.ends
                             \/ \E k \in search.unread \ {n} : replies'[k] # <<>> /\ e \in Head(replies'[k]).ends
      BY <1>6 DEF Known
    <2>3. \A k \in search.unread \ {n} : replies'[k] = replies[k]
      BY <1>2, <1>10
    <2>4. replies[n] # <<>> /\ Head(replies[n]) = x
      BY <1>1 DEF x
    <2> QED
      BY <1>4, <2>1, <2>2, <2>3, <2>4
  <1>18. ReplyInv'
    <2> DEFINE Given(y, t) == {e \in Points : e \in y.ends \/ e \in Work(world, t, y.mids)}
    <2> SUFFICES ASSUME Clean, NEW k \in Nodes, Waits(k)', replies'[k] # <<>>
                 PROVE  /\ Given(Head(replies'[k]), search') \subseteq Share(world, search', k)
                        /\ world.sdk = "java" => Share(world, search', k) \subseteq Given(Head(replies'[k]), search') \union Known'
      BY <1>1, <1>12 DEF ReplyInv, Gives
    <2>1. k # n /\ Waits(k) /\ replies'[k] = replies[k]
      BY <1>10
    <2>2. \A e : e \in Share(world, search, k) => e \in Points
      BY DEF Share, ShareOf, ByLines, ByPoints, From
    <2>3. /\ Given(Head(replies[k]), search) \subseteq Share(world, search, k)
          /\ world.sdk = "java" => Share(world, search, k) \subseteq Given(Head(replies[k]), search) \union Known
      BY <2>1 DEF SearchIInv, ReplyInv, Gives
    <2>4. Given(Head(replies'[k]), search') = Given(Head(replies[k]), search)
      BY <1>15, <2>1
    <2> HIDE DEF Given
    <2> QED
      BY <1>15, <1>16, <2>1, <2>2, <2>3, <2>4
  <1>19. CoverInv'
    <2> SUFFICES ASSUME Clean
                 PROVE  /\ Cover(world, search') \subseteq Goal(world, search.query)
                        /\ world.sdk = "java" => Goal(world, search.query) \subseteq Cover(world, search')
      BY <1>1, <1>6, <1>12 DEF CoverInv, SameRound
    <2>1. \A e \in Points : e \in Cover(world, search') <=>
            \/ e \in search.found \/ e \in x.ends
            \/ e \in Work(world, search, search.mids) \/ e \in Work(world, search, x.mids)
            \/ \E k \in search.unread \ {n} : e \in Share(world, search, k)
      <3> SUFFICES ASSUME NEW e \in Points
                   PROVE  e \in Cover(world, search') <=>
                            \/ e \in search.found \/ e \in x.ends
                            \/ e \in Work(world, search, search.mids) \/ e \in Work(world, search, x.mids)
                            \/ \E k \in search.unread \ {n} : e \in Share(world, search, k)
        OBVIOUS
      <3>1. e \in Work(world, search, Merged(search.mids, x.mids)) <=>
              e \in Work(world, search, search.mids) \/ e \in Work(world, search, x.mids)
        BY <1>2, <1>3, MergedWork
      <3> QED
        BY <1>6, <1>15, <3>1 DEF Cover
    <2>2. \A e \in Points : e \in Cover(world, search) <=>
            \/ e \in search.found \/ e \in Work(world, search, search.mids)
            \/ \E k \in search.unread : e \in Share(world, search, k)
      BY DEF Cover
    <2>3. \A k \in search.unread : replies[k] # <<>> =>
            /\ Gives(Head(replies[k])) \subseteq Share(world, search, k)
            /\ world.sdk = "java" => Share(world, search, k) \subseteq Gives(Head(replies[k])) \union Known
      BY <1>1, <1>2 DEF SearchIInv, ReplyInv, Waits
    <2>4. \A k, e : replies[k] # <<>> /\ e \in Points =>
            (e \in Gives(Head(replies[k])) <=> e \in Head(replies[k]).ends \/ e \in Work(world, search, Head(replies[k]).mids))
      BY DEF Gives
    <2>5. replies[n] # <<>> /\ Head(replies[n]) = x
      BY <1>1 DEF x
    <2>6. /\ Cover(world, search) \subseteq Goal(world, search.query)
          /\ world.sdk = "java" => Goal(world, search.query) \subseteq Cover(world, search)
      BY <1>1 DEF SearchIInv, CoverInv
    <2>7. (\A s : Cover(world, s) \subseteq Points) /\ Goal(world, search.query) \subseteq Points
      BY DEF Cover, Goal, From
    <2>8. ASSUME NEW e \in Points, e \in Cover(world, search')
          PROVE  e \in Cover(world, search)
      <3>1. e \in x.ends \/ e \in Work(world, search, x.mids) => e \in Share(world, search, n)
        BY <1>4, <2>3, <2>4, <2>5
      <3> QED
        BY <1>4, <2>1, <2>2, <2>8, <3>1
    <2>9. ASSUME NEW e \in Points, e \in Cover(world, search), world.sdk = "java"
          PROVE  e \in Cover(world, search')
      <3>1. CASE e \in Known
        <4>1. CASE e \in search.found
          BY <2>1, <4>1
        <4>2. CASE e \notin search.found
          <5>1. PICK k \in search.unread : replies[k] # <<>> /\ e \in Head(replies[k]).ends
            BY <3>1, <4>2 DEF Known
          <5>2. CASE k = n
            BY <2>1, <2>5, <5>1, <5>2
          <5>3. CASE k # n
            <6>1. e \in Share(world, search, k)
              BY <2>3, <2>4, <5>1
            <6> QED
              BY <2>1, <5>1, <5>3, <6>1
          <5> QED
            BY <5>2, <5>3
        <4> QED
          BY <4>1, <4>2
      <3>2. CASE e \notin Known
        <4>1. e \in Share(world, search, n) => e \in x.ends \/ e \in Work(world, search, x.mids)
          BY <1>4, <2>3, <2>4, <2>5, <2>9, <3>2
        <4> QED
          BY <2>1, <2>2, <2>9, <4>1
      <3> QED
        BY <3>1, <3>2
    <2> QED
      BY <2>6, <2>7, <2>8, <2>9
  <1>20. MarkInv'
    BY <1>1, <1>6, <1>12, <1>16 DEF SearchIInv, MarkInv, SameRound
  <1>21. AnswerInv'
    BY <1>1 DEF SearchIInv, AnswerInv
  <1> QED
    BY <1>9, <1>14, <1>18, <1>19, <1>20, <1>21 DEF SearchIInv
LEMMA ExecuteKeeps ==
  ASSUME SearchIInv, NEW n \in Nodes, OnMove(n)
  PROVE  SearchIInv'
  <1> DEFINE r == Head(requests[n])
             x == IF r.opts THEN Reply(n, r) ELSE Refused
  <1>1. /\ requests[n] # <<>>
        /\ requests' = [requests EXCEPT ![n] = Tail(@)]
        /\ replies' = [replies EXCEPT ![n] = Append(@, x)]
        /\ r.opts => mark' = [p \in Points |-> IF p \in MarkedBy(n, r) THEN r.no ELSE mark[p]]
        /\ ~r.opts => mark' = mark
        /\ world' = world /\ search' = search /\ asked' = asked /\ failed' = failed /\ answer' = answer
    BY DEF OnMove
  <1>2. /\ SearchKinds /\ world \in WorldSet /\ asked \in Nat /\ mark \in [Points -> 0 .. asked]
        /\ requests \in [Nodes -> Seq(RequestSet)] /\ replies \in [Nodes -> Seq(ReplySet)]
        /\ \A k \in Nodes : \A i \in DOMAIN requests[k] : requests[k][i].no <= asked
    BY KindFacts DEF SearchIInv, SearchKinds
  <1>3. r \in RequestSet /\ r.no \in 0 .. asked
    <2>1. requests[n] \in Seq(RequestSet)
      BY <1>2
    <2>2. r \in RequestSet /\ r = requests[n][1] /\ 1 \in DOMAIN requests[n]
      BY <1>1, <2>1
    <2>3. r.no <= asked /\ r.no \in Nat
      BY <1>2, <2>2 DEF RequestSet
    <2> QED
      BY <1>2, <2>2, <2>3
  <1> HIDE DEF r
  <1>4. x \in ReplySet
    BY <1>2, <1>3, ReplyIs, RefusedIs
  <1> HIDE DEF x
  <1>5. SearchKinds'
    <2>1. requests' \in [Nodes -> Seq(RequestSet)] /\ replies' \in [Nodes -> Seq(ReplySet)]
      <3>1. requests[n] \in Seq(RequestSet) /\ replies[n] \in Seq(ReplySet)
        BY <1>2
      <3>2. Tail(requests[n]) \in Seq(RequestSet) /\ Append(replies[n], x) \in Seq(ReplySet)
        BY <1>1, <1>4, <3>1
      <3> QED
        BY <1>1, <1>2, <3>2
    <2>2. mark' \in [Points -> 0 .. asked]
      BY <1>1, <1>2, <1>3
    <2>3. \A k \in Nodes : \A i \in DOMAIN requests'[k] : requests'[k][i].no <= asked
      <3> SUFFICES ASSUME NEW k \in Nodes, NEW i \in DOMAIN requests'[k] PROVE requests'[k][i].no <= asked
        OBVIOUS
      <3>1. CASE k # n
        BY <1>1, <1>2, <3>1
      <3>2. CASE k = n
        <4>1. requests'[n] = Tail(requests[n]) /\ requests[n] \in Seq(RequestSet)
          BY <1>1, <1>2
        <4>2. i + 1 \in DOMAIN requests[n] /\ requests'[n][i] = requests[n][i + 1]
          <5> DEFINE s == requests[n]
          <5>1. s \in Seq(RequestSet) /\ s # <<>> /\ i \in DOMAIN Tail(s)
            BY <1>1, <3>2, <4>1
          <5> HIDE DEF s
          <5>2. i + 1 \in DOMAIN s /\ Tail(s)[i] = s[i + 1]
            BY <5>1
          <5> QED
            BY <4>1, <5>2 DEF s
        <4> QED
          BY <1>2, <3>2, <4>2
      <3> QED
        BY <3>1, <3>2
    <2> QED
      BY <1>1, <1>2, <2>1, <2>2, <2>3 DEF SearchKinds
  <1>6. Clean' = Clean /\ \A k : Waits(k)' = Waits(k)
    BY <1>1 DEF Clean, Waits
  <1>7. \A k, o : Request(k, o)' = Request(k, o)
    BY <1>1 DEF Request, Own
  <1>8. AnswerInv'
    BY <1>1 DEF SearchIInv, AnswerInv
  <1>9. CASE ~Clean
    <2>1. NetInv' /\ ReplyInv' /\ CoverInv' /\ MarkInv'
      BY <1>6, <1>9 DEF NetInv, ReplyInv, CoverInv, MarkInv
    <2> QED
      BY <1>5, <1>8, <2>1 DEF SearchIInv
  <1>10. CASE Clean
    <2>1. Waits(n) /\ replies[n] = <<>> /\ \E opts \in BOOLEAN : requests[n] = <<Request(n, opts)>> /\ (world.sdk = "java" => opts)
      BY <1>1, <1>10, NetFacts
    <2>2. PICK opts \in BOOLEAN : requests[n] = <<Request(n, opts)>> /\ (world.sdk = "java" => opts)
      BY <2>1
    <2>3. r = Request(n, opts) /\ requests'[n] = <<>> /\ replies'[n] = <<x>>
      BY <1>1, <1>2, <2>1, <2>2 DEF r
    <2>4. search # None /\ n \in search.unread
      BY <2>1 DEF Waits
    <2>5. /\ r.no = asked /\ r.opts = opts /\ r.routes = search.routes /\ r.filter = search.query.filter
          /\ r.fromPoint = search.fromPoint /\ r.startFilter = search.startFilter
      BY <1>2, <2>3, <2>4, RequestIs
    <2>6. \A k \in Nodes : k # n => requests'[k] = requests[k] /\ replies'[k] = replies[k]
      BY <1>1, <1>2
    <2>7. NetInv'
      <3> SUFFICES ASSUME NEW k \in Nodes
                   PROVE  IF Waits(k)
                          THEN \/ /\ replies'[k] = <<>>
                                  /\ \E o \in BOOLEAN : requests'[k] = <<Request(k, o)>> /\ (world.sdk = "java" => o)
                               \/ /\ requests'[k] = <<>>
                                  /\ \E y \in ReplySet : replies'[k] = <<y>> /\ (world.sdk = "java" => y.ok)
                          ELSE requests'[k] = <<>> /\ replies'[k] = <<>>
        BY <1>1, <1>6, <1>7 DEF NetInv
      <3>1. CASE k = n
        <4>1. world.sdk = "java" => x.ok
          BY <1>2, <1>3, <2>2, <2>5, ReplyIs DEF x
        <4> QED
          BY <1>4, <2>1, <2>3, <3>1, <4>1
      <3>2. CASE k # n
        BY <1>10, <2>6, <3>2 DEF SearchIInv, NetInv
      <3> QED
        BY <3>1, <3>2
    <2>8. \A e \in Points : e \in Known => e \in Known'
      <3> SUFFICES ASSUME NEW e \in Points, e \in Known PROVE e \in Known'
        OBVIOUS
      <3>1. CASE e \in search.found
        BY <1>1, <3>1 DEF Known
      <3>2. CASE e \notin search.found
        <4>1. PICK k \in search.unread : replies[k] # <<>> /\ e \in Head(replies[k]).ends
          BY <3>2 DEF Known
        <4>2. k # n /\ k \in Nodes
          BY <1>2, <2>1, <2>4, <4>1, KindFacts, SearchFacts
        <4> QED
          BY <1>1, <2>6, <4>1, <4>2 DEF Known
      <3> QED
        BY <3>1, <3>2
    <2>9. \A e \in Points : e \in x.ends => e \in Known'
      <3>1. replies'[n] # <<>> /\ Head(replies'[n]) = x
        BY <2>3
      <3> QED
        BY <1>1, <2>4, <3>1 DEF Known
    <2>10. /\ Len(r.routes) \in Nat /\ Walk(n, r)[Len(r.routes)] \subseteq Points
           /\ \A e \in Points : e \in Share(world, search, n) <=>
                e \in Walk(n, r)[Len(r.routes)] \/ e \in Work(world, search, Reply(n, r).mids)
           /\ Reply(n, r).ends = Unmarked(r, Walk(n, r)[Len(r.routes)])
      <3>1. Len(r.routes) \in Nat /\ Reply(n, r).ends = Unmarked(r, Walk(n, r)[Len(r.routes)])
        BY <1>2, <1>3, ReplyIs
      <3>2. Walk(n, r)[Len(r.routes)] \subseteq Points
        <4> DEFINE N == Len(r.routes)
        <4>1. N \in 0 .. N
          BY <3>1
        <4>2. \A k \in 0 .. N : Walk(n, r)[k] \subseteq Points
          BY <1>2, <3>1, WalkIs
        <4> HIDE DEF N
        <4>3. Walk(n, r)[N] \subseteq Points
          BY <4>1, <4>2
        <4> QED
          BY <4>3 DEF N
      <3>3. \A e \in Points : e \in Share(world, search, n) <=>
              e \in Walk(n, r)[Len(r.routes)] \/ e \in Work(world, search, Reply(n, r).mids)
        BY <1>2, <2>3, <2>4, NodeGives
      <3> QED
        BY <3>1, <3>2, <3>3
    <2>11. ASSUME world.sdk = "java", NEW e \in Points, e \in Walk(n, r)[Len(r.routes)]
           PROVE  e \in Known'
      <3>1. x = Reply(n, r)
        BY <2>2, <2>5, <2>11 DEF x
      <3>2. CASE mark[e] # r.no
        BY <2>9, <2>10, <2>11, <3>1, <3>2 DEF Unmarked
      <3>3. CASE mark[e] = r.no
        <4>1. e \in search.query.filter
          <5> DEFINE N == Len(r.routes)
          <5>1. /\ Walk(n, r)[0] = Started(r) /\ N \in Nat
                /\ \A k \in 1 .. N : Walk(n, r)[k] = WalkStep(n, r, k, Walk(n, r)[k - 1])
            BY <1>2, <2>10, WalkIs
          <5>2. N = 0 => r.fromPoint /\ r.startFilter
            <6>1. SearchOK(search)
              BY <1>2, <2>4, KindFacts
            <6>2. N = 0 => search.routes = <<>>
              BY <2>5, <6>1, SearchFacts
            <6> QED
              BY <2>5, <6>1, <6>2 DEF SearchOK
          <5> HIDE DEF N
          <5>3. CASE N = 0
            <6>1. e \in Started(r)
              BY <2>11, <5>1, <5>3 DEF N
            <6> QED
              BY <2>5, <5>2, <5>3, <6>1 DEF Started
          <5>4. CASE N # 0
            <6>1. N \in 1 .. N
              BY <5>1, <5>4
            <6>2. e \in WalkStep(n, r, N, Walk(n, r)[N - 1])
              BY <2>11, <5>1, <6>1 DEF N
            <6> QED
              BY <2>5, <6>2 DEF WalkStep
          <5> QED
            BY <5>3, <5>4
        <4>2. e \in Known
          BY <1>10, <2>4, <2>5, <2>11, <3>3, <4>1 DEF SearchIInv, MarkInv
        <4> QED
          BY <2>8, <4>2
      <3> QED
        BY <3>2, <3>3
    <2>12. ReplyInv'
      <3> DEFINE Given(y) == {e \in Points : e \in y.ends \/ e \in Work(world, search, y.mids)}
      <3> SUFFICES ASSUME NEW k \in Nodes, Waits(k), replies'[k] # <<>>
                   PROVE  /\ Given(Head(replies'[k])) \subseteq Share(world, search, k)
                          /\ world.sdk = "java" => Share(world, search, k) \subseteq Given(Head(replies'[k])) \union Known'
        BY <1>1, <1>6 DEF ReplyInv, Gives
      <3>1. \A e : e \in Share(world, search, k) => e \in Points
        BY DEF Share, ShareOf, ByLines, ByPoints, From
      <3>2. CASE k # n
        <4>1. /\ Given(Head(replies[k])) \subseteq Share(world, search, k)
              /\ world.sdk = "java" => Share(world, search, k) \subseteq Given(Head(replies[k])) \union Known
          BY <1>10, <2>6, <3>2 DEF SearchIInv, ReplyInv, Gives
        <4> HIDE DEF Given
        <4> QED
          BY <2>6, <2>8, <3>1, <3>2, <4>1
      <3>3. CASE k = n
        <4>1. Head(replies'[k]) = x
          BY <2>3, <3>3
        <4>2. CASE r.opts
          <5>1. x = Reply(n, r)
            BY <4>2 DEF x
          <5>2. \A e \in Points : e \in x.ends => e \in Walk(n, r)[Len(r.routes)]
            BY <2>10, <5>1 DEF Unmarked
          <5> QED
            BY <2>10, <2>11, <3>1, <3>3, <4>1, <5>1, <5>2
        <4>3. CASE ~r.opts
          <5>1. x.ends = {} /\ x = Refused /\ world.sdk # "java"
            BY <2>2, <2>5, <4>3, RefusedIs DEF x
          <5>2. \A e \in Points : e \notin Work(world, search, x.mids)
            <6>1. \A i \in 1 .. Len(search.routes) : x.mids[i] = Nothing
              <7>1. \A i \in 1 .. Len(search.routes) : i \in 1 .. MaxRoutes
                BY <1>2, <2>4, KindFacts, SearchFacts
              <7> QED
                BY <5>1, <7>1, RefusedIs
            <6> QED
              BY <6>1, WorkIs, NothingLeft
          <5> QED
            BY <4>1, <5>1, <5>2
        <4> QED
          BY <4>2, <4>3
      <3> QED
        BY <3>2, <3>3
    <2>13. CoverInv'
      BY <1>1, <1>6 DEF SearchIInv, CoverInv
    <2>14. MarkInv'
      <3> SUFFICES ASSUME world.sdk = "java", NEW p \in Points, mark'[p] = asked, p \in search.query.filter
                   PROVE  p \in Known'
        BY <1>1 DEF MarkInv
      <3>1. r.opts = TRUE
        BY <2>2, <2>5
      <3>2. CASE p \in MarkedBy(n, r)
        BY <1>2, <2>3, <2>4, <2>11, <3>2, MarkedAreFound
      <3>3. CASE p \notin MarkedBy(n, r)
        <4>1. mark[p] = asked
          BY <1>1, <3>1, <3>3
        <4> QED
          BY <1>10, <2>4, <2>8, <4>1 DEF SearchIInv, MarkInv
      <3> QED
        BY <3>2, <3>3
    <2> QED
      BY <1>5, <1>8, <2>7, <2>12, <2>13, <2>14 DEF SearchIInv
  <1> QED
    BY <1>9, <1>10
LEMMA SearchStep == SearchIInv /\ [SearchNext]_searchVars => SearchIInv'
  <1> SUFFICES ASSUME SearchIInv, [SearchNext]_searchVars PROVE SearchIInv'
    OBVIOUS
  <1>1. CASE UNCHANGED searchVars
    <2>1. /\ world' = world /\ search' = search /\ asked' = asked /\ requests' = requests /\ replies' = replies
          /\ mark' = mark /\ failed' = failed /\ answer' = answer
      BY <1>1 DEF searchVars
    <2> QED
      BY <2>1 DEF SearchIInv, SearchKinds, NetInv, ReplyInv, CoverInv, MarkInv, AnswerInv, Clean, Waits, Request, Own,
                  Gives, Known
  <1>2. CASE Move
    BY <1>2, MoveKeeps
  <1>3. ASSUME NEW n \in Nodes, Send(n) \/ Resend(n) \/ SendFails(n) PROVE SearchIInv'
    BY <1>3, SendKeeps, FailuresKeep
  <1>4. ASSUME NEW n \in Nodes, OnMove(n) PROVE SearchIInv'
    BY <1>4, ExecuteKeeps
  <1>5. ASSUME NEW n \in Nodes, Read(n) \/ ReadRefusal(n) \/ ReadFails(n) PROVE SearchIInv'
    BY <1>5, ReadKeeps, FailuresKeep
  <1>6. CASE OverLines
    BY <1>6, OverLinesKeeps
  <1>7. CASE AfterLines
    BY <1>7, AfterLinesKeeps
  <1>8. CASE Return
    BY <1>8, ReturnKeeps
  <1>9. ASSUME NEW p \in Points, Forget(p) PROVE SearchIInv'
    BY <1>9, ForgetKeeps
  <1> QED
    BY <1>1, <1>2, <1>3, <1>4, <1>5, <1>6, <1>7, <1>8, <1>9 DEF SearchNext

LEMMA SearchImplies == SearchIInv => Inv /\ Exact
  <1> SUFFICES ASSUME SearchIInv PROVE Inv /\ Exact
    OBVIOUS
  <1>1. SearchKinds /\ world \in WorldSet /\ replies \in [Nodes -> Seq(ReplySet)]
    BY KindFacts DEF SearchIInv
  <1>2. SearchTypeOK
    <2>1. \A n \in Nodes : \A i \in DOMAIN replies[n] :
            replies[n][i] \in [ok : BOOLEAN, ends : SUBSET Points, mids : MidsSet]
      <3> SUFFICES ASSUME NEW n \in Nodes, NEW i \in DOMAIN replies[n] PROVE replies[n][i] \in ReplySet
        BY DEF ReplySet
      <3> QED
        BY <1>1
    <2> QED
      BY <1>1, <2>1 DEF SearchTypeOK, SearchKinds, SearchOK
  <1>3. answer # None => answer.query \in QuerySet
    BY DEF SearchIInv, AnswerInv
  <1>4. answer # None => Goal(world, answer.query) = Reference(answer.query)
    BY <1>1, <1>3, GoalIsReference
  <1>5. NothingForeign
    BY <1>4 DEF NothingForeign, SearchIInv, AnswerInv
  <1>6. Exact
    BY <1>4 DEF Exact, SearchIInv, AnswerInv
  <1> QED
    BY <1>2, <1>5, <1>6 DEF Inv

LEMMA SearchAlways == SearchSpec => []SearchIInv
  BY SearchInitial, SearchStep, PTL DEF SearchSpec

(* A search of the Java client that follows no failed one returns exactly  *)
(* the points at the end of its routes, on whichever nodes points and lines *)
(* are, along however many routes (GCluster.Move, GridStore::Move).        *)
THEOREM ExactHolds == SearchSpec => []Exact
  BY SearchAlways, SearchImplies, PTL

(* Values have their types, and a search of the C++ client returns no point *)
(* that is not at the end of its routes, whatever failed before.           *)
THEOREM SearchInvHolds == SearchSpec => []Inv
  BY SearchAlways, SearchImplies, PTL


-----------------------------------------------------------------------------
(* The choice of a node.  The nodes m a client comes to after n and before *)
(* it is at the node at, when it goes round.                               *)
InArc(n, m, at) == IF n < at THEN n < m /\ m < at ELSE n < m \/ m < at
Arc(n, at, S) == {m \in S : InArc(n, m, at)}

NodesTyped ==
  /\ nodes \subseteq NodeIds /\ address \subseteq nodes /\ up \subseteq NodeIds /\ excused \subseteq nodes
  /\ isConnected \in [NodeIds -> {"no", "yes", "lost"}]
  /\ lastFailed \in [NodeIds -> 0 .. Wait] /\ lastDown \in [NodeIds -> 0 .. Wait]
  /\ passedOver \in [NodeIds -> Nat]
  /\ nodes # {} => itNext \in nodes
  /\ turn \in Nat \union {NoNode} /\ chosen \in nodes \union {NoNode}

(* A node is left alone only after it refused a connection: it never had   *)
(* an address, or was down since or not long before.                       *)
DownInv ==
  /\ \A n \in NodeIds \ up : lastDown[n] = 0
  /\ \A n \in NodeIds : lastFailed[n] < Wait => n \in nodes /\ (n \notin address \/ lastDown[n] <= lastFailed[n])

(* The nodes a turn has tried are excused, and make up an arc that ends    *)
(* before m_itNextNode.                                                    *)
TurnInv ==
  InTurn => /\ nodes # {} /\ chosen = NoNode
            /\ Cardinality(excused) = turn
            /\ excused = {} \/ \E s \in nodes : excused = {s} \union Arc(s, itNext, nodes)

(* A node was passed over no more often than m_itNextNode has moved since  *)
(* it was there.                                                           *)
PassedInv ==
  /\ \A n \in NodeIds \ nodes : passedOver[n] = 0
  /\ \A n \in nodes : /\ passedOver[n] < Cardinality(nodes)
                      /\ (InTurn /\ n \in excused) \/ passedOver[n] <= Cardinality(Arc(n, itNext, nodes))

NodesIInv == NodesTyped /\ DownInv /\ TurnInv /\ PassedInv /\ RefusedByAll

-----------------------------------------------------------------------------
\* The node a round of the nodes S comes to after n.
NextIn(S, n) == LET later == {m \in S : m > n} IN Earliest(IF later = {} THEN S ELSE later)

\* m_nodes.begin() is the node with the least id.
LEMMA EarliestIs ==
  ASSUME NEW S \in SUBSET Nat, S # {}
  PROVE  Earliest(S) \in S /\ \A m \in S : Earliest(S) <= m
  <1>1. \E x \in S : \A y \in S : x <= y
    BY LeastNumber
  <1> QED
    BY <1>1 DEF Earliest

\* NextNode goes on to the next greater id, and from the last to the first.
LEMMA NextIs ==
  ASSUME NEW S \in SUBSET Nat, S # {}, NEW n \in Nat
  PROVE  /\ NextIn(S, n) \in S
         /\ \/ NextIn(S, n) > n /\ (\A m \in S : m > n => NextIn(S, n) <= m)
            \/ \A m \in S : m <= n /\ NextIn(S, n) <= m
  <1> DEFINE later == {m \in S : m > n}
  <1>1. CASE later = {}
    <2>1. NextIn(S, n) = Earliest(S)
      BY <1>1 DEF NextIn
    <2> QED
      BY <1>1, <2>1, EarliestIs
  <1>2. CASE later # {}
    <2>1. NextIn(S, n) = Earliest(later)
      BY <1>2 DEF NextIn
    <2>2. Earliest(later) \in later /\ \A m \in later : Earliest(later) <= m
      <3>1. later \in SUBSET Nat
        OBVIOUS
      <3> HIDE DEF later
      <3> QED
        BY <1>2, <3>1, EarliestIs
    <2> QED
      BY <2>1, <2>2
  <1> QED
    BY <1>1, <1>2

(* To go on from at is to add it to each arc but its own, which begins.    *)
LEMMA ArcMoves ==
  ASSUME NEW S \in SUBSET Nat, NEW n \in S, NEW at \in S, n # at
  PROVE  Arc(n, NextIn(S, at), S) = Arc(n, at, S) \union {at}
  <1> DEFINE to == NextIn(S, at)
  <1>1. to \in S /\ ((to > at /\ \A m \in S : m > at => to <= m) \/ \A m \in S : m <= at /\ to <= m)
    BY NextIs
  <1> HIDE DEF to
  <1>2. \A m \in S : InArc(n, m, to) <=> InArc(n, m, at) \/ m = at
    <2> SUFFICES ASSUME NEW m \in S PROVE InArc(n, m, to) <=> InArc(n, m, at) \/ m = at
      OBVIOUS
    <2>1. n \in Nat /\ at \in Nat /\ to \in Nat /\ m \in Nat
      BY <1>1
    <2>2. CASE to > at /\ \A k \in S : k > at => to <= k
      <3>1. (n > at => to <= n) /\ (m > at => to <= m)
        BY <2>2
      <3> QED
        BY <2>1, <2>2, <3>1 DEF InArc
    <2>3. CASE \A k \in S : k <= at /\ to <= k
      <3>1. n <= at /\ to <= n /\ m <= at /\ to <= m
        BY <2>3
      <3> QED
        BY <2>1, <3>1 DEF InArc
    <2> QED
      BY <1>1, <2>2, <2>3
  <1>3. Arc(n, to, S) = Arc(n, at, S) \union {at}
    BY <1>2 DEF Arc
  <1> QED
    BY <1>3 DEF to

\* The arc of the node it has just left is empty.
LEMMA ArcBegins ==
  ASSUME NEW S \in SUBSET Nat, NEW at \in S
  PROVE  Arc(at, NextIn(S, at), S) = {}
  <1> DEFINE to == NextIn(S, at)
  <1>1. to \in S /\ ((to > at /\ \A m \in S : m > at => to <= m) \/ \A m \in S : m <= at /\ to <= m)
    BY NextIs
  <1> HIDE DEF to
  <1>2. \A m \in S : ~InArc(at, m, to)
    <2> SUFFICES ASSUME NEW m \in S PROVE ~InArc(at, m, to)
      OBVIOUS
    <2>1. at \in Nat /\ to \in Nat /\ m \in Nat
      BY <1>1
    <2>2. (to > at /\ (m > at => to <= m)) \/ (m <= at /\ to <= m)
      BY <1>1
    <2>3. (\A k \in S : k <= at /\ to <= k) => to <= at
      OBVIOUS
    <2> QED
      BY <1>1, <2>1, <2>2, <2>3 DEF InArc
  <1> QED
    BY <1>2 DEF Arc, to

\* An arc has every node but its own at most, and the node it is at never.
LEMMA ArcWithin ==
  ASSUME NEW S \in SUBSET Nat, IsFiniteSet(S), NEW n \in S, NEW at \in Nat
  PROVE  /\ Arc(n, at, S) \in SUBSET (S \ {n}) /\ IsFiniteSet(Arc(n, at, S))
         /\ Cardinality(Arc(n, at, S)) \in Nat /\ Cardinality(Arc(n, at, S)) < Cardinality(S)
         /\ at \notin Arc(n, at, S)
         /\ n = at => Arc(n, at, S) = S \ {n}
  <1>1. \A m \in S : (m = n => ~InArc(n, m, at)) /\ (m = at => ~InArc(n, m, at)) /\ (n = at /\ m # n => InArc(n, m, at))
    BY DEF InArc
  <1>2. Arc(n, at, S) \in SUBSET (S \ {n}) /\ at \notin Arc(n, at, S) /\ (n = at => Arc(n, at, S) = S \ {n})
    BY <1>1 DEF Arc
  <1>3. IsFiniteSet(S \ {n}) /\ Cardinality(S \ {n}) = Cardinality(S) - 1 /\ Cardinality(S) \in Nat
    BY FS_RemoveElement, FS_CardinalityType
  <1>4. IsFiniteSet(Arc(n, at, S)) /\ Cardinality(Arc(n, at, S)) <= Cardinality(S) - 1
    BY <1>2, <1>3, FS_Subset
  <1>5. Cardinality(Arc(n, at, S)) \in Nat
    BY <1>4, FS_CardinalityType
  <1> QED
    BY <1>2, <1>3, <1>4, <1>5

\* The nodes there can be are finitely many.
LEMMA FiniteIds ==
  ASSUME NEW S \in SUBSET NodeIds
  PROVE  S \in SUBSET Nat /\ IsFiniteSet(S) /\ Cardinality(S) \in Nat
  <1>1. NodeIds = 1 .. Cardinality(NodeIds) /\ IsFiniteSet(NodeIds)
    BY NodesAssumption
  <1>2. \A k : \A n \in 1 .. k : n \in Nat
    OBVIOUS
  <1>3. NodeIds \in SUBSET Nat
    BY <1>1, <1>2
  <1>4. IsFiniteSet(S)
    BY <1>1, FS_Subset
  <1> QED
    BY <1>3, <1>4, FS_CardinalityType

\* So are those of the map.
LEMMA FiniteNodes ==
  ASSUME NodesTyped
  PROVE  /\ nodes \in SUBSET Nat /\ IsFiniteSet(nodes) /\ IsFiniteSet(excused) /\ Cardinality(nodes) \in Nat
         /\ \A n \in nodes : n \in Nat /\ n \in NodeIds /\ n # NoNode
         /\ IsFiniteSet(NodeIds) /\ \A n \in NodeIds : n \in Nat /\ n # NoNode
  <1>1. NodeIds \in SUBSET Nat /\ IsFiniteSet(NodeIds) /\ NoNode \notin Nat
    <2>1. NodeIds = 1 .. Cardinality(NodeIds) /\ IsFiniteSet(NodeIds) /\ NoNode \notin Nat
      BY NodesAssumption
    <2>2. \A k : \A n \in 1 .. k : n \in Nat
      OBVIOUS
    <2> QED
      BY <2>1, <2>2
  <1>2. nodes \subseteq NodeIds /\ excused \subseteq nodes
    BY DEF NodesTyped
  <1>3. IsFiniteSet(nodes) /\ IsFiniteSet(excused)
    BY <1>1, <1>2, FS_Subset
  <1> QED
    BY <1>1, <1>2, <1>3, FS_CardinalityType

\* m_itNextNode stays in the map.
LEMMA AfterIs ==
  ASSUME NodesTyped, nodes # {}
  PROVE  itNext \in nodes /\ After(itNext) = NextIn(nodes, itNext) /\ After(itNext) \in nodes
  <1>1. itNext \in nodes /\ nodes \in SUBSET Nat /\ itNext \in Nat
    BY FiniteNodes DEF NodesTyped
  <1>2. After(itNext) = NextIn(nodes, itNext)
    BY DEF After, NextIn
  <1> QED
    BY <1>1, <1>2, NextIs

\* A client begins with no nodes.
LEMMA NodesBegin ==
  ASSUME NodesInit
  PROVE  NodesIInv
  <1>1. Wait \in Nat \ {0}
    BY NodesAssumption
  <1>2. NodesTyped
    BY <1>1 DEF NodesInit, NodesTyped
  <1>3. DownInv
    BY <1>1 DEF NodesInit, DownInv
  <1>4. TurnInv /\ PassedInv /\ RefusedByAll
    BY DEF NodesInit, TurnInv, InTurn, PassedInv, RefusedByAll
  <1> QED
    BY <1>2, <1>3, <1>4 DEF NodesIInv

\* A node with a new address: every node is as if just tried.
LEMMA NodesAddClusterNode ==
  ASSUME NodesIInv, NEW n \in NodeIds, AddClusterNode(n)
  PROVE  NodesIInv'
  <1> USE DEF NodesIInv
  <1>1. /\ nodes' = nodes \union {n} /\ address' = address \union {n} /\ n \notin nodes
        /\ itNext' = Earliest(nodes') /\ passedOver' = [m \in NodeIds |-> 0]
        /\ isConnected' = isConnected /\ lastFailed' = lastFailed /\ turn' = turn /\ chosen' = chosen /\ up' = up
        /\ lastDown' = lastDown /\ excused' = excused /\ turn = NoNode /\ chosen = NoNode
    BY DEF AddClusterNode, InTurn
  <1>2. itNext' \in nodes'
    <2>1. nodes' \in SUBSET Nat /\ nodes' # {}
      BY <1>1, FiniteNodes
    <2> QED
      BY <1>1, <2>1, EarliestIs
  <1>3. NodesTyped'
    BY <1>1, <1>2 DEF NodesTyped
  <1>4. DownInv'
    <2>1. lastFailed[n] = Wait \/ lastFailed[n] < Wait
      BY NodesAssumption DEF NodesTyped
    <2>2. ~(lastFailed[n] < Wait)
      BY <1>1 DEF DownInv
    <2> QED
      BY <1>1, <2>2 DEF DownInv, NodesTyped
  <1>5. TurnInv' /\ RefusedByAll'
    BY <1>1 DEF TurnInv, InTurn, RefusedByAll
  <1>6. PassedInv'
    <2>1. \A m \in nodes' : 0 <= Cardinality(Arc(m, itNext', nodes')) /\ 0 < Cardinality(nodes')
      <3>1. nodes' \in SUBSET Nat /\ IsFiniteSet(nodes') /\ Cardinality(nodes') \in Nat /\ itNext' \in Nat
        BY <1>2, <1>3, FiniteIds DEF NodesTyped
      <3>2. \A m \in nodes' : Cardinality(Arc(m, itNext', nodes')) \in Nat /\ Cardinality(Arc(m, itNext', nodes')) < Cardinality(nodes')
        BY <3>1, ArcWithin
      <3> QED
        BY <3>1, <3>2
    <2> QED
      BY <1>1, <1>3, <2>1 DEF PassedInv, NodesTyped
  <1> QED
    BY <1>3, <1>4, <1>5, <1>6

\* A turn begins.
LEMMA NodesNextNode ==
  ASSUME NodesIInv, NextNode
  PROVE  NodesIInv'
  <1> USE DEF NodesIInv
  <1>1. /\ nodes' = nodes /\ address' = address /\ itNext' = itNext /\ passedOver' = passedOver
        /\ isConnected' = isConnected /\ lastFailed' = lastFailed /\ turn' = 0 /\ chosen' = chosen /\ up' = up
        /\ lastDown' = lastDown /\ excused' = {} /\ turn = NoNode /\ chosen = NoNode /\ nodes # {}
    BY DEF NextNode, InTurn
  <1>2. NodesTyped' /\ DownInv'
    BY <1>1 DEF NodesTyped, DownInv
  <1>3. TurnInv' /\ RefusedByAll'
    BY <1>1, FS_EmptySet DEF TurnInv, RefusedByAll
  <1>4. PassedInv'
    BY <1>1 DEF PassedInv, InTurn
  <1> QED
    BY <1>2, <1>3, <1>4

(* The end of a turn, whatever node it is for.                             *)
LEMMA TurnEnds ==
  ASSUME NodesIInv, InTurn, NextNodeReturns, nodes' = nodes, excused' = excused
  PROVE  /\ itNext' \in nodes /\ chosen' \in nodes /\ passedOver' \in [NodeIds -> Nat]
         /\ TurnInv' /\ PassedInv'
  <1> USE DEF NodesIInv
  <1>1. nodes # {} /\ turn' = NoNode /\ chosen' = itNext /\ itNext' = After(itNext)
    BY DEF TurnInv, NextNodeReturns
  <1>2. itNext \in nodes /\ itNext' = NextIn(nodes, itNext) /\ itNext' \in nodes
    BY <1>1, AfterIs
  <1>3. TurnInv'
    BY <1>1 DEF TurnInv, InTurn
  <1>4. \A n \in nodes \ {itNext} : n \notin excused => passedOver[n] <= Cardinality(Arc(n, itNext, nodes))
    BY DEF PassedInv
  <1>5. \A n \in nodes \ {itNext} : /\ Cardinality(Arc(n, itNext', nodes)) = Cardinality(Arc(n, itNext, nodes)) + 1
                                    /\ Cardinality(Arc(n, itNext, nodes)) \in Nat
                                    /\ Cardinality(Arc(n, itNext', nodes)) < Cardinality(nodes)
    <2> SUFFICES ASSUME NEW n \in nodes \ {itNext}
                 PROVE  /\ Cardinality(Arc(n, itNext', nodes)) = Cardinality(Arc(n, itNext, nodes)) + 1
                        /\ Cardinality(Arc(n, itNext, nodes)) \in Nat
                        /\ Cardinality(Arc(n, itNext', nodes)) < Cardinality(nodes)
      OBVIOUS
    <2>1. nodes \in SUBSET Nat /\ IsFiniteSet(nodes) /\ itNext \in Nat /\ itNext' \in Nat
      BY <1>2, FiniteNodes
    <2>2. Arc(n, itNext', nodes) = Arc(n, itNext, nodes) \union {itNext}
      BY <1>2, <2>1, ArcMoves
    <2>3. itNext \notin Arc(n, itNext, nodes) /\ IsFiniteSet(Arc(n, itNext, nodes)) /\ Cardinality(Arc(n, itNext, nodes)) \in Nat
      BY <2>1, ArcWithin
    <2>4. Cardinality(Arc(n, itNext', nodes)) = Cardinality(Arc(n, itNext, nodes)) + 1
      BY <2>2, <2>3, FS_AddElement
    <2>5. Cardinality(Arc(n, itNext', nodes)) < Cardinality(nodes)
      BY <2>1, ArcWithin
    <2> QED
      BY <2>3, <2>4, <2>5
  <1>6. passedOver' = [n \in NodeIds |-> IF n \in nodes \ {itNext} /\ n \notin excused THEN passedOver[n] + 1 ELSE 0]
    BY DEF NextNodeReturns
  <1>7. passedOver' \in [NodeIds -> Nat] /\ \A n \in NodeIds : passedOver[n] \in Nat
    BY <1>6 DEF NodesTyped
  <1>8. \A n \in nodes : Cardinality(Arc(n, itNext', nodes)) \in Nat /\ 0 < Cardinality(nodes)
    <2>1. \A n \in nodes : Cardinality(Arc(n, itNext', nodes)) \in Nat /\ Cardinality(Arc(n, itNext', nodes)) < Cardinality(nodes)
      BY <1>2, FiniteNodes, ArcWithin
    <2> QED
      BY <2>1, FiniteNodes
  <1>9. \A n \in NodeIds : n \in nodes => /\ passedOver'[n] < Cardinality(nodes)
                                          /\ passedOver'[n] <= Cardinality(Arc(n, itNext', nodes))
    <2> SUFFICES ASSUME NEW n \in NodeIds, n \in nodes
                 PROVE  passedOver'[n] < Cardinality(nodes) /\ passedOver'[n] <= Cardinality(Arc(n, itNext', nodes))
      OBVIOUS
    <2>0. Cardinality(nodes) \in Nat /\ Cardinality(Arc(n, itNext', nodes)) \in Nat
      BY <1>8, FiniteNodes
    <2>1. CASE n # itNext /\ n \notin excused
      <3>1. passedOver'[n] = passedOver[n] + 1
        BY <1>6, <2>1
      <3> QED
        BY <2>0, <2>1, <3>1, <1>4, <1>5, <1>7
    <2>2. CASE ~(n # itNext /\ n \notin excused)
      <3>1. passedOver'[n] = 0
        BY <1>6, <2>2
      <3> QED
        BY <2>0, <3>1, <1>8
    <2> QED
      BY <2>1, <2>2
  <1>10. \A n \in NodeIds \ nodes : passedOver'[n] = 0
    BY <1>6
  <1>11. nodes \subseteq NodeIds
    BY DEF NodesTyped
  <1>12. PassedInv'
    BY <1>9, <1>10, <1>11 DEF PassedInv
  <1> QED
    BY <1>1, <1>2, <1>3, <1>7, <1>12

\* A node has, or gets, a connection.
LEMMA NodesIsReady ==
  ASSUME NodesIInv, IsReady
  PROVE  NodesIInv'
  <1> USE DEF NodesIInv
  <1>1. /\ nodes' = nodes /\ address' = address /\ lastFailed' = lastFailed /\ up' = up
        /\ lastDown' = lastDown /\ excused' = excused /\ InTurn /\ NextNodeReturns
        /\ turn' = NoNode /\ chosen' = itNext
    BY DEF IsReady, NextNodeReturns
  <1>2. /\ itNext' \in nodes /\ chosen' \in nodes /\ passedOver' \in [NodeIds -> Nat] /\ TurnInv' /\ PassedInv'
    BY <1>1, TurnEnds
  <1>3. itNext \in NodeIds
    BY <1>1, <1>2 DEF NodesTyped
  <1>4. isConnected' \in [NodeIds -> {"no", "yes", "lost"}] /\ isConnected'[itNext] # "no"
    <2>1. CASE isConnected' = isConnected /\ isConnected[itNext] # "no"
      BY <2>1 DEF NodesTyped
    <2>2. CASE isConnected' = [isConnected EXCEPT ![itNext] = "yes"]
      BY <1>3, <2>2 DEF NodesTyped
    <2> QED
      BY <2>1, <2>2 DEF IsReady
  <1>5. NodesTyped'
    BY <1>1, <1>2, <1>4 DEF NodesTyped
  <1>6. DownInv'
    BY <1>1 DEF DownInv
  <1>7. RefusedByAll'
    BY <1>1, <1>4 DEF RefusedByAll
  <1> QED
    BY <1>2, <1>5, <1>6, <1>7

\* A node refuses, and the turn goes on to one that has not yet.
LEMMA NodesIsNotReady ==
  ASSUME NodesIInv, IsNotReady
  PROVE  NodesIInv'
  <1> USE DEF NodesIInv
  <1>1. /\ nodes' = nodes /\ address' = address /\ isConnected' = isConnected /\ chosen' = chosen /\ up' = up
        /\ lastDown' = lastDown /\ passedOver' = passedOver
        /\ InTurn /\ turn < Cardinality(nodes) /\ turn' = turn + 1 /\ itNext' = After(itNext)
    BY DEF IsNotReady
  <1>2. nodes # {} /\ chosen = NoNode /\ Cardinality(excused) = turn /\ turn \in Nat
    BY <1>1 DEF TurnInv, NodesTyped, InTurn
  <1>3. itNext \in nodes /\ itNext' = NextIn(nodes, itNext) /\ itNext' \in nodes /\ itNext \in NodeIds
    BY <1>1, <1>2, AfterIs, FiniteNodes
  <1>4. nodes \in SUBSET Nat /\ IsFiniteSet(nodes) /\ itNext \in Nat /\ itNext' \in Nat /\ IsFiniteSet(excused)
    BY <1>3, FiniteNodes
  <1>5. /\ lastFailed' \in [NodeIds -> 0 .. Wait] /\ DownInv'
        /\ excused' = excused \union {itNext}
    <2>1. Wait \in Nat \ {0} /\ lastFailed[itNext] \in 0 .. Wait /\ lastDown[itNext] \in 0 .. Wait
      BY <1>3, NodesAssumption DEF NodesTyped
    <2>2. CASE lastFailed[itNext] < Wait /\ lastFailed' = lastFailed
      <3>1. itNext \notin address \/ lastDown[itNext] <= lastFailed[itNext]
        BY <1>3, <2>2 DEF DownInv
      <3>2. itNext \notin address \/ lastDown[itNext] < Wait
        BY <2>1, <2>2, <3>1
      <3>3. excused' = excused \union {itNext}
        BY <3>2 DEF IsNotReady
      <3> QED
        BY <1>1, <2>2, <3>3 DEF DownInv, NodesTyped
    <2>3. CASE ~CanConnect(itNext) /\ lastFailed' = [lastFailed EXCEPT ![itNext] = 0]
      <3>1. itNext \notin address \/ lastDown[itNext] = 0
        BY <1>3, <2>3 DEF CanConnect, DownInv
      <3>2. excused' = excused \union {itNext}
        BY <2>1, <3>1 DEF IsNotReady
      <3>3. lastFailed' \in [NodeIds -> 0 .. Wait]
        <4>1. 0 \in 0 .. Wait /\ lastFailed \in [NodeIds -> 0 .. Wait]
          BY <2>1 DEF NodesTyped
        <4> QED
          BY <2>3, <4>1
      <3>4. \A n \in NodeIds : lastFailed'[n] = IF n = itNext THEN 0 ELSE lastFailed[n]
        BY <2>3 DEF NodesTyped
      <3>5. lastDown[itNext] = 0 => lastDown[itNext] <= 0
        OBVIOUS
      <3>6. DownInv'
        BY <1>1, <1>3, <3>1, <3>4, <3>5 DEF DownInv
      <3> QED
        BY <3>2, <3>3, <3>6
    <2> QED
      BY <2>2, <2>3 DEF IsNotReady
  <1>6. excused = {} \/ \E s \in nodes : excused = {s} \union Arc(s, itNext, nodes) /\ s # itNext
    <2> SUFFICES ASSUME NEW s \in nodes, excused = {s} \union Arc(s, itNext, nodes), s = itNext
                 PROVE  FALSE
      BY <1>1 DEF TurnInv
    <2>1. Arc(s, itNext, nodes) = nodes \ {s}
      BY <1>4, ArcWithin
    <2>2. excused = nodes
      BY <2>1
    <2> QED
      BY <1>1, <1>2, <2>2
  <1>7. /\ itNext \notin excused
        /\ \E s \in nodes : excused' = {s} \union Arc(s, itNext', nodes)
    <2>1. CASE excused = {}
      <3>1. Arc(itNext, itNext', nodes) = {}
        BY <1>3, <1>4, ArcBegins
      <3> QED
        BY <2>1, <3>1, <1>3, <1>5
    <2>2. CASE \E s \in nodes : excused = {s} \union Arc(s, itNext, nodes) /\ s # itNext
      <3>1. PICK s \in nodes : excused = {s} \union Arc(s, itNext, nodes) /\ s # itNext
        BY <2>2
      <3>2. Arc(s, itNext', nodes) = Arc(s, itNext, nodes) \union {itNext}
        BY <1>3, <1>4, <3>1, ArcMoves
      <3>3. itNext \notin Arc(s, itNext, nodes)
        BY <1>4, ArcWithin
      <3>4. itNext \notin excused
        BY <3>1, <3>3
      <3>5. excused' = {s} \union Arc(s, itNext', nodes)
        BY <3>1, <3>2, <1>5
      <3> QED
        BY <3>4, <3>5
    <2> QED
      BY <1>6, <2>1, <2>2
  <1>8. Cardinality(excused') = turn'
    BY <1>1, <1>2, <1>4, <1>5, <1>7, FS_AddElement
  <1>9. NodesTyped'
    BY <1>1, <1>2, <1>3, <1>5 DEF NodesTyped
  <1>10. TurnInv'
    BY <1>1, <1>2, <1>7, <1>8 DEF TurnInv
  <1>11. RefusedByAll'
    BY <1>1, <1>2 DEF RefusedByAll
  <1>12. PassedInv'
    <2>1. turn' # NoNode
      BY <1>1, <1>2, NodesAssumption
    <2>2. \A n \in nodes \ {itNext} : Cardinality(Arc(n, itNext, nodes)) <= Cardinality(Arc(n, itNext', nodes))
      <3> SUFFICES ASSUME NEW n \in nodes \ {itNext}
                   PROVE  Cardinality(Arc(n, itNext, nodes)) <= Cardinality(Arc(n, itNext', nodes))
        OBVIOUS
      <3>1. Arc(n, itNext', nodes) = Arc(n, itNext, nodes) \union {itNext}
        BY <1>3, <1>4, ArcMoves
      <3>2. IsFiniteSet(Arc(n, itNext', nodes))
        BY <1>4, ArcWithin
      <3> QED
        BY <3>1, <3>2, FS_Subset
    <2>3. \A n \in nodes : /\ passedOver[n] \in Nat /\ Cardinality(Arc(n, itNext, nodes)) \in Nat
                           /\ Cardinality(Arc(n, itNext', nodes)) \in Nat
      BY <1>4, ArcWithin, FiniteNodes DEF NodesTyped
    <2>4. \A n \in nodes : n \in excused' \/ passedOver[n] <= Cardinality(Arc(n, itNext', nodes))
      <3> SUFFICES ASSUME NEW n \in nodes, n \notin excused'
                   PROVE  passedOver[n] <= Cardinality(Arc(n, itNext', nodes))
        OBVIOUS
      <3>1. n # itNext /\ n \notin excused
        BY <1>5
      <3>2. passedOver[n] <= Cardinality(Arc(n, itNext, nodes))
        BY <3>1 DEF PassedInv
      <3> QED
        BY <3>1, <3>2, <2>2, <2>3
    <2> QED
      BY <1>1, <2>1, <2>4 DEF PassedInv, InTurn
  <1> QED
    BY <1>5, <1>9, <1>10, <1>11, <1>12

\* All have refused, each for a reason.
LEMMA NodesNoneReady ==
  ASSUME NodesIInv, NoneReady
  PROVE  NodesIInv'
  <1> USE DEF NodesIInv
  <1>1. /\ nodes' = nodes /\ address' = address /\ isConnected' = isConnected /\ lastFailed' = lastFailed /\ up' = up
        /\ lastDown' = lastDown /\ excused' = excused /\ InTurn /\ NextNodeReturns
        /\ turn' = NoNode /\ turn = Cardinality(nodes)
    BY DEF NoneReady, NextNodeReturns
  <1>2. /\ itNext' \in nodes /\ chosen' \in nodes /\ passedOver' \in [NodeIds -> Nat] /\ TurnInv' /\ PassedInv'
    BY <1>1, TurnEnds
  <1>3. NodesTyped' /\ DownInv'
    BY <1>1, <1>2 DEF NodesTyped, DownInv
  <1>4. excused = nodes
    <2>1. Cardinality(excused) = Cardinality(nodes) /\ excused \subseteq nodes /\ IsFiniteSet(nodes)
      BY <1>1, FiniteNodes DEF TurnInv, NodesTyped
    <2> QED
      BY <2>1, FS_Subset
  <1>5. RefusedByAll'
    BY <1>1, <1>4 DEF RefusedByAll
  <1> QED
    BY <1>2, <1>3, <1>5

\* The node NextNode returned is asked.
LEMMA NodesNewId ==
  ASSUME NodesIInv, NewId
  PROVE  NodesIInv'
  <1> USE DEF NodesIInv
  <1>1. /\ nodes' = nodes /\ address' = address /\ itNext' = itNext /\ lastFailed' = lastFailed /\ turn' = turn /\ up' = up
        /\ lastDown' = lastDown /\ excused' = excused /\ passedOver' = passedOver
        /\ chosen' = NoNode /\ turn = NoNode
    BY DEF NewId, QueryEnds, InTurn
  <1>2. PICK ok \in BOOLEAN : isConnected' = [isConnected EXCEPT ![chosen] = IF ok THEN "yes" ELSE "no"]
    BY DEF NewId, QueryEnds, QueryReturns
  <1>3. isConnected' \in [NodeIds -> {"no", "yes", "lost"}]
    BY <1>2 DEF NodesTyped
  <1>4. NodesTyped' /\ DownInv'
    BY <1>1, <1>3 DEF NodesTyped, DownInv
  <1>5. TurnInv' /\ RefusedByAll' /\ PassedInv'
    BY <1>1 DEF TurnInv, InTurn, RefusedByAll, PassedInv
  <1> QED
    BY <1>4, <1>5

\* A node that may be new to the map, and has no address then.
LEMMA NodesFindNode ==
  ASSUME NodesIInv, NEW n \in NodeIds, FindNode(n)
  PROVE  NodesIInv'
  <1> USE DEF NodesIInv
  <1>1. /\ nodes' = nodes \union {n} /\ address' = address /\ itNext' = itNext /\ lastFailed' = lastFailed /\ turn' = turn
        /\ up' = up /\ lastDown' = lastDown /\ excused' = excused /\ passedOver' = passedOver
        /\ chosen' = chosen /\ chosen = NoNode /\ turn = NoNode /\ nodes # {}
    BY DEF FindNode, QueryEnds, InTurn
  <1>2. PICK ok \in BOOLEAN : isConnected' = [isConnected EXCEPT ![n] = IF ok THEN "yes" ELSE "no"]
    BY DEF FindNode, QueryEnds, QueryReturns
  <1>3. isConnected' \in [NodeIds -> {"no", "yes", "lost"}]
    BY <1>2 DEF NodesTyped
  <1>4. NodesTyped'
    BY <1>1, <1>3 DEF NodesTyped
  <1>5. DownInv'
    BY <1>1 DEF DownInv
  <1>6. TurnInv' /\ RefusedByAll'
    BY <1>1 DEF TurnInv, InTurn, RefusedByAll
  <1>7. PassedInv'
    <2>1. IsFiniteSet(nodes') /\ nodes' \in SUBSET Nat /\ itNext \in Nat /\ nodes \in SUBSET Nat /\ IsFiniteSet(nodes)
      <3>1. IsFiniteSet(nodes') /\ nodes' \in SUBSET Nat
        BY <1>4, FiniteIds DEF NodesTyped
      <3>2. nodes \in SUBSET Nat /\ IsFiniteSet(nodes) /\ itNext \in nodes
        BY <1>1, FiniteNodes DEF NodesTyped
      <3> QED
        BY <3>1, <3>2
    <2>2. Cardinality(nodes) <= Cardinality(nodes') /\ Cardinality(nodes) \in Nat /\ Cardinality(nodes') \in Nat
      BY <1>1, <2>1, FS_Subset, FS_CardinalityType
    <2>3. \A m \in nodes' : /\ IsFiniteSet(Arc(m, itNext, nodes')) /\ Cardinality(Arc(m, itNext, nodes')) \in Nat
                            /\ Cardinality(Arc(m, itNext, nodes')) < Cardinality(nodes')
      BY <2>1, ArcWithin
    <2>4. \A m \in nodes : Cardinality(Arc(m, itNext, nodes)) \in Nat
      BY <2>1, ArcWithin
    <2>5. \A m \in nodes : Cardinality(Arc(m, itNext, nodes)) <= Cardinality(Arc(m, itNext, nodes'))
      <3>1. \A m \in nodes : Arc(m, itNext, nodes) \subseteq Arc(m, itNext, nodes')
        BY <1>1 DEF Arc
      <3> QED
        BY <1>1, <3>1, <2>3, FS_Subset
    <2>6. \A m \in NodeIds : passedOver[m] \in Nat
      BY DEF NodesTyped
    <2>7. \A m \in nodes : passedOver[m] < Cardinality(nodes) /\ passedOver[m] <= Cardinality(Arc(m, itNext, nodes))
      BY <1>1 DEF PassedInv, InTurn
    <2>8. \A m \in nodes : passedOver[m] < Cardinality(nodes') /\ passedOver[m] <= Cardinality(Arc(m, itNext, nodes'))
      <3> SUFFICES ASSUME NEW m \in nodes
                   PROVE  passedOver[m] < Cardinality(nodes') /\ passedOver[m] <= Cardinality(Arc(m, itNext, nodes'))
        OBVIOUS
      <3>1. m \in NodeIds /\ m \in nodes'
        BY <1>1 DEF NodesTyped
      <3> QED
        BY <3>1, <2>2, <2>3, <2>4, <2>5, <2>6, <2>7
    <2>9. n \notin nodes => passedOver[n] = 0
      BY DEF PassedInv
    <2>10. \A m \in nodes' : passedOver[m] < Cardinality(nodes') /\ passedOver[m] <= Cardinality(Arc(m, itNext, nodes'))
      <3> SUFFICES ASSUME NEW m \in nodes', m \notin nodes
                   PROVE  passedOver[m] < Cardinality(nodes') /\ passedOver[m] <= Cardinality(Arc(m, itNext, nodes'))
        BY <2>8
      <3>1. passedOver[m] = 0
        BY <1>1, <2>9
      <3> QED
        BY <3>1, <2>2, <2>3
    <2> QED
      BY <1>1, <2>10 DEF PassedInv
  <1> QED
    BY <1>4, <1>5, <1>6, <1>7

(* Steps that leave the map of the nodes and the turn alone.               *)
LEMMA NodesOutside ==
  ASSUME NodesIInv,
         UNCHANGED <<nodes, address, itNext, turn, chosen, excused, passedOver>>,
         isConnected' \in [NodeIds -> {"no", "yes", "lost"}],
         chosen # NoNode => (isConnected'[chosen] = "no" => isConnected[chosen] = "no"),
         up' \subseteq NodeIds, lastFailed' \in [NodeIds -> 0 .. Wait], lastDown' \in [NodeIds -> 0 .. Wait],
         DownInv'
  PROVE  NodesIInv'
  <1>1. NodesTyped'
    BY DEF NodesIInv, NodesTyped
  <1>2. TurnInv'
    BY DEF NodesIInv, TurnInv, InTurn
  <1>3. PassedInv'
    BY DEF NodesIInv, PassedInv, InTurn
  <1>4. RefusedByAll'
    BY DEF NodesIInv, RefusedByAll
  <1> QED
    BY <1>1, <1>2, <1>3, <1>4 DEF NodesIInv

\* All connections are closed.
LEMMA NodesCloseCluster ==
  ASSUME NodesIInv, CloseCluster
  PROVE  NodesIInv'
  <1>1. DownInv' /\ isConnected' \in [NodeIds -> {"no", "yes", "lost"}] /\ chosen = NoNode
    BY DEF CloseCluster, NodesIInv, DownInv
  <1>2. up' \subseteq NodeIds /\ lastFailed' \in [NodeIds -> 0 .. Wait] /\ lastDown' \in [NodeIds -> 0 .. Wait]
    BY DEF CloseCluster, NodesIInv, NodesTyped
  <1> QED
    BY <1>1, <1>2, NodesOutside DEF CloseCluster

\* A node goes down.
LEMMA NodesGoDown ==
  ASSUME NodesIInv, NEW n \in NodeIds, GoDown(n)
  PROVE  NodesIInv'
  <1>1. /\ up' = up \ {n} /\ lastDown' = [lastDown EXCEPT ![n] = 0] /\ lastFailed' = lastFailed
        /\ isConnected' = [isConnected EXCEPT ![n] = IF @ = "yes" THEN "lost" ELSE @]
        /\ UNCHANGED <<nodes, address, itNext, turn, chosen, excused, passedOver>>
    BY DEF GoDown
  <1>2. /\ isConnected \in [NodeIds -> {"no", "yes", "lost"}] /\ up \subseteq NodeIds
        /\ lastFailed \in [NodeIds -> 0 .. Wait] /\ lastDown \in [NodeIds -> 0 .. Wait] /\ Wait \in Nat
    BY NodesAssumption DEF NodesIInv, NodesTyped
  <1>3. isConnected' \in [NodeIds -> {"no", "yes", "lost"}] /\ \A m \in NodeIds : isConnected'[m] = "no" => isConnected[m] = "no"
    BY <1>1, <1>2
  <1>4. lastDown' \in [NodeIds -> 0 .. Wait] /\ \A m \in NodeIds : lastDown'[m] = IF m = n THEN 0 ELSE lastDown[m]
    BY <1>1, <1>2
  <1>5. DownInv'
    <2>1. \A m \in NodeIds \ up' : lastDown'[m] = 0
      BY <1>1, <1>4 DEF NodesIInv, DownInv
    <2>2. \A m \in NodeIds : 0 <= lastFailed[m]
      BY <1>2
    <2>3. \A m \in NodeIds : lastFailed[m] < Wait => m \in nodes /\ (m \notin address \/ lastDown'[m] <= lastFailed[m])
      BY <1>4, <2>2 DEF NodesIInv, DownInv
    <2> QED
      BY <1>1, <2>1, <2>3 DEF DownInv
  <1>6. chosen # NoNode => chosen \in NodeIds
    BY DEF NodesIInv, NodesTyped
  <1>7. up' \subseteq NodeIds
    BY <1>1, <1>2
  <1> QED
    BY <1>1, <1>2, <1>3, <1>4, <1>5, <1>6, <1>7, NodesOutside

\* A node comes up again.
LEMMA NodesComeUp ==
  ASSUME NodesIInv, NEW n \in NodeIds, ComeUp(n)
  PROVE  NodesIInv'
  <1>1. /\ up' = up \union {n} /\ lastDown' = lastDown /\ lastFailed' = lastFailed /\ isConnected' = isConnected
        /\ UNCHANGED <<nodes, address, itNext, turn, chosen, excused, passedOver>>
    BY DEF ComeUp
  <1>2. /\ isConnected \in [NodeIds -> {"no", "yes", "lost"}] /\ up' \subseteq NodeIds
        /\ lastFailed \in [NodeIds -> 0 .. Wait] /\ lastDown \in [NodeIds -> 0 .. Wait]
    BY <1>1 DEF NodesIInv, NodesTyped
  <1>3. DownInv'
    BY <1>1 DEF NodesIInv, DownInv
  <1> QED
    BY <1>1, <1>2, <1>3, NodesOutside

\* A node that refused a connection is left alone for Wait.
LEMMA NodesTimePasses ==
  ASSUME NodesIInv, TimePasses
  PROVE  NodesIInv'
  <1>1. /\ up' = up /\ isConnected' = isConnected
        /\ lastFailed' = [n \in NodeIds |-> Older(lastFailed[n])]
        /\ lastDown'   = [n \in NodeIds |-> IF n \in up THEN Older(lastDown[n]) ELSE 0]
        /\ UNCHANGED <<nodes, address, itNext, turn, chosen, excused, passedOver>>
    BY DEF TimePasses
  <1>2. /\ isConnected \in [NodeIds -> {"no", "yes", "lost"}] /\ up \subseteq NodeIds
        /\ lastFailed \in [NodeIds -> 0 .. Wait] /\ lastDown \in [NodeIds -> 0 .. Wait] /\ Wait \in Nat
    BY NodesAssumption DEF NodesIInv, NodesTyped
  <1>3. \A x \in 0 .. Wait : /\ Older(x) \in 0 .. Wait
                             /\ \A y \in 0 .. Wait : Older(x) < Wait => x < Wait /\ (y <= x => Older(y) <= Older(x))
    BY <1>2 DEF Older
  <1>4. lastFailed' \in [NodeIds -> 0 .. Wait] /\ lastDown' \in [NodeIds -> 0 .. Wait]
    BY <1>1, <1>2, <1>3
  <1>5. DownInv'
    <2>1. \A m \in NodeIds \ up' : lastDown'[m] = 0
      BY <1>1
    <2>2. ASSUME NEW m \in NodeIds, lastFailed'[m] < Wait
          PROVE  m \in nodes /\ (m \notin address \/ lastDown'[m] <= lastFailed'[m])
      <3>1. lastFailed'[m] = Older(lastFailed[m]) /\ lastFailed[m] \in 0 .. Wait /\ lastDown[m] \in 0 .. Wait
        BY <1>1, <1>2
      <3>2. lastFailed[m] < Wait
        BY <2>2, <3>1, <1>3
      <3>3. m \in nodes /\ (m \notin address \/ lastDown[m] <= lastFailed[m])
        BY <3>2 DEF NodesIInv, DownInv
      <3>4. lastDown'[m] = IF m \in up THEN Older(lastDown[m]) ELSE 0
        BY <1>1
      <3>5. lastFailed'[m] \in Nat
        BY <1>3, <3>1
      <3>6. lastDown[m] <= lastFailed[m] => Older(lastDown[m]) <= lastFailed'[m]
        BY <1>3, <3>1, <2>2
      <3>7. 0 <= lastFailed'[m]
        BY <3>5
      <3> QED
        BY <3>3, <3>4, <3>6, <3>7
    <2> QED
      BY <1>1, <2>1, <2>2 DEF DownInv
  <1> QED
    BY <1>1, <1>2, <1>4, <1>5, NodesOutside

\* The choice of a node, step by step.
LEMMA NodesStep ==
  ASSUME NodesIInv, [NodesNext]_nodesVars
  PROVE  NodesIInv'
  <1>1. CASE NextNode
    BY <1>1, NodesNextNode
  <1>2. CASE IsReady
    BY <1>2, NodesIsReady
  <1>3. CASE IsNotReady
    BY <1>3, NodesIsNotReady
  <1>4. CASE NoneReady
    BY <1>4, NodesNoneReady
  <1>5. CASE NewId
    BY <1>5, NodesNewId
  <1>6. CASE CloseCluster
    BY <1>6, NodesCloseCluster
  <1>7. CASE TimePasses
    BY <1>7, NodesTimePasses
  <1>8. CASE \E n \in NodeIds : AddClusterNode(n) \/ FindNode(n) \/ GoDown(n) \/ ComeUp(n)
    BY <1>8, NodesAddClusterNode, NodesFindNode, NodesGoDown, NodesComeUp
  <1>9. CASE UNCHANGED nodesVars
    <2>1. DownInv'
      BY <1>9 DEF nodesVars, NodesIInv, DownInv
    <2>2. isConnected \in [NodeIds -> {"no", "yes", "lost"}]
      BY DEF NodesIInv, NodesTyped
    <2>3. up' \subseteq NodeIds /\ lastFailed' \in [NodeIds -> 0 .. Wait] /\ lastDown' \in [NodeIds -> 0 .. Wait]
      BY <1>9 DEF nodesVars, NodesIInv, NodesTyped
    <2> QED
      BY <1>9, <2>1, <2>2, <2>3, NodesOutside DEF nodesVars
  <1> QED
    BY <1>1, <1>2, <1>3, <1>4, <1>5, <1>6, <1>7, <1>8, <1>9 DEF NodesNext

(* A client asks the nodes in turn: of as many turns in a row as there are *)
(* nodes, each node is tried in one, and NextNode returns a node without a *)
(* connection only when every node has refused one, each for a reason      *)
(* (Client::NextNode, Client::IsReady), for any number of nodes.           *)
THEOREM NodesInvHolds == NodesSpec => []NodesInv
  <1>1. NodesInit => NodesIInv
    BY NodesBegin
  <1>2. NodesIInv /\ [NodesNext]_nodesVars => NodesIInv'
    BY NodesStep
  <1>3. NodesIInv => NodesInv
    BY DEF NodesIInv, NodesInv, GoesRound, PassedInv
  <1> QED
    BY <1>1, <1>2, <1>3, PTL DEF NodesSpec

-----------------------------------------------------------------------------
(* What holds of a client of the cluster at every moment, whether it       *)
(* searches or chooses a node: searches return nothing foreign, and nodes  *)
(* are asked in turn (GCluster.cpp, Client.cpp).                           *)
THEOREM ClusterInvHolds == MCSpec => []ClusterInv
  <1>1. MCInit => SearchInit /\ NodesInit
    BY DEF MCInit
  <1>2. [MCNext]_<<what, searchVars, nodesVars>> => [SearchNext]_searchVars /\ [NodesNext]_nodesVars
    BY DEF MCNext
  <1>3. MCSpec => SearchSpec /\ NodesSpec
    BY <1>1, <1>2, PTL DEF MCSpec, SearchSpec, NodesSpec
  <1> QED
    BY <1>3, SearchInvHolds, NodesInvHolds, PTL DEF ClusterInv

=============================================================================
