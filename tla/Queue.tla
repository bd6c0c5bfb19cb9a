------------------------------- MODULE Queue -------------------------------
(***************************************************************************)
(* The ring of mdk (Queue.cpp) for one thread that pushes and several that *)
(* pop, or the other way round, without a lock.  Push and Pop are mirror   *)
(* images: each counts itself in at its own side (m_nWriteAbleCount or     *)
(* m_nReadAbleCount), takes a position (m_push or m_pop), uses the node if *)
(* it is ready and counts it in at the other side.  A thread that finds    *)
(* its node still in use by one that came before it gives everything back. *)
(***************************************************************************)
EXTENDS Integers, Sequences, FiniteSets

CONSTANTS
  Users,    \* threads that push or pop
  Size,     \* m_nSize
  Wrap,     \* number of values of m_push and m_pop: 2^32
  MaxObject \* bound of the model: objects that are pushed

\* The ring goes wrong when the positions wrap at a number Size does not divide.
ASSUME QueueAssumption ==
  /\ Size \in Nat \ {0} /\ MaxObject \in Nat
  /\ Wrap \in Nat \ {0} /\ Wrap % Size = 0

VARIABLES
  side,     \* what each thread does: "push" or "pop"
  nodes,    \* the ring: pObject (0 for NULL) and IsEmpty of each node
  position, \* m_push and m_pop
  able,     \* m_nWriteAbleCount and m_nReadAbleCount
  step,     \* what each thread does next, with which object, at which position
  pushed,   \* the objects in the order in which they were pushed (history)
  popped    \* the objects that were returned (history)

queueVars == <<side, nodes, position, able, step, pushed, popped>>

Sides == {"push", "pop"}
Other(s) == IF s = "push" THEN "pop" ELSE "push"

Resting == [op |-> "none", object |-> 0, at |-> 0]

Go(t, op, object, at) == step' = [step EXCEPT ![t] = [op |-> op, object |-> object, at |-> at]]

\* One thread is alone at its side (Queue.h).
QueueInit ==
  /\ side \in {f \in [Users -> Sides] : \E s \in Sides : Cardinality({t \in Users : f[t] = s}) = 1}
  /\ nodes = [i \in 0..Size-1 |-> [object |-> 0, empty |-> TRUE]]
  /\ position = [s \in Sides |-> 0]
  /\ able = [push |-> Size, pop |-> 0]
  /\ step = [t \in Users |-> Resting]
  /\ pushed = <<>> /\ popped = {}

\* Each object is pushed by one call; a caller that is refused calls again.
InHand == {step[t].object : t \in {u \in Users : side[u] = "push"}} \ {0}
Accepted == {pushed[i] : i \in DOMAIN pushed}
Unused == (1..MaxObject) \ (InHand \union Accepted)
NextObject == IF Unused = {} THEN 0 ELSE CHOOSE x \in Unused : \A y \in Unused : x <= y

Begin(t) ==
  /\ step[t].op = "none"
  /\ able[side[t]] > 0
  /\ \/ side[t] = "pop" /\ Go(t, "countIn", 0, 0)
     \/ side[t] = "push" /\ step[t].object # 0 /\ Go(t, "countIn", step[t].object, 0)
     \/ /\ side[t] = "push" /\ step[t].object = 0 /\ Unused # {}
        /\ Go(t, "countIn", NextObject, 0)
  /\ UNCHANGED <<side, nodes, position, able, pushed, popped>>

\* The old count comes back as an unsigned number: only 0 is refused, and a
\* third thread, which finds -1, goes on without a node that is its own.
CountIn(t) == LET s == side[t] IN
  /\ step[t].op = "countIn"
  /\ able' = [able EXCEPT ![s] = @ - 1]
  /\ Go(t, IF able[s] # 0 THEN "position" ELSE "countOut", step[t].object, 0)
  /\ UNCHANGED <<side, nodes, position, pushed, popped>>

TakePosition(t) == LET s == side[t] IN
  /\ step[t].op = "position"
  /\ position' = [position EXCEPT ![s] = (@ + 1) % Wrap]
  /\ Go(t, "look", step[t].object, position[s] % Size)
  /\ UNCHANGED <<side, nodes, able, pushed, popped>>

LookAtNode(t) == LET i == step[t].at IN
  /\ step[t].op = "look"
  /\ Go(t, IF nodes[i].empty = (side[t] = "push") THEN "object" ELSE "read", step[t].object, i)
  /\ UNCHANGED <<side, nodes, position, able, pushed, popped>>

\* m_push-- and m_pop-- are a read and a write.
ReadPosition(t) ==
  /\ step[t].op = "read"
  /\ Go(t, "write", step[t].object, position[side[t]])
  /\ UNCHANGED <<side, nodes, position, able, pushed, popped>>

WritePosition(t) ==
  /\ step[t].op = "write"
  /\ position' = [position EXCEPT ![side[t]] = (step[t].at - 1) % Wrap]
  /\ Go(t, "countOut", step[t].object, 0)
  /\ UNCHANGED <<side, nodes, able, pushed, popped>>

CountOut(t) ==
  /\ step[t].op = "countOut"
  /\ able' = [able EXCEPT ![side[t]] = @ + 1]
  /\ Go(t, "none", step[t].object, 0)
  /\ UNCHANGED <<side, nodes, position, pushed, popped>>

UseObject(t) == LET i == step[t].at IN
  /\ step[t].op = "object"
  /\ Go(t, "flag", IF side[t] = "push" THEN step[t].object ELSE nodes[i].object, i)
  /\ nodes' = [nodes EXCEPT ![i].object = IF side[t] = "push" THEN step[t].object ELSE 0]
  /\ UNCHANGED <<side, position, able, pushed, popped>>

SetFlag(t) == LET i == step[t].at IN
  /\ step[t].op = "flag"
  /\ nodes' = [nodes EXCEPT ![i].empty = (side[t] = "pop")]
  /\ pushed' = IF side[t] = "push" THEN Append(pushed, step[t].object) ELSE pushed
  /\ Go(t, "countOther", step[t].object, i)
  /\ UNCHANGED <<side, position, able, popped>>

CountOther(t) ==
  /\ step[t].op = "countOther"
  /\ able' = [able EXCEPT ![Other(side[t])] = @ + 1]
  /\ popped' = IF side[t] = "pop" THEN popped \union {step[t].object} ELSE popped
  /\ Go(t, "none", 0, 0)
  /\ UNCHANGED <<side, nodes, position, pushed>>

QueueStep(t) ==
  \/ Begin(t) \/ CountIn(t) \/ TakePosition(t) \/ LookAtNode(t) \/ ReadPosition(t) \/ WritePosition(t)
  \/ CountOut(t) \/ UseObject(t) \/ SetFlag(t) \/ CountOther(t)

QueueNext == \E t \in Users : QueueStep(t)

----------------------------------------------------------------------------
(* Every variable holds values of its kind (Queue.h).                      *)
QueueTypeOK ==
  /\ side \in [Users -> Sides]
  /\ nodes \in [0..Size-1 -> [object : 0..MaxObject, empty : BOOLEAN]]
  /\ position \in [Sides -> 0..Wrap-1]
  /\ able \in [Sides -> -Cardinality(Users)..Size]
  /\ step \in [Users -> [op : {"none", "countIn", "position", "look", "read", "write", "countOut",
                               "object", "flag", "countOther"},
                         object : 0..MaxObject, at : 0..Wrap-1]]
  /\ \A t \in Users : step[t].op \in {"look", "object", "flag"} => step[t].at < Size

(* No object is lost and none is returned twice: each one that was pushed  *)
(* is in the ring, in the hands of one thread that pops it, or returned,   *)
(* and a thread never gets NULL for an object.  It takes that at most two  *)
(* threads are at a side: with three, CountIn lets one pass too many, and  *)
(* two may put their objects into the same node.                           *)
EachOnce ==
  LET Ring   == {i \in 0..Size-1 : nodes[i].object # 0}
      Hands  == {t \in Users : side[t] = "pop" /\ step[t].op \in {"flag", "countOther"}}
      Half   == {step[t].object : t \in {u \in Users : side[u] = "push" /\ step[u].op = "flag"}}
  IN /\ \A t \in Hands : step[t].object # 0
     /\ Accepted \union Half = {nodes[i].object : i \in Ring} \union {step[t].object : t \in Hands} \union popped
     /\ Cardinality(Accepted \union Half) = Cardinality(Ring) + Cardinality(Hands) + Cardinality(popped)

(* Between calls the counts are right: as many nodes can be read as hold   *)
(* an object and as many written as do not, whatever was given back.       *)
CountsRight ==
  (\A t \in Users : step[t].op = "none") =>
    /\ able["pop"]  = Cardinality({i \in 0..Size-1 : ~nodes[i].empty})
    /\ able["push"] = Cardinality({i \in 0..Size-1 : nodes[i].empty})

(* The structure of the ring at every moment.                              *)
QueueInv == QueueTypeOK /\ EachOnce /\ CountsRight
=============================================================================
