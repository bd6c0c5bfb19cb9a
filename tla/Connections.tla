---------------------------- MODULE Connections ----------------------------
(***************************************************************************)
(* What Link, Unlink and DelPoint promise of the connections between       *)
(* points: a connection is made once, in one step, seen from both of its   *)
(* ends, and once it is gone it does not come back.                        *)
(***************************************************************************)
EXTENDS FiniteSets

CONSTANTS Lines

VARIABLE connection  \* connection[l]: "none", "made" or "gone"

Init == connection = [l \in Lines |-> "none"]

(* A line is added: the connection is made, or comes too late to be made.  *)
Make(l) ==
  /\ connection[l] = "none"
  /\ connection' \in {[connection EXCEPT ![l] = "made"],
                      [connection EXCEPT ![l] = "gone"]}

(* Deleting a line breaks one connection, deleting a point all it has.     *)
Break(S) ==
  /\ \A l \in S : connection[l] = "made"
  /\ connection' = [l \in Lines |-> IF l \in S THEN "gone" ELSE connection[l]]

Next == (\E l \in Lines : Make(l)) \/ (\E S \in SUBSET Lines : Break(S))

Spec == Init /\ [][Next]_connection
=============================================================================
