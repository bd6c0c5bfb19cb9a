------------------------------ MODULE MCGraph ------------------------------
(***************************************************************************)
(* Model checking of Graph with one Java and one C++ client.               *)
(***************************************************************************)
EXTENDS Graph, TLC

CONSTANTS j, c, p1, p2, l1, l2, n1, n2

MCSdk   == (j :> "java") @@ (c :> "cpp")
MCOwner == (p1 :> n1) @@ (p2 :> n2) @@ (l1 :> n1) @@ (l2 :> n2)
=============================================================================
