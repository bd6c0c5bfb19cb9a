------------------------------ MODULE Objects ------------------------------
(***************************************************************************)
(* What the graph in the cluster is made of: points, and lines that lead    *)
(* out of one point and into another.  Graph makes it, Search follows it.  *)
(***************************************************************************)
CONSTANTS
  Points, Lines,
  None      \* nothing there

Sides == {"out", "in"}
=============================================================================
