---------------------------- MODULE MCFieldMap ----------------------------
(* Model checking of FieldMap by itself, with two keys in an order.        *)
EXTENDS FieldMap

TwoKeys == [k \in Keys |-> [n \in Keys |-> IF k < n THEN "left" ELSE "right"]]
=============================================================================
