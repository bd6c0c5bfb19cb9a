---------------------------- MODULE MCSendFlow ----------------------------
(* One sender with a long message, others with two messages of a byte.     *)
EXTENDS SendFlow

CONSTANTS Long, LongSize

MCSizes == [s \in Senders |-> IF s = Long THEN {LongSize} ELSE {1}]

MCMaxSent == [s \in Senders |-> IF s = Long THEN LongSize ELSE 2]
=============================================================================
