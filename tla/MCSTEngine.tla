----------------------------- MODULE MCSTEngine -----------------------------
(* Two clients on two socket numbers: one that talks and one that only     *)
(* comes and goes.                                                         *)
EXTENDS STEngine

CONSTANTS Talker, Other

MCConns  == {Talker, Other}
MCMaxIn  == [c \in MCConns |-> IF c = Talker THEN 1 ELSE 0]
MCMaxOut == [c \in MCConns |-> IF c = Talker THEN 3 ELSE 0]
=============================================================================
