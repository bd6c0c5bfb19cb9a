----------------------------- MODULE Callbacks -----------------------------
(***************************************************************************)
(* What the network engine promises a server of its callbacks for one      *)
(* connection: OnConnect once; then OnMsg, one at a time; and at most one  *)
(* OnCloseConnect, while no OnMsg runs and after which there is none.      *)
(***************************************************************************)
CONSTANT Workers

VARIABLES
  connect,  \* OnConnect: "no", "running" or "done"
  readers,  \* the threads that run OnMsg
  close     \* OnCloseConnect: "no", "running" or "done"

vars == <<connect, readers, close>>

Init == connect = "no" /\ readers = {} /\ close = "no"

BeginConnect == connect = "no"      /\ connect' = "running" /\ UNCHANGED <<readers, close>>
EndConnect   == connect = "running" /\ connect' = "done"    /\ UNCHANGED <<readers, close>>

BeginMsg(w) ==
  /\ connect = "done" /\ readers = {} /\ close = "no"
  /\ readers' = {w}
  /\ UNCHANGED <<connect, close>>

EndMsg == readers # {} /\ readers' = {} /\ UNCHANGED <<connect, close>>

BeginClose ==
  /\ close = "no" /\ readers = {}
  /\ close' = "running"
  /\ UNCHANGED <<connect, readers>>

EndClose == close = "running" /\ close' = "done" /\ UNCHANGED <<connect, readers>>

Next ==
  BeginConnect \/ EndConnect \/ (\E w \in Workers : BeginMsg(w)) \/ EndMsg \/ BeginClose \/ EndClose

Spec == Init /\ [][Next]_vars
=============================================================================
