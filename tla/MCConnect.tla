----------------------------- MODULE MCConnect -----------------------------
(***************************************************************************)
(* Who connects: a client to the servers it asks (Wire), and a server to   *)
(* others (ServerLinks).  They do not share state; which one is exercised  *)
(* is chosen at the start, and the other stays as it is.                   *)
(***************************************************************************)
EXTENDS MCWire, ServerLinks

VARIABLE what

MCInit ==
  /\ Init /\ LinksInit
  /\ what \in {"client", "links"}
  /\ what = "client" => engine = CHOOSE e \in Engines : TRUE
  /\ what = "client" => \A l \in Links : link[l].state = "free"
  /\ what = "links" => plan = CHOOSE p \in Plans : TRUE

MCNext ==
  /\ UNCHANGED what
  /\ \/ what = "client" /\ Next      /\ UNCHANGED linksVars
     \/ what = "links"  /\ LinksNext /\ UNCHANGED vars

\* One of the two goes on, and so do the workers of the links.
GoesOn ==
  \/ what = "client" /\ ClientStep /\ UNCHANGED linksVars
  \/ what = "links"  /\ Poller     /\ UNCHANGED vars

MCSpec ==
  /\ MCInit /\ [][MCNext]_<<what, vars, linksVars>>
  /\ WF_<<vars, linksVars>>(GoesOn) /\ WF_linksVars(what = "links" /\ Workers)
=============================================================================
