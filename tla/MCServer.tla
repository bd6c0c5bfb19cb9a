------------------------------ MODULE MCServer ------------------------------
(***************************************************************************)
(* What mdk gives to a server: a life from Start to Stop (Lifecycle), data *)
(* kept with each connection (HostData), timers (Timer) and the map that   *)
(* the fields of a point or a line are kept in (FieldMap).  They do not    *)
(* share state; which one is exercised is chosen at the start, and the     *)
(* others stay as they are.                                                *)
(***************************************************************************)
EXTENDS Lifecycle, HostData, Timer, FieldMap, TLC

VARIABLE what

MCInit ==
  /\ LifeInit /\ HostDataInit /\ TimerInit /\ FieldInit
  /\ what \in {"life", "host", "timer", "fields"}
  /\ what # "host" => mode = "own"

MCNext ==
  /\ UNCHANGED what
  /\ \/ what = "life"   /\ LifeNext     /\ UNCHANGED <<hostDataVars, timerVars, fieldVars>>
     \/ what = "host"   /\ HostDataNext /\ UNCHANGED <<lifeVars, timerVars, fieldVars>>
     \/ what = "timer"  /\ TimerNext    /\ UNCHANGED <<lifeVars, hostDataVars, fieldVars>>
     \/ what = "fields" /\ FieldNext    /\ UNCHANGED <<lifeVars, hostDataVars, timerVars>>

MCSpec == MCInit /\ [][MCNext]_<<what, lifeVars, hostDataVars, timerVars, fieldVars>>

Symmetry == Permutations(Values \ TooBig)

\* Of three keys each is smaller than the next and the last smaller than the first.
Round == CHOOSE f \in [1..3 -> [1..3 -> {"left", "right"}]] :
           \A i, j \in 1..3 : f[i][j] = IF j = (i % 3) + 1 THEN "left" ELSE "right"

(* What holds of a server, its connections' data and its timers at every   *)
(* moment.                                                                 *)
ServerInv == LifeInv /\ HostDataTypeOK /\ TimerInv
=============================================================================
