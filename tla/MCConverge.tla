----------------------------- MODULE MCConverge -----------------------------
(***************************************************************************)
(* Liveness of SyncEngine.  Two devices can overtake one another for ever: *)
(* each publishes between the other's put and re-LIST, so each time the    *)
(* other takes its own publication for lost and makes it again.  Nothing   *)
(* in the code excludes that, only time does: a whole pull and push has to *)
(* fit between a put and the LIST that follows it.  MaxOvertaken bounds    *)
(* how often it happens, and with it the generations a history can reach.  *)
(***************************************************************************)
EXTENDS MCSync

CONSTANT MaxOvertaken

VARIABLE overtaken   \* publications made inside another's put and re-LIST

Overtakes == store' # store /\ \E d \in Device : job[d].phase = "published"

TimelyNext ==
    /\ Next
    /\ IF Overtakes
       THEN overtaken < MaxOvertaken /\ overtaken' = overtaken + 1
       ELSE UNCHANGED overtaken

TimelySpec ==
    /\ Init /\ overtaken = 0
    /\ [][TimelyNext]_<<vars, overtaken>>
    /\ Fairness
=============================================================================
