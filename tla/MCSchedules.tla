---- MODULE MCSchedules ----
(* An instance of Schedules with the bodies the two dialogs and the pause  *)
(* button send, and lists in either order.                                 *)
EXTENDS Schedules

CONSTANTS p1, p2, hourly, daily

MCPatches ==
    { [ids |-> l, cron |-> Unset, enabled |-> Unset] : l \in {<<p1>>, <<p2, p1>>} }
    \cup { [ids |-> <<p2>>, cron |-> daily, enabled |-> Unset] }
    \cup { [ids |-> <<>>, cron |-> Unset, enabled |-> e] : e \in BOOLEAN }
====
