---------------------------- MODULE AlertEpisodes ----------------------------
(***************************************************************************)
(* The de-duplication promise of docs/ALERTS.md for one KPI, without its   *)
(* implementation: a breach opens an episode, alerts go out only for an    *)
(* episode that was opened, at most one for each of the evaluations that   *)
(* raced to open it (one, when they do not overlap), and nothing but an    *)
(* observed recovery closes it and re-arms the KPI.                        *)
(***************************************************************************)
EXTENDS Naturals

VARIABLES
    breaching,  \* an episode is open
    rivals,     \* the evaluations that raced to open the last one
    alerts      \* alerts sent since it opened

Init == breaching = FALSE /\ rivals = 0 /\ alerts = 0

Breach ==
    /\ ~breaching /\ breaching' = TRUE
    /\ rivals' \in Nat \ {0}
    /\ alerts' = 0

(* An alert may be late: its episode is over, or another has opened since. *)
Alert == alerts < rivals /\ alerts' = alerts + 1 /\ UNCHANGED <<breaching, rivals>>

Recover == breaching /\ breaching' = FALSE /\ UNCHANGED <<rivals, alerts>>

Next == Breach \/ Alert \/ Recover

Spec == Init /\ [][Next]_<<breaching, rivals, alerts>>
=============================================================================
