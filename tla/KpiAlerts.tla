------------------------------ MODULE KpiAlerts ------------------------------
(***************************************************************************)
(* KPI alerting for ONE threshold: the heartbeat that enqueues due         *)
(* evaluations, the evaluate_kpi actor with its retries, and the breach    *)
(* state on the KPI's row.  Evaluations of different KPIs share nothing.   *)
(*                                                                         *)
(* An evaluation loads the row (and from then on works with the copy in    *)
(* its session), measures the metric in ClickHouse, and applies the        *)
(* outcome to the copy: a new breach is committed BEFORE the alert is      *)
(* sent, and a failed delivery is only logged.  The row is never locked    *)
(* between the load and the commit, and nothing keeps two evaluations of   *)
(* the KPI apart: a heartbeat may find it due while the message of the     *)
(* last one, or its retry, is still at work in another thread.             *)
(*                                                                         *)
(* Every message holds the KPI's id only, so that a message delivered      *)
(* twice is one more message, which the heartbeat may send at any time.    *)
(***************************************************************************)
EXTENDS Naturals, FiniteSets

CONSTANTS
    Messages,    \* messages the broker holds at most, each used repeatedly
    MaxRetries,  \* max_retries of the actor
    MaxFaults    \* bound: crashes and evaluations that raise

ASSUME MessagesAreFinite == IsFiniteSet(Messages)
ASSUME BoundsAreNaturals == MaxRetries \in Nat /\ MaxFaults \in Nat

VARIABLES
    kpi,           \* the row: "enabled", "disabled" or "deleted"
    is_breaching,  \* the committed column
    metric,        \* what a query answers now: "breached", "normal", "none"
    pc, tries,     \* per message: its step, and the retries used
    seen,          \* seen[m]: is_breaching as m's evaluation loaded it
    value,         \* value[m]: the metric as m's evaluation measured it
    sent,          \* history: alerts sent since is_breaching last turned true
    rivals,        \* history: evaluations that could still alert just then
    faults

vars == <<kpi, is_breaching, metric, pc, tries, seen, value, sent, rivals,
          faults>>

history == <<sent, rivals>>

Metrics == {"breached", "normal", "none"}
InFlight == {"received", "loaded", "measured", "recorded"}

TypeOK ==
    /\ kpi \in {"enabled", "disabled", "deleted"}
    /\ is_breaching \in BOOLEAN
    /\ metric \in Metrics
    /\ pc \in [Messages -> {"idle", "queued"} \cup InFlight]
    /\ tries \in [Messages -> 0..MaxRetries]
    /\ seen \in [Messages -> BOOLEAN]
    /\ value \in [Messages -> Metrics]
    /\ sent \in Nat /\ rivals \in Nat
    /\ faults \in 0..MaxFaults

Init ==
    /\ kpi = "enabled"
    /\ is_breaching = FALSE
    /\ metric \in Metrics
    /\ pc = [m \in Messages |-> "idle"]
    /\ tries = [m \in Messages |-> 0]
    /\ seen = [m \in Messages |-> FALSE]
    /\ value = [m \in Messages |-> "none"]
    /\ sent = 0 /\ rivals = 0
    /\ faults = 0

-----------------------------------------------------------------------------
(* The data, and the operator who edits the registry.                      *)

MetricChanges ==
    /\ metric' \in Metrics
    /\ UNCHANGED <<kpi, is_breaching, pc, tries, seen, value, history, faults>>

(* Enabled or disabled; or deleted, alone or with its dataset or tenant.   *)
OperatorEdits ==
    /\ kpi # "deleted"
    /\ kpi' \in {"enabled", "disabled", "deleted"}
    /\ UNCHANGED <<is_breaching, metric, pc, tries, seen, value, history, faults>>

-----------------------------------------------------------------------------
(* The message's way through the broker.                                   *)

Goto(m, step) == pc' = [pc EXCEPT ![m] = step]

(* The values a finished or broken-off evaluation forgets.                 *)
Forget(m) ==
    /\ seen' = [seen EXCEPT ![m] = FALSE]
    /\ value' = [value EXCEPT ![m] = "none"]

(* The heartbeat finds the KPI enabled and due.                            *)
Dispatch(m) ==
    /\ kpi = "enabled"
    /\ pc[m] = "idle"
    /\ Goto(m, "queued")
    /\ UNCHANGED <<kpi, is_breaching, metric, tries, seen, value, history, faults>>

(* The actor does not look whether the KPI is still enabled.               *)
Receive(m) ==
    /\ pc[m] = "queued"
    /\ Goto(m, "received")
    /\ UNCHANGED <<kpi, is_breaching, metric, tries, seen, value, history, faults>>

Finish(m) ==
    /\ Goto(m, "idle")
    /\ tries' = [tries EXCEPT ![m] = 0]
    /\ Forget(m)

(* Mutant: one retry too many.                                             *)
RaiseOnceMore(m) ==
    /\ \/ /\ tries[m] =< MaxRetries
          /\ Goto(m, "queued")
          /\ tries' = [tries EXCEPT ![m] = @ + 1]
       \/ /\ tries[m] > MaxRetries
          /\ Goto(m, "idle")
          /\ tries' = [tries EXCEPT ![m] = 0]
    /\ Forget(m)
    /\ UNCHANGED <<kpi, is_breaching, metric, history>>

(* An exception rolls back; the message is retried, or dead-lettered.      *)
Raise(m) ==
    /\ \/ /\ tries[m] < MaxRetries
          /\ Goto(m, "queued")
          /\ tries' = [tries EXCEPT ![m] = @ + 1]
       \/ /\ tries[m] = MaxRetries
          /\ Goto(m, "idle")
          /\ tries' = [tries EXCEPT ![m] = 0]
    /\ Forget(m)
    /\ UNCHANGED <<kpi, is_breaching, metric, history>>

Fault == faults < MaxFaults /\ faults' = faults + 1

(* The worker dies, and the broker delivers the message again.             *)
Crash(m) ==
    /\ pc[m] \in InFlight
    /\ Fault
    /\ Goto(m, "queued")
    /\ Forget(m)
    /\ UNCHANGED <<kpi, is_breaching, metric, tries, history>>

-----------------------------------------------------------------------------
(* evaluate                                                                *)

Load(m) ==
    /\ pc[m] = "received" /\ kpi # "deleted"
    /\ seen' = [seen EXCEPT ![m] = is_breaching]
    /\ Goto(m, "loaded")
    /\ UNCHANGED <<kpi, is_breaching, metric, tries, value, history, faults>>

(* KpiNotFoundError.                                                       *)
LoadNothing(m) ==
    /\ pc[m] = "received" /\ kpi = "deleted"
    /\ Raise(m) /\ UNCHANGED faults

(* The tenant's scope, then the aggregate, then its single value.          *)
Measure(m) ==
    /\ pc[m] = "loaded"
    /\ value' = [value EXCEPT ![m] = metric]
    /\ Goto(m, "measured")
    /\ UNCHANGED <<kpi, is_breaching, metric, tries, seen, history, faults>>

(* Anything before the commit may raise, the commit included.              *)
EvaluationFails(m) ==
    /\ pc[m] \in {"received", "loaded", "measured"}
    /\ Fault /\ Raise(m)

(* No data, no breach, or a breach alerted before.                         *)
NothingToDo(m) ==
    /\ pc[m] = "measured"
    /\ \/ value[m] = "none"
       \/ value[m] = "breached" /\ seen[m]
       \/ value[m] = "normal" /\ ~seen[m]
    /\ Finish(m)
    /\ UNCHANGED <<kpi, is_breaching, metric, history, faults>>

NewBreach(m) == pc[m] = "measured" /\ value[m] = "breached" /\ ~seen[m]
Recovery(m) == pc[m] = "measured" /\ value[m] = "normal" /\ seen[m]

(* The evaluations that may still alert without reading the row again.     *)
Owing == {m \in Messages : \/ pc[m] \in {"loaded", "measured"} /\ ~seen[m]
                           \/ pc[m] = "recorded"}

(* The column turns true, and an episode opens; or it was true already.    *)
Breaches ==
    /\ is_breaching' = TRUE
    /\ \/ ~is_breaching /\ sent' = 0 /\ rivals' = Cardinality(Owing)
       \/ is_breaching /\ UNCHANGED history

(* Mutants: every breach counts as new; the breach is not committed; the   *)
(* alert goes out before it is.                                            *)
FireOnCondition(m) ==
    /\ pc[m] = "measured" /\ value[m] = "breached" /\ kpi # "deleted"
    /\ Breaches
    /\ Goto(m, "recorded")
    /\ UNCHANGED <<kpi, metric, tries, seen, value, faults>>

RecordNothing(m) ==
    /\ NewBreach(m) /\ kpi # "deleted"
    /\ Goto(m, "recorded")
    /\ UNCHANGED <<kpi, is_breaching, metric, tries, seen, value, history, faults>>

DeliverThenRecord(m) ==
    /\ NewBreach(m) /\ kpi # "deleted"
    /\ sent' = sent + 1
    /\ is_breaching' \in {TRUE, is_breaching}
    /\ Finish(m)
    /\ UNCHANGED <<kpi, metric, rivals, faults>>

RecordBreach(m) ==
    /\ NewBreach(m) /\ kpi # "deleted"
    /\ Breaches
    /\ Goto(m, "recorded")
    /\ UNCHANGED <<kpi, metric, tries, seen, value, faults>>

(* A failed delivery is logged, and the job succeeds all the same.         *)
Deliver(m) ==
    /\ pc[m] = "recorded"
    /\ \/ sent' = sent + 1
       \/ UNCHANGED sent
    /\ Finish(m)
    /\ UNCHANGED <<kpi, is_breaching, metric, rivals, faults>>

(* Mutant: a recovery is noticed, but does not re-arm the KPI.             *)
RecoverNotRearmed(m) ==
    /\ Recovery(m) /\ kpi # "deleted"
    /\ Finish(m)
    /\ UNCHANGED <<kpi, is_breaching, metric, history, faults>>

RecordRecovery(m) ==
    /\ Recovery(m) /\ kpi # "deleted"
    /\ is_breaching' = FALSE
    /\ Finish(m)
    /\ UNCHANGED <<kpi, metric, history, faults>>

(* The UPDATE of a row deleted since it was loaded matches nothing, and    *)
(* raises.                                                                 *)
RowVanished(m) ==
    /\ NewBreach(m) \/ Recovery(m)
    /\ kpi = "deleted"
    /\ Raise(m) /\ UNCHANGED faults

-----------------------------------------------------------------------------
Evaluate(m) ==
    \/ Receive(m) \/ Load(m) \/ LoadNothing(m) \/ Measure(m) \/ NothingToDo(m)
    \/ RecordBreach(m) \/ Deliver(m) \/ RecordRecovery(m) \/ RowVanished(m)

Next ==
    \/ MetricChanges \/ OperatorEdits
    \/ \E m \in Messages :
         Dispatch(m) \/ Evaluate(m) \/ EvaluationFails(m) \/ Crash(m)

Spec == Init /\ [][Next]_vars

(* The heartbeat keeps finding the KPI due, and the workers keep running.  *)
FairSpec ==
    /\ Spec
    /\ WF_vars(\E m \in Messages : Dispatch(m))
    /\ \A m \in Messages : WF_vars(Evaluate(m))

-----------------------------------------------------------------------------
(* A breach is alerted at most once by each evaluation that had read the   *)
(* row unbreached, or had an alert still to send, when the breach was      *)
(* recorded: retries, crashes, redeliveries and failed deliveries add      *)
(* none, nor does an evaluation that begins later, and a breach recorded   *)
(* with no rival at work is alerted once at most.                          *)
OneAlertPerRival == sent =< rivals

(* The alerting implements AlertEpisodes: an alert needs a recorded breach *)
(* with a rival that has not alerted yet, and only an observed recovery    *)
(* re-arms.                                                                *)
Episodes == INSTANCE AlertEpisodes
                WITH breaching <- is_breaching, alerts <- sent
ImplementsEpisodes == Episodes!Spec

(* "de-duplicates so a breach alerts exactly once" (docs/ALERTS.md).       *)
OneAlertPerEpisode == sent =< 1

(* The breach state settles on the truth.  A breach that lasts while the   *)
(* KPI is enabled ends up recorded for good, and a recovery that lasts     *)
(* re-arms the KPI for good, however stale the row and the value with      *)
(* which overlapping evaluations write.                                    *)
SustainedBreachIsRecorded ==
    <>[](kpi = "enabled" /\ metric = "breached") => <>[]is_breaching

SustainedRecoveryRearms ==
    <>[](kpi = "enabled" /\ metric = "normal") => <>[]~is_breaching
=============================================================================
