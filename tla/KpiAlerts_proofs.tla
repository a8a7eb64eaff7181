-------------------------- MODULE KpiAlerts_proofs --------------------------
(* What KpiAlerts satisfies for any number of messages, retries and faults.*)
EXTENDS KpiAlerts, FiniteSetTheorems, TLAPS

LEMMA FaultIsCounted == TypeOK /\ Fault => faults' \in 0..MaxFaults
BY BoundsAreNaturals DEF TypeOK, Fault

(* The evaluations that may alert, and those that are about to, are        *)
(* finitely many.                                                          *)
Recorded == {m \in Messages : pc[m] = "recorded"}

LEMMA OwingIsCounted ==
    /\ IsFiniteSet(Owing) /\ Cardinality(Owing) \in Nat
    /\ IsFiniteSet(Recorded) /\ Cardinality(Recorded) \in Nat
    /\ Recorded \subseteq Owing
<1>1. Owing \subseteq Messages /\ Recorded \subseteq Owing
  BY DEF Owing, Recorded
<1> QED
  BY <1>1, MessagesAreFinite, FS_Subset, FS_CardinalityType

LEMMA RaiseIsTyped ==
    ASSUME TypeOK, NEW m \in Messages, Raise(m)
    PROVE  /\ pc' \in [Messages -> {"idle", "queued"} \cup InFlight]
           /\ tries' \in [Messages -> 0..MaxRetries]
           /\ seen' \in [Messages -> BOOLEAN]
           /\ value' \in [Messages -> Metrics]
<1> USE BoundsAreNaturals DEF TypeOK, Raise, Goto, Forget, Metrics, InFlight
<1>1. seen' \in [Messages -> BOOLEAN]
  OBVIOUS
<1>2. value' \in [Messages -> Metrics]
  OBVIOUS
<1>3. pc' \in [Messages -> {"idle", "queued"} \cup InFlight]
  OBVIOUS
<1>4. tries' \in [Messages -> 0..MaxRetries]
  OBVIOUS
<1> QED
  BY <1>1, <1>2, <1>3, <1>4

LEMMA FinishIsTyped ==
    ASSUME TypeOK, NEW m \in Messages, Finish(m)
    PROVE  /\ pc' \in [Messages -> {"idle", "queued"} \cup InFlight]
           /\ tries' \in [Messages -> 0..MaxRetries]
           /\ seen' \in [Messages -> BOOLEAN]
           /\ value' \in [Messages -> Metrics]
BY BoundsAreNaturals DEF TypeOK, Finish, Goto, Forget, Metrics, InFlight

(* The steps of KpiAlerts keep every variable in its type.                 *)
THEOREM TypeCorrect == Spec => []TypeOK
<1>1. Init => TypeOK
  <2> SUFFICES ASSUME Init PROVE TypeOK
    OBVIOUS
  <2>1. is_breaching \in BOOLEAN
    BY Zenon DEF Init
  <2> QED
    BY <2>1, BoundsAreNaturals DEF Init, TypeOK, Metrics
<1>2. TypeOK /\ [Next]_vars => TypeOK'
  <2> SUFFICES ASSUME TypeOK, [Next]_vars PROVE TypeOK'
    OBVIOUS
  <2> USE FaultIsCounted
  <2>1. CASE MetricChanges
    BY <2>1 DEF TypeOK, MetricChanges, history
  <2>2. CASE OperatorEdits
    BY <2>2 DEF TypeOK, OperatorEdits, history
  <2>3. ASSUME NEW m \in Messages,
               Dispatch(m) \/ Evaluate(m) \/ EvaluationFails(m) \/ Crash(m)
        PROVE  TypeOK'
    <3>1. CASE Dispatch(m) \/ Receive(m)
      BY <3>1 DEF TypeOK, Dispatch, Receive, Goto, InFlight, history
    <3>2. CASE Load(m)
      BY <3>2 DEF TypeOK, Load, Goto, InFlight, history
    <3>3. CASE LoadNothing(m) \/ RowVanished(m) \/ EvaluationFails(m)
      <4>1. /\ Raise(m)
            /\ faults' \in 0..MaxFaults
        BY <3>3
        DEF LoadNothing, RowVanished, EvaluationFails, TypeOK
      <4>2. kpi' = kpi /\ is_breaching' = is_breaching /\ metric' = metric
            /\ sent' = sent /\ rivals' = rivals
        BY <4>1 DEF Raise, history
      <4> QED
        BY <4>1, <4>2, RaiseIsTyped DEF TypeOK
    <3>4. CASE Measure(m)
      BY <3>4 DEF TypeOK, Measure, Goto, InFlight, history
    <3>5. CASE NothingToDo(m) \/ Deliver(m) \/ RecordRecovery(m)
      <4>1. /\ Finish(m)
            /\ sent' \in Nat
            /\ UNCHANGED <<kpi, metric, rivals, faults>>
        BY <3>5 DEF NothingToDo, Deliver, RecordRecovery, TypeOK, history
      <4>2. is_breaching' \in BOOLEAN
        BY <3>5, Zenon DEF NothingToDo, Deliver, RecordRecovery, TypeOK
      <4> QED
        BY <4>1, <4>2, FinishIsTyped DEF TypeOK
    <3>6. CASE RecordBreach(m)
      <4>1. sent' \in Nat /\ rivals' \in Nat
        BY <3>6, OwingIsCounted DEF TypeOK, RecordBreach, Breaches, history
      <4>2. is_breaching' \in BOOLEAN
        BY <3>6 DEF RecordBreach, Breaches
      <4> QED
        BY <3>6, <4>1, <4>2 DEF TypeOK, RecordBreach, Goto, InFlight
    <3>7. CASE Crash(m)
      BY <3>7 DEF TypeOK, Crash, Goto, Forget, InFlight, Metrics, history
    <3> QED
      BY <2>3, <3>1, <3>2, <3>3, <3>4, <3>5, <3>6, <3>7 DEF Evaluate
  <2>4. CASE UNCHANGED vars
    BY <2>4 DEF TypeOK, vars
  <2> QED
    BY <2>1, <2>2, <2>3, <2>4 DEF Next
<1> QED
  BY <1>1, <1>2, PTL DEF Spec

-----------------------------------------------------------------------------
(* Alerting under overlap.  While the KPI breaches, nobody joins the       *)
(* evaluations that may still alert, and each that alerts leaves them; in  *)
(* between, only those about to send are left.  So the alerts sent and     *)
(* those that may follow are never more than the rivals there were.        *)

EpisodeInv ==
    /\ sent + Cardinality(Recorded) =< rivals
    /\ is_breaching => sent + Cardinality(Owing) =< rivals

LEMMA EpisodeInvInit == Init => EpisodeInv
<1> SUFFICES ASSUME Init PROVE EpisodeInv
  OBVIOUS
<1>1. Recorded = {} /\ ~is_breaching /\ sent = 0 /\ rivals = 0
  BY DEF Init, Recorded
<1> QED
  BY <1>1, FS_EmptySet DEF EpisodeInv

Steps(m) == Dispatch(m) \/ Evaluate(m) \/ EvaluationFails(m) \/ Crash(m)

(* A step of one message leaves the others where they are.                 *)
LEMMA OthersStay ==
    ASSUME TypeOK, NEW m \in Messages, Steps(m), NEW n \in Messages, n # m
    PROVE  pc'[n] = pc[n] /\ seen'[n] = seen[n]
BY DEF TypeOK, Steps, Dispatch, Evaluate, Receive, Load, LoadNothing, Measure,
       NothingToDo, RecordBreach, Deliver, RecordRecovery, RowVanished,
       EvaluationFails, Crash, Raise, Finish, Goto, Forget

(* Hence it changes the two sets by itself at most.                        *)
LEMMA OnlyItselfMoves ==
    ASSUME TypeOK, NEW m \in Messages, Steps(m)
    PROVE  /\ Owing' \ {m} = Owing \ {m}
           /\ Recorded' \ {m} = Recorded \ {m}
<1>1. \A n \in Messages : n # m => pc'[n] = pc[n] /\ seen'[n] = seen[n]
  BY OthersStay
<1> QED
  BY <1>1 DEF Owing, Recorded

LEMMA OwingIsCountedNext ==
    /\ IsFiniteSet(Owing') /\ Cardinality(Owing') \in Nat
    /\ IsFiniteSet(Recorded') /\ Cardinality(Recorded') \in Nat
    /\ Recorded' \subseteq Owing'
<1>1. Owing' \subseteq Messages /\ Recorded' \subseteq Owing'
  BY DEF Owing, Recorded
<1> QED
  BY <1>1, MessagesAreFinite, FS_Subset, FS_CardinalityType

(* A step by which nobody comes to owe an alert keeps the account.         *)
LEMMA QuietMove ==
    ASSUME TypeOK, EpisodeInv, UNCHANGED <<is_breaching, sent, rivals>>,
           Recorded' \subseteq Recorded,
           is_breaching => Owing' \subseteq Owing
    PROVE  EpisodeInv'
<1>1. Cardinality(Recorded') =< Cardinality(Recorded)
  BY OwingIsCounted, FS_Subset
<1>2. is_breaching => Cardinality(Owing') =< Cardinality(Owing)
  BY OwingIsCounted, FS_Subset
<1> QED
  BY <1>1, <1>2, OwingIsCounted, OwingIsCountedNext DEF EpisodeInv, TypeOK

LEMMA EpisodeStep ==
    ASSUME TypeOK, EpisodeInv, NEW m \in Messages, Steps(m)
    PROVE  /\ EpisodeInv'
           /\ [Episodes!Next]_<<is_breaching, rivals, sent>>
<1> USE OwingIsCounted, OwingIsCountedNext DEF Goto, history
<1>0. /\ Owing' \ {m} = Owing \ {m}
      /\ Recorded' \ {m} = Recorded \ {m}
  BY OnlyItselfMoves
<1>1. CASE \/ Dispatch(m) \/ Receive(m) \/ LoadNothing(m) \/ NothingToDo(m)
           \/ RowVanished(m) \/ EvaluationFails(m) \/ Crash(m)
  <2>1. /\ pc'[m] \in {"idle", "queued", "received"}
        /\ UNCHANGED <<is_breaching, sent, rivals>>
    BY <1>1 DEF Dispatch, Receive, LoadNothing, NothingToDo, RowVanished,
                EvaluationFails, Crash, Raise, Finish, TypeOK
  <2>2. m \notin Owing' /\ m \notin Recorded'
    BY <2>1 DEF Owing, Recorded
  <2> QED
    BY <1>0, <2>1, <2>2, QuietMove
<1>2. CASE Load(m)
  <2>1. /\ pc'[m] = "loaded" /\ (seen'[m] <=> is_breaching)
        /\ UNCHANGED <<is_breaching, sent, rivals>>
    BY <1>2 DEF Load, TypeOK
  <2>2. m \notin Recorded' /\ (is_breaching => m \notin Owing')
    BY <2>1 DEF Owing, Recorded
  <2> QED
    BY <1>0, <2>1, <2>2, QuietMove
<1>3. CASE Measure(m)
  <2>1. /\ pc[m] = "loaded" /\ pc'[m] = "measured" /\ seen' = seen
        /\ UNCHANGED <<is_breaching, sent, rivals>>
    BY <1>3 DEF Measure, TypeOK
  <2>2. m \notin Recorded' /\ (m \in Owing' => m \in Owing)
    BY <2>1 DEF Owing, Recorded
  <2> QED
    BY <1>0, <2>1, <2>2, QuietMove
<1>4. CASE RecordBreach(m)
  <2>1. pc[m] = "measured" /\ ~seen[m] /\ pc'[m] = "recorded" /\ Breaches
    BY <1>4 DEF RecordBreach, NewBreach, TypeOK
  <2>2. m \in Owing /\ m \in Owing'
    BY <2>1 DEF Owing
  <2>3. Owing' = Owing
    BY <1>0, <2>2
  <2>4. Cardinality(Recorded') =< Cardinality(Owing)
    BY <2>3, FS_Subset
  <2>5. CASE is_breaching
    <3>1. is_breaching' = TRUE /\ UNCHANGED <<sent, rivals>>
      BY <2>1, <2>5 DEF Breaches
    <3>2. EpisodeInv'
      BY <2>3, <2>4, <2>5, <3>1 DEF EpisodeInv, TypeOK
    <3>3. UNCHANGED <<is_breaching, rivals, sent>>
      BY <2>5, <3>1 DEF TypeOK
    <3> QED
      BY <3>2, <3>3
  <2>6. CASE ~is_breaching
    <3>1. is_breaching' = TRUE /\ sent' = 0 /\ rivals' = Cardinality(Owing)
      BY <2>1, <2>6 DEF Breaches
    <3>2. EpisodeInv'
      BY <2>3, <2>4, <3>1 DEF EpisodeInv
    <3>3. Cardinality(Owing) # 0
      BY <2>2, FS_EmptySet
    <3>4. Episodes!Next
      BY <2>6, <3>1, <3>3 DEF Episodes!Next, Episodes!Breach
    <3> QED
      BY <3>2, <3>4
  <2> QED
    BY <2>5, <2>6
<1>5. CASE Deliver(m)
  <2>1. /\ pc[m] = "recorded" /\ pc'[m] = "idle"
        /\ UNCHANGED <<is_breaching, rivals>>
        /\ sent' = sent + 1 \/ sent' = sent
    BY <1>5 DEF Deliver, Finish, TypeOK
  <2>2. /\ m \in Owing /\ m \in Recorded
        /\ m \notin Owing' /\ m \notin Recorded'
    BY <2>1 DEF Owing, Recorded
  <2>3. Owing' = Owing \ {m} /\ Recorded' = Recorded \ {m}
    BY <1>0, <2>2
  <2>4. /\ Cardinality(Owing') = Cardinality(Owing) - 1
        /\ Cardinality(Recorded') = Cardinality(Recorded) - 1
    BY <2>2, <2>3, FS_RemoveElement
  <2>5. EpisodeInv'
    BY <2>1, <2>4 DEF EpisodeInv, TypeOK
  <2>6. sent < rivals
    BY <2>4 DEF EpisodeInv, TypeOK
  <2>7. sent' = sent \/ Episodes!Next
    BY <2>1, <2>6 DEF Episodes!Next, Episodes!Alert
  <2> QED
    BY <2>1, <2>5, <2>7
<1>6. CASE RecordRecovery(m)
  <2>1. /\ pc[m] = "measured" /\ pc'[m] = "idle"
        /\ is_breaching' = FALSE /\ UNCHANGED <<sent, rivals>>
    BY <1>6 DEF RecordRecovery, Recovery, Finish, TypeOK
  <2>2. m \notin Recorded /\ m \notin Recorded'
    BY <2>1 DEF Recorded
  <2>3. Recorded' = Recorded
    BY <1>0, <2>2
  <2>4. EpisodeInv'
    BY <2>1, <2>3 DEF EpisodeInv
  <2>5. CASE is_breaching
    BY <2>1, <2>4, <2>5 DEF Episodes!Next, Episodes!Recover
  <2>6. CASE ~is_breaching
    <3>1. is_breaching' = is_breaching
      BY <2>1, <2>6 DEF TypeOK
    <3> QED
      BY <2>1, <2>4, <3>1
  <2> QED
    BY <2>5, <2>6
<1> QED
  BY <1>1, <1>2, <1>3, <1>4, <1>5, <1>6 DEF Steps, Evaluate

LEMMA EpisodeNext ==
    TypeOK /\ EpisodeInv /\ [Next]_vars
      => EpisodeInv' /\ [Episodes!Next]_<<is_breaching, rivals, sent>>
<1> SUFFICES ASSUME TypeOK, EpisodeInv, [Next]_vars
             PROVE  EpisodeInv' /\ [Episodes!Next]_<<is_breaching, rivals, sent>>
  OBVIOUS
<1>1. CASE MetricChanges \/ OperatorEdits \/ UNCHANGED vars
  <2>1. UNCHANGED <<is_breaching, rivals, sent, pc, seen>>
    BY <1>1 DEF MetricChanges, OperatorEdits, vars, history
  <2>2. Owing' = Owing /\ Recorded' = Recorded
    BY <2>1 DEF Owing, Recorded
  <2> QED
    BY <2>1, <2>2, QuietMove
<1> QED
  BY <1>1, EpisodeStep DEF Next, Steps

(* Whatever overlaps, is retried, redelivered, crashes or fails to be      *)
(* delivered, for any number of messages, the alerting implements          *)
(* AlertEpisodes: a breach is alerted by the evaluations that raced to     *)
(* record it, each once at most, and by no other.                          *)
THEOREM AlertingRefines == Spec => ImplementsEpisodes
<1>1. Init => Episodes!Init
  BY DEF Init, Episodes!Init
<1> QED
  BY <1>1, EpisodeNext, EpisodeInvInit, TypeCorrect, PTL
  DEF Spec, ImplementsEpisodes, Episodes!Spec

(* So a breach never has more alerts than rivals, and one that was         *)
(* recorded without a rival has one at most.                               *)
THEOREM NoAlertTooMany == Spec => []OneAlertPerRival
<1>1. TypeOK /\ EpisodeInv => OneAlertPerRival
  BY OwingIsCounted DEF TypeOK, EpisodeInv, OneAlertPerRival
<1> QED
  BY <1>1, EpisodeNext, EpisodeInvInit, TypeCorrect, PTL DEF Spec
=============================================================================
