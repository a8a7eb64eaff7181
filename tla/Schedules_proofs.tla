---- MODULE Schedules_proofs ----
(***************************************************************************)
(* What racing requests on a schedule leave behind, for any number of      *)
(* requests and pipelines.                                                 *)
(***************************************************************************)
EXTENDS Schedules, FiniteSetTheorems, TLAPS

(* Attachments are removed by requests at work that replace them or delete *)
(* the schedule, each by one request.                                      *)
RemoversAtWork ==
    \A r \in Requests :
        /\ removed[r] # {} => pc[r] \in {"cleared", "updated", "written"}
        /\ removed[r] # {} \/ pc[r] = "waiting" => NeedsClear(r)
Disjoint == \A r, q \in Requests : r # q => removed[r] \cap removed[q] = {}

(* No request works on a schedule that was never created.                  *)
NotYet == stage = "absent" => Active = {}

(* Inserted attachments lock their pipelines and have their keys to        *)
(* themselves.                                                             *)
KeysAreFree ==
    \A r \in Requests : pc[r] = "written" => \A p \in Range(body[r].ids) :
        life[p] = "live" /\ (attached[p] = NoOne \/ <<p, attached[p]>> \in removed[r])
OneInserter ==
    \A r, q \in Requests : r # q /\ pc[r] = "written" /\ pc[q] = "written" =>
        Range(body[r].ids) \cap Range(body[q].ids) = {}

(* A request that met no other is alone, has the row as it is, and removes *)
(* everything that is attached.                                            *)
Alone ==
    \A r \in Active : ~rival[r] => Active = {r} /\ pc[r] # "waiting" /\ loaded[r] = row
Swept ==
    \A r \in Active : ~rival[r] /\ pc[r] # "loaded" /\ NeedsClear(r) =>
        Attachments \subseteq removed[r]

(* What holds between requests.                                            *)
Promise == LastPatchIsAttached /\ LonePatchReplaces

ScheduleInv ==
    /\ TypeOK /\ RemoversAtWork /\ Disjoint /\ NotYet
    /\ KeysAreFree /\ OneInserter /\ Alone /\ Swept
    /\ Promise

----
LEMMA EmptyRange == Range(<<>>) = {}
BY DEF Range

(* A list names at least one pipeline, and only pipelines.                 *)
LEMMA ListRange ==
    \A ids \in Lists : Range(ids) \subseteq Pipelines /\ ids # <<>> /\ Head(ids) \in Range(ids)
<1> SUFFICES ASSUME NEW ids \in Lists
             PROVE  /\ Range(ids) \subseteq Pipelines /\ ids # <<>>
                    /\ Head(ids) \in Range(ids)
  OBVIOUS
<1>1. Cardinality(Pipelines) \in Nat
  BY PipelinesAreFinite, FS_CardinalityType
<1>2. PICK n \in 1..Cardinality(Pipelines) : ids \in [1..n -> Pipelines]
  BY DEF Lists
<1>3. n \in Nat /\ n >= 1 /\ 1 \in 1..n
  BY <1>1
<1>4. ids \in Seq(Pipelines) /\ Len(ids) = n
  BY <1>2, <1>3
<1>5. ids # <<>> /\ Head(ids) = ids[1]
  BY <1>3, <1>4
<1> QED
  BY <1>2, <1>3, <1>5 DEF Range

(* The kinds of bodies.                                                    *)
LEMMA BodyFacts ==
    \A b \in Bodies : /\ b.ids \in Lists \cup {<<>>}
                      /\ Range(b.ids) \subseteq Pipelines
                      /\ b.cron \in Crons \cup {Unset}
                      /\ b.enabled \in BOOLEAN \cup {Unset}
                      /\ b = Delete => b.ids = <<>> /\ b.cron = Unset /\ b.enabled = Unset
                      /\ b.ids # <<>> => Head(b.ids) \in Pipelines
<1> SUFFICES ASSUME NEW b \in Bodies
             PROVE  /\ b.ids \in Lists \cup {<<>>}
                    /\ Range(b.ids) \subseteq Pipelines
                    /\ b.cron \in Crons \cup {Unset}
                    /\ b.enabled \in BOOLEAN \cup {Unset}
                    /\ b = Delete => b.ids = <<>> /\ b.cron = Unset /\ b.enabled = Unset
                    /\ b.ids # <<>> => Head(b.ids) \in Pipelines
  OBVIOUS
<1>1. CASE b = Delete
  BY <1>1, EmptyRange DEF Delete
<1>2. CASE b # Delete
  <2>1. b \in [ids : Lists \cup {<<>>}, cron : Crons \cup {Unset},
               enabled : BOOLEAN \cup {Unset}]
    BY <1>2, PatchesAreBodies DEF Bodies
  <2>2. /\ b.ids \in Lists \cup {<<>>} /\ b.cron \in Crons \cup {Unset}
        /\ b.enabled \in BOOLEAN \cup {Unset}
    BY <2>1
  <2> QED
    BY <1>2, <2>2, EmptyRange, ListRange
<1> QED
  BY <1>1, <1>2

(* A request that only moves on, with what it removes growing to           *)
(* attachments of nobody else.                                             *)
Others(r) ==
    \A q \in Requests \ {r} :
        /\ pc'[q] = pc[q] /\ body'[q] = body[q] /\ loaded'[q] = loaded[q]
        /\ view'[q] = view[q] /\ removed'[q] = removed[q] /\ rival'[q] = rival[q]

(* Whoever is at work beside another request has met it.                   *)
LEMMA OthersMet ==
    ASSUME Alone, NEW r \in Active
    PROVE  \A q \in Active \ {r} : rival[q]
BY DEF Alone

(* An end without effect.                                                  *)
LEMMA AbortKeeps ==
    ASSUME ScheduleInv, NEW r \in Requests, r \in Active, Aborts(r)
    PROVE  ScheduleInv'
<1> USE DEF ScheduleInv
<1>1. /\ pc'[r] = "done" /\ removed'[r] = {} /\ view'[r] = {}
      /\ body'[r] = Delete /\ loaded'[r] = NoRow /\ rival'[r] = FALSE
      /\ UNCHANGED <<stage, row, attached, life, asked, lone>>
  BY DEF Aborts, Release, TypeOK
<1>2. Others(r)
  BY DEF Aborts, Release, TypeOK, Others
<1>3. Active' = Active \ {r}
  BY <1>1, <1>2 DEF Active, Others
<1>4. TypeOK'
  <2>1. NoRow \in Rows /\ Delete \in Bodies
    BY DEF NoRow, Rows, Bodies
  <2> QED
    BY <1>1, <2>1 DEF TypeOK, Aborts, Release, Attachments
<1>5. RemoversAtWork'
  BY <1>1, <1>2 DEF RemoversAtWork, Others, NeedsClear, IsDelete
<1>6. Disjoint'
  BY <1>1, <1>2 DEF Disjoint, Others
<1>7. NotYet'
  BY <1>1, <1>3 DEF NotYet
<1>8. KeysAreFree' /\ OneInserter'
  BY <1>1, <1>2 DEF KeysAreFree, OneInserter, Others
<1>9. \A q \in Active' : rival'[q]
  <2>1. \A q \in Active \ {r} : rival[q]
    BY OthersMet DEF Alone
  <2> QED
    BY <1>2, <1>3, <2>1 DEF Others, Active
<1>10. Alone' /\ Swept'
  BY <1>9 DEF Alone, Swept
<1>11. Promise'
  BY <1>1 DEF Promise, LastPatchIsAttached, LonePatchReplaces, Gone
<1> QED
  BY <1>4, <1>5, <1>6, <1>7, <1>8, <1>10, <1>11

(* What no step of a request but its Commit changes.                       *)
LEMMA KeepsFacts ==
    ASSUME Keeps
    PROVE  /\ UNCHANGED <<stage, row, attached, life, body, loaded, asked, lone, rival>>
           /\ Attachments' = Attachments /\ Gone' = Gone
           /\ Promise' <=> Promise
<1>1. UNCHANGED <<stage, row, attached, life, body, loaded, asked, lone, rival>>
  BY DEF Keeps
<1> QED
  BY <1>1 DEF Attachments, Gone, Promise, LastPatchIsAttached, LonePatchReplaces

(* The statements before the commit.                                       *)
LEMMA ClearKeeps ==
    ASSUME ScheduleInv, NEW r \in Requests, Clear(r)
    PROVE  ScheduleInv'
<1> USE DEF ScheduleInv
<1>1. /\ pc[r] = "loaded" /\ NeedsClear(r)
      /\ pc'[r] = "cleared" /\ removed'[r] = Attachments
      /\ Keeps /\ view' = view
  BY DEF Clear, TypeOK
<1>2. \A q \in Requests \ {r} : pc'[q] = pc[q] /\ removed'[q] = removed[q]
  BY DEF Clear, TypeOK
<1>3. \A q \in Requests : removed[q] = {}
  BY DEF Clear, TypeOK, RemoversOf
<1>4. Active' = Active
  BY <1>1, <1>2 DEF Active
<1>5. \A q \in Requests : NeedsClear(q)' <=> NeedsClear(q)
  BY <1>1, KeepsFacts DEF NeedsClear, IsDelete
<1>6. TypeOK'
  BY <1>1, KeepsFacts DEF TypeOK, Clear
<1>7. RemoversAtWork'
  BY <1>1, <1>2, <1>3, <1>5 DEF RemoversAtWork
<1>8. Disjoint'
  BY <1>1, <1>2, <1>3 DEF Disjoint
<1>9. NotYet' /\ Promise'
  BY <1>1, <1>4, KeepsFacts DEF NotYet
<1>10. KeysAreFree' /\ OneInserter'
  BY <1>1, <1>2, KeepsFacts DEF KeysAreFree, OneInserter
<1>11. Alone'
  BY <1>1, <1>2, <1>4, KeepsFacts DEF Alone, Active
<1>12. Swept'
  BY <1>1, <1>2, <1>4, <1>5, KeepsFacts DEF Swept, Active
<1> QED
  BY <1>6, <1>7, <1>8, <1>9, <1>10, <1>11, <1>12

LEMMA ClearBlocksKeeps ==
    ASSUME ScheduleInv, NEW r \in Requests, ClearBlocks(r)
    PROVE  ScheduleInv'
<1> USE DEF ScheduleInv
<1>1. /\ pc[r] = "loaded" /\ NeedsClear(r) /\ pc'[r] = "waiting"
      /\ view'[r] = Attachments /\ Keeps /\ removed' = removed
  BY DEF ClearBlocks, TypeOK
<1>2. \A q \in Requests \ {r} : pc'[q] = pc[q]
  BY DEF ClearBlocks, TypeOK
<1>3. Active' = Active
  BY <1>1, <1>2 DEF Active
<1>4. rival[r]
  <2>1. PICK q \in Requests : removed[q] \cap Attachments # {}
    BY DEF ClearBlocks, RemoversOf
  <2>2. q \in Active /\ q # r /\ r \in Active
    BY <1>1, <2>1 DEF RemoversAtWork, Active
  <2> QED
    BY <2>2, OthersMet
<1>5. \A q \in Requests : NeedsClear(q)' <=> NeedsClear(q)
  BY <1>1, KeepsFacts DEF NeedsClear, IsDelete
<1>6. TypeOK'
  <2>1. Attachments \in SUBSET (Pipelines \X Authors)
    BY DEF Attachments, TypeOK
  <2> QED
    BY <1>1, <2>1, KeepsFacts DEF TypeOK, ClearBlocks
<1>7. RemoversAtWork'
  BY <1>1, <1>2, <1>5 DEF RemoversAtWork
<1>8. Disjoint'
  BY <1>1 DEF Disjoint
<1>9. NotYet' /\ Promise'
  BY <1>1, <1>3, KeepsFacts DEF NotYet
<1>10. KeysAreFree' /\ OneInserter'
  BY <1>1, <1>2, KeepsFacts DEF KeysAreFree, OneInserter
<1>11. Alone' /\ Swept'
  BY <1>1, <1>2, <1>3, <1>4, <1>5, KeepsFacts DEF Alone, Swept, Active
<1> QED
  BY <1>6, <1>7, <1>8, <1>9, <1>10, <1>11

LEMMA ClearResumesKeeps ==
    ASSUME ScheduleInv, NEW r \in Requests, ClearResumes(r)
    PROVE  ScheduleInv'
<1> USE DEF ScheduleInv
<1>1. /\ pc[r] = "waiting" /\ pc'[r] = "cleared"
      /\ removed'[r] = view[r] \cap Attachments /\ Keeps /\ view' = view
  BY DEF ClearResumes, TypeOK
<1>2. \A q \in Requests \ {r} : pc'[q] = pc[q] /\ removed'[q] = removed[q]
  BY DEF ClearResumes, TypeOK
<1>3. \A q \in Requests \ {r} : removed[q] \cap view[r] = {}
  <2>1. r \notin Pipelines
    BY NamesAreDistinct
  <2>2. WaitsFor(r) = RemoversOf(view[r]) \ {r}
    BY <1>1, <2>1 DEF WaitsFor, AtUpdate
  <2> QED
    BY <2>2 DEF ClearResumes, RemoversOf
<1>4. Active' = Active
  BY <1>1, <1>2 DEF Active
<1>5. rival[r] /\ NeedsClear(r)
  BY <1>1 DEF Alone, Active, RemoversAtWork
<1>6. \A q \in Requests : NeedsClear(q)' <=> NeedsClear(q)
  BY <1>1, KeepsFacts DEF NeedsClear, IsDelete
<1>7. TypeOK'
  BY <1>1, KeepsFacts DEF TypeOK, ClearResumes
<1>8. RemoversAtWork'
  BY <1>1, <1>2, <1>5, <1>6 DEF RemoversAtWork
<1>9. Disjoint'
  BY <1>1, <1>2, <1>3 DEF Disjoint
<1>10. NotYet' /\ Promise'
  BY <1>1, <1>4, KeepsFacts DEF NotYet
<1>11. KeysAreFree' /\ OneInserter'
  BY <1>1, <1>2, KeepsFacts DEF KeysAreFree, OneInserter
<1>12. Alone' /\ Swept'
  BY <1>1, <1>2, <1>4, <1>5, <1>6, KeepsFacts DEF Alone, Swept, Active
<1> QED
  BY <1>7, <1>8, <1>9, <1>10, <1>11, <1>12

LEMMA UpdateKeeps ==
    ASSUME ScheduleInv, NEW r \in Requests, Update(r)
    PROVE  ScheduleInv'
<1> USE DEF ScheduleInv
<1>1. /\ AtUpdate(r) /\ pc[r] \in {"loaded", "cleared"}
      /\ pc'[r] = IF body[r].ids = <<>> THEN "written" ELSE "updated"
      /\ removed'[r] = IF IsDelete(r) THEN Attachments ELSE removed[r]
      /\ Keeps /\ view' = view
  BY DEF Update, AtUpdate, TypeOK
<1>2. \A q \in Requests \ {r} : pc'[q] = pc[q] /\ removed'[q] = removed[q]
  BY DEF Update, TypeOK
<1>3. IsDelete(r) => \A q \in Requests \ {r} : removed[q] \cap Attachments = {}
  <2> SUFFICES ASSUME IsDelete(r)
               PROVE  \A q \in Requests \ {r} : removed[q] \cap Attachments = {}
    OBVIOUS
  <2>1. r \notin Pipelines /\ pc[r] # "waiting"
    BY <1>1, NamesAreDistinct
  <2>2. RemoversOf(Attachments) \ {r} \subseteq WaitsFor(r)
    BY <1>1, <2>1 DEF WaitsFor
  <2> QED
    BY <2>2 DEF Update, RemoversOf
<1>4. Active' = Active
  BY <1>1, <1>2 DEF Active
<1>5. \A q \in Requests : NeedsClear(q)' <=> NeedsClear(q)
  BY <1>1, KeepsFacts DEF NeedsClear, IsDelete
<1>6. NeedsClear(r) => pc[r] = "cleared"
  BY <1>1 DEF AtUpdate
<1>7. TypeOK'
  BY <1>1, KeepsFacts DEF TypeOK, Update
<1>8. RemoversAtWork'
  BY <1>1, <1>2, <1>5 DEF RemoversAtWork, NeedsClear
<1>9. Disjoint'
  BY <1>1, <1>2, <1>3 DEF Disjoint
<1>10. NotYet' /\ Promise'
  BY <1>1, <1>4, KeepsFacts DEF NotYet
<1>11. KeysAreFree' /\ OneInserter'
  <2>1. pc'[r] = "written" => Range(body[r].ids) = {}
    BY <1>1, EmptyRange
  <2> QED
    BY <1>1, <1>2, <2>1, KeepsFacts DEF KeysAreFree, OneInserter
<1>12. Alone'
  BY <1>1, <1>2, <1>4, KeepsFacts DEF Alone, Active
<1>13. Swept'
  BY <1>1, <1>2, <1>4, <1>5, <1>6, KeepsFacts DEF Swept, Active
<1> QED
  BY <1>7, <1>8, <1>9, <1>10, <1>11, <1>12, <1>13

LEMMA InsertKeeps ==
    ASSUME ScheduleInv, NEW r \in Requests, Insert(r)
    PROVE  ScheduleInv'
<1> USE DEF ScheduleInv
<1>1. /\ pc[r] = "updated" /\ pc'[r] = "written" /\ CanInsert(r)
      /\ Keeps /\ view' = view /\ removed' = removed
  BY DEF Insert, TypeOK
<1>2. \A q \in Requests \ {r} : pc'[q] = pc[q]
  BY DEF Insert, TypeOK
<1>3. \A p \in Range(body[r].ids) : life[p] # "dropping" /\ InsertersOf(p) = {}
  <2>1. r \notin Pipelines
    BY NamesAreDistinct
  <2>2. /\ Dropped(Range(body[r].ids)) \subseteq WaitsFor(r)
        /\ UNION {InsertersOf(p) : p \in Range(body[r].ids)} \subseteq WaitsFor(r)
    BY <1>1, <2>1 DEF WaitsFor, AtUpdate
  <2> QED
    BY <2>2 DEF Insert, Dropped
<1>4. Active' = Active
  BY <1>1, <1>2 DEF Active
<1>5. \A q \in Requests : NeedsClear(q)' <=> NeedsClear(q)
  BY <1>1, KeepsFacts DEF NeedsClear, IsDelete
<1>6. Range(body[r].ids) \subseteq Pipelines
  BY BodyFacts DEF TypeOK
<1>7. TypeOK'
  BY <1>1, KeepsFacts DEF TypeOK, Insert
<1>8. RemoversAtWork' /\ Disjoint'
  BY <1>1, <1>2, <1>5 DEF RemoversAtWork, Disjoint
<1>9. NotYet' /\ Promise'
  BY <1>1, <1>4, KeepsFacts DEF NotYet
<1>10. KeysAreFree'
  <2>1. \A p \in Range(body[r].ids) :
           life[p] = "live" /\ (attached[p] = NoOne \/ <<p, attached[p]>> \in removed[r])
    BY <1>1, <1>3, <1>6 DEF CanInsert, Gone, TypeOK
  <2> QED
    BY <1>1, <1>2, <2>1, KeepsFacts DEF KeysAreFree
<1>11. OneInserter'
  <2>1. ASSUME NEW q \in Requests \ {r}, pc[q] = "written", NEW p \in Range(body[r].ids)
        PROVE  p \notin Range(body[q].ids)
    BY <1>3, <2>1, EmptyRange DEF InsertersOf, Inserters
  <2> QED
    BY <1>1, <1>2, <2>1, KeepsFacts DEF OneInserter
<1>12. Alone' /\ Swept'
  BY <1>1, <1>2, <1>4, <1>5, KeepsFacts DEF Alone, Swept, Active
<1> QED
  BY <1>7, <1>8, <1>9, <1>10, <1>11, <1>12

(* A request begins.                                                       *)
LEMMA LoadKeeps ==
    ASSUME ScheduleInv, NEW r \in Requests, Load(r)
    PROVE  ScheduleInv'
<1> USE DEF ScheduleInv
<1>1. /\ pc[r] = "idle" /\ pc'[r] = "loaded" /\ loaded'[r] = row
      /\ stage = "present" /\ removed[r] = {}
      /\ UNCHANGED <<stage, row, attached, life, view, removed, asked, lone>>
  BY DEF Load, TypeOK, RemoversAtWork
<1>2. \A q \in Requests \ {r} : pc'[q] = pc[q] /\ body'[q] = body[q] /\ loaded'[q] = loaded[q]
  BY DEF Load, TypeOK
<1>3. /\ rival'[r] <=> Active # {}
      /\ \A q \in Active : q # r /\ rival'[q]
  BY <1>1 DEF Load, TypeOK, Active
<1>4. Active' = Active \cup {r}
  BY <1>1, <1>2 DEF Active
<1>5. TypeOK'
  <2>1. rival' \in [Requests -> BOOLEAN]
    BY DEF Load
  <2>2. PICK b \in Patches \cup {Delete} : body' = [body EXCEPT ![r] = b]
    BY DEF Load
  <2>3. body' \in [Requests -> Bodies]
    BY <2>2 DEF Bodies, TypeOK
  <2>4. /\ pc' = [pc EXCEPT ![r] = "loaded"] /\ loaded' = [loaded EXCEPT ![r] = row]
    BY DEF Load
  <2> QED
    BY <1>1, <2>1, <2>3, <2>4 DEF TypeOK, Attachments
<1>6. RemoversAtWork' /\ Disjoint'
  BY <1>1, <1>2 DEF RemoversAtWork, Disjoint, NeedsClear, IsDelete
<1>7. NotYet' /\ Promise'
  BY <1>1 DEF NotYet, Promise, LastPatchIsAttached, LonePatchReplaces, Gone
<1>8. KeysAreFree' /\ OneInserter'
  BY <1>1, <1>2 DEF KeysAreFree, OneInserter
<1>9. \A q \in Active' : ~rival'[q] => q = r /\ Active' = {r}
  BY <1>3, <1>4
<1>10. Alone' /\ Swept'
  BY <1>1, <1>9 DEF Alone, Swept
<1> QED
  BY <1>5, <1>6, <1>7, <1>8, <1>10

(* The columns a request writes keep their kind.                           *)
LEMMA RowType ==
    ASSUME TypeOK, NEW r \in Requests
    PROVE  /\ NewRow(r) \in Rows
           /\ body[r].ids # <<>> /\ loaded[r] = row => NewRow(r).target = Head(body[r].ids)
           /\ body[r].ids = <<>> => NewRow(r).target = row.target
<1>1. body[r] \in Bodies
  BY DEF TypeOK
<1>2. /\ body[r].cron \in Crons \cup {Unset} /\ body[r].enabled \in BOOLEAN \cup {Unset}
      /\ body[r].ids # <<>> => Head(body[r].ids) \in Pipelines
  BY <1>1, BodyFacts
<1>3. /\ "cron" \in Changes(r) => body[r].cron # Unset
      /\ "enabled" \in Changes(r) => body[r].enabled # Unset
      /\ "target" \in Changes(r) <=> body[r].ids # <<>> /\ Head(body[r].ids) # loaded[r].target
  BY DEF Changes
<1>4. /\ row.cron \in Crons \cup {NoOne} /\ row.enabled \in BOOLEAN
      /\ row.target \in Pipelines \cup {NoOne}
  BY DEF TypeOK, Rows
<1>5. /\ NewRow(r).cron = IF "cron" \in Changes(r) THEN body[r].cron ELSE row.cron
      /\ NewRow(r).enabled = IF "enabled" \in Changes(r) THEN body[r].enabled ELSE row.enabled
      /\ NewRow(r).target = IF "target" \in Changes(r) THEN Head(body[r].ids) ELSE row.target
  BY DEF NewRow
<1>6. NewRow(r) = [cron |-> NewRow(r).cron, enabled |-> NewRow(r).enabled,
                   target |-> NewRow(r).target]
  BY DEF NewRow
<1>7. /\ NewRow(r).cron \in Crons \cup {NoOne} /\ NewRow(r).enabled \in BOOLEAN
      /\ NewRow(r).target \in Pipelines \cup {NoOne}
  BY <1>2, <1>3, <1>4, <1>5
<1>8. NewRow(r) \in Rows
  BY <1>6, <1>7 DEF Rows
<1> QED
  BY <1>3, <1>5, <1>8

(* A request commits.                                                      *)
LEMMA CommitKeeps ==
    ASSUME ScheduleInv, NEW r \in Requests, Commit(r)
    PROVE  ScheduleInv'
<1> USE DEF ScheduleInv
<1> DEFINE ids == body[r].ids
<1>1. /\ pc[r] = "written" /\ r \in Active
      /\ pc'[r] = "done" /\ removed'[r] = {} /\ view'[r] = {}
      /\ body'[r] = Delete /\ loaded'[r] = NoRow /\ rival'[r] = FALSE
      /\ UNCHANGED life
      /\ row' = NewRow(r) /\ attached' = NewAttached(r)
      /\ stage' = IF IsDelete(r) THEN "deleted" ELSE stage
  BY DEF Commit, Release, TypeOK, Active
<1>2. Others(r)
  BY DEF Commit, Release, TypeOK, Others
<1>3. Active' = Active \ {r}
  BY <1>1, <1>2 DEF Active, Others
<1>4. /\ ids \in Lists \cup {<<>>} /\ Range(ids) \subseteq Pipelines
      /\ IsDelete(r) => ids = <<>>
      /\ ids # <<>> => Range(ids) # {} /\ Head(ids) \in Pipelines
  <2>1. body[r] \in Bodies
    BY DEF TypeOK
  <2>2. /\ ids \in Lists \cup {<<>>} /\ Range(ids) \subseteq Pipelines
        /\ ids # <<>> => Head(ids) \in Pipelines
        /\ IsDelete(r) => ids = <<>>
    BY <2>1, BodyFacts DEF IsDelete
  <2> QED
    BY <2>2, ListRange
<1>5. \A p \in Pipelines :
         attached'[p] = IF p \in Range(ids) THEN r
                        ELSE IF <<p, attached[p]>> \in removed[r] THEN NoOne ELSE attached[p]
  BY <1>1 DEF NewAttached
<1>6. \A q \in Requests \ {r} : removed[q] \subseteq Attachments'
  <2> SUFFICES ASSUME NEW q \in Requests \ {r}, NEW e \in removed[q]
               PROVE  e \in Attachments'
    OBVIOUS
  <2>1. PICK p \in Pipelines : e = <<p, attached[p]>> /\ attached[p] # NoOne
    BY DEF TypeOK, Attachments
  <2>2. e \notin removed[r]
    BY DEF Disjoint
  <2>3. p \notin Range(ids)
    BY <1>1, <2>1, <2>2 DEF KeysAreFree
  <2>4. attached'[p] = attached[p]
    BY <1>5, <2>1, <2>2, <2>3
  <2> QED
    BY <2>1, <2>4 DEF Attachments
<1>7. TypeOK'
  <2>1. NoRow \in Rows /\ Delete \in Bodies
    BY DEF NoRow, Rows, Bodies
  <2>2. row' \in Rows
    BY <1>1, RowType
  <2>3. attached' \in [Pipelines -> Authors \cup {NoOne}]
    BY <1>1 DEF NewAttached, TypeOK, Authors
  <2>4. removed' \in [Requests -> SUBSET Attachments']
    <3>1. removed' = [removed EXCEPT ![r] = {}]
      BY DEF Commit, Release
    <3> QED
      BY <1>6, <3>1 DEF TypeOK
  <2>5. /\ asked' \in Lists \cup {<<>>} /\ stage' \in {"absent", "present", "deleted"}
    BY <1>1, <1>4 DEF Commit, TypeOK
  <2>6. lone' \in BOOLEAN
    BY DEF Commit, TypeOK
  <2> QED
    BY <2>1, <2>2, <2>3, <2>4, <2>5, <2>6 DEF TypeOK, Commit, Release
<1>8. RemoversAtWork'
  BY <1>1, <1>2 DEF RemoversAtWork, Others, NeedsClear, IsDelete
<1>9. Disjoint'
  BY <1>1, <1>2 DEF Disjoint, Others
<1>10. NotYet'
  BY <1>1, <1>3 DEF NotYet
<1>11. KeysAreFree'
  <2> SUFFICES ASSUME NEW q \in Requests \ {r}, pc[q] = "written",
                      NEW p \in Range(body[q].ids)
               PROVE  life[p] = "live"
                      /\ (attached'[p] = NoOne \/ <<p, attached'[p]>> \in removed[q])
    BY <1>1, <1>2 DEF KeysAreFree, Others
  <2>1. p \in Pipelines
    BY BodyFacts DEF TypeOK
  <2>2. p \notin Range(ids)
    BY <1>1 DEF OneInserter
  <2>3. life[p] = "live" /\ (attached[p] = NoOne \/ <<p, attached[p]>> \in removed[q])
    BY DEF KeysAreFree
  <2> QED
    BY <1>5, <2>1, <2>2, <2>3
<1>12. OneInserter'
  BY <1>1, <1>2 DEF OneInserter, Others
<1>13. Alone' /\ Swept'
  <2>1. \A q \in Active \ {r} : rival[q]
    BY <1>1, OthersMet
  <2>2. \A q \in Active' : rival'[q]
    BY <1>2, <1>3, <2>1 DEF Others, Active
  <2> QED
    BY <2>2 DEF Alone, Swept
<1>14. Promise'
  <2>1. CASE IsDelete(r)
    BY <1>1, <2>1 DEF Promise, LastPatchIsAttached, LonePatchReplaces
  <2>2. CASE ids # <<>>
    <3>1. asked' = ids /\ (lone' <=> ~rival[r])
      BY <2>2 DEF Commit
    <3>2. Gone' = Gone /\ Range(ids) \cap Gone = {}
      BY <1>1 DEF KeysAreFree, Gone
    <3>3. LastPatchIsAttached'
      BY <1>4, <1>5, <3>1, NamesAreDistinct DEF LastPatchIsAttached
    <3>4. ASSUME ~rival[r]
          PROVE  /\ {p \in Pipelines : attached'[p] # NoOne} = Range(ids) \ Gone
                 /\ row'.target = Head(ids)
      <4>1. Attachments \subseteq removed[r] /\ loaded[r] = row
        BY <1>1, <2>2, <3>4 DEF Swept, Alone, NeedsClear
      <4>2. \A p \in Pipelines : attached'[p] # NoOne <=> p \in Range(ids)
        BY <1>5, <4>1, NamesAreDistinct DEF Attachments
      <4> QED
        BY <1>1, <1>4, <2>2, <3>2, <4>1, <4>2, RowType
    <3>5. LonePatchReplaces'
      BY <3>1, <3>2, <3>4 DEF LonePatchReplaces
    <3> QED
      BY <3>3, <3>5 DEF Promise
  <2>3. CASE ids = <<>> /\ ~IsDelete(r)
    <3>1. removed[r] = {}
      BY <2>3 DEF RemoversAtWork, NeedsClear
    <3>2. \A p \in Pipelines : attached'[p] = attached[p]
      BY <1>5, <2>3, <3>1, EmptyRange
    <3>3. /\ asked' = asked /\ lone' = lone /\ stage' = stage /\ Gone' = Gone
          /\ row'.target = row.target
      BY <1>1, <2>3, RowType DEF Commit, Gone
    <3>4. Range(asked) \subseteq Pipelines
      BY ListRange, EmptyRange DEF TypeOK
    <3> QED
      BY <3>2, <3>3, <3>4 DEF Promise, LastPatchIsAttached, LonePatchReplaces
  <2> QED
    BY <2>1, <2>2, <2>3
<1> QED
  BY <1>7, <1>8, <1>9, <1>10, <1>11, <1>12, <1>13, <1>14

LEMMA CreateKeeps ==
    ASSUME ScheduleInv, Create
    PROVE  ScheduleInv'
<1> USE DEF ScheduleInv
<1>1. PICK ids \in Lists, c \in Crons, on \in BOOLEAN :
         /\ \A p \in Range(ids) : life[p] = "live"
         /\ row' = [cron |-> c, enabled |-> on, target |-> Head(ids)]
         /\ attached' = [p \in Pipelines |-> IF p \in Range(ids) THEN Creation ELSE NoOne]
         /\ asked' = ids
  BY DEF Create
<1>2. /\ stage = "absent" /\ stage' = "present" /\ lone' = TRUE
      /\ UNCHANGED <<life, pc, body, loaded, view, removed, rival>>
  BY DEF Create, requests
<1>3. Active = {} /\ Active' = {}
  BY <1>2 DEF NotYet, Active
<1>4. \A r \in Requests : removed[r] = {} /\ pc[r] # "written"
  BY <1>3 DEF RemoversAtWork, Active
<1>5. Range(ids) \subseteq Pipelines /\ Head(ids) \in Pipelines
  BY ListRange
<1>6. TypeOK'
  <2>1. row' \in Rows
    BY <1>1, <1>5 DEF Rows
  <2>2. attached' \in [Pipelines -> Authors \cup {NoOne}]
    BY <1>1 DEF Authors
  <2>3. removed' \in [Requests -> SUBSET Attachments']
    BY <1>2, <1>4 DEF TypeOK
  <2> QED
    BY <1>1, <1>2, <2>1, <2>2, <2>3 DEF TypeOK
<1>7. RemoversAtWork' /\ Disjoint' /\ NotYet' /\ KeysAreFree' /\ OneInserter'
  BY <1>2, <1>4
     DEF RemoversAtWork, Disjoint, NotYet, KeysAreFree, OneInserter, NeedsClear, IsDelete
<1>8. Alone' /\ Swept'
  BY <1>3 DEF Alone, Swept
<1>9. Promise'
  <2>1. Range(ids) \cap Gone' = {}
    BY <1>1, <1>2 DEF Gone
  <2>2. \A p \in Pipelines : attached'[p] # NoOne <=> p \in Range(ids)
    BY <1>1, NamesAreDistinct
  <2>3. row'.target = Head(ids)
    BY <1>1
  <2> QED
    BY <1>1, <1>5, <2>1, <2>2, <2>3 DEF Promise, LastPatchIsAttached, LonePatchReplaces
<1> QED
  BY <1>6, <1>7, <1>8, <1>9

(* The DELETE of a pipeline.                                               *)
LEMMA DropBeginKeeps ==
    ASSUME ScheduleInv, NEW p \in Pipelines, DropBegin(p)
    PROVE  ScheduleInv'
<1> USE DEF ScheduleInv
<1>1. /\ life[p] = "live" /\ life' = [life EXCEPT ![p] = "dropping"]
      /\ UNCHANGED <<stage, row, attached, pc, body, loaded, view, removed, asked, lone, rival>>
  BY DEF DropBegin, requests
<1>2. InsertersOf(p) = {}
  BY <1>1 DEF DropBegin, WaitsFor
<1>3. Gone' = Gone
  BY <1>1 DEF Gone, TypeOK
<1>4. TypeOK'
  BY <1>1 DEF TypeOK, Attachments
<1>5. RemoversAtWork' /\ Disjoint' /\ NotYet' /\ OneInserter'
  BY <1>1 DEF RemoversAtWork, Disjoint, NotYet, OneInserter, NeedsClear, IsDelete, Active
<1>6. KeysAreFree'
  <2>1. \A r \in Requests : pc[r] = "written" => p \notin Range(body[r].ids)
    BY <1>2, EmptyRange DEF InsertersOf, Inserters
  <2>2. \A q \in Pipelines \ {p} : life'[q] = life[q]
    BY <1>1 DEF TypeOK
  <2>3. \A r \in Requests : Range(body[r].ids) \subseteq Pipelines
    BY BodyFacts DEF TypeOK
  <2> QED
    BY <1>1, <2>1, <2>2, <2>3 DEF KeysAreFree
<1>7. Alone' /\ Swept'
  BY <1>1 DEF Alone, Swept, Active, NeedsClear, IsDelete, Attachments
<1>8. Promise'
  BY <1>1, <1>3 DEF Promise, LastPatchIsAttached, LonePatchReplaces
<1> QED
  BY <1>4, <1>5, <1>6, <1>7, <1>8

LEMMA DropCommitsKeeps ==
    ASSUME ScheduleInv, NEW p \in Pipelines, DropCommits(p)
    PROVE  ScheduleInv'
<1> USE DEF ScheduleInv
<1>1. /\ life[p] = "dropping" /\ life' = [life EXCEPT ![p] = "gone"]
      /\ attached' = [attached EXCEPT ![p] = NoOne]
      /\ UNCHANGED <<stage, row, pc, body, loaded, view, removed, asked, lone, rival>>
  BY DEF DropCommits, requests
<1>2. \A r \in Requests : <<p, attached[p]>> \notin removed[r]
  BY <1>1 DEF DropCommits, WaitsFor, RemoversOf
<1>3. /\ Gone' = Gone \cup {p} /\ attached'[p] = NoOne
      /\ \A q \in Pipelines \ {p} : attached'[q] = attached[q] /\ life'[q] = life[q]
  BY <1>1 DEF Gone, TypeOK
<1>4. Attachments' = Attachments \ {<<p, attached[p]>>}
  BY <1>3 DEF Attachments
<1>5. TypeOK'
  <2>1. removed' \in [Requests -> SUBSET Attachments']
    BY <1>1, <1>2, <1>4 DEF TypeOK
  <2>2. attached' \in [Pipelines -> Authors \cup {NoOne}]
    BY <1>1 DEF TypeOK
  <2> QED
    BY <1>1, <2>1, <2>2 DEF TypeOK
<1>6. RemoversAtWork' /\ Disjoint' /\ NotYet' /\ OneInserter'
  BY <1>1 DEF RemoversAtWork, Disjoint, NotYet, OneInserter, NeedsClear, IsDelete, Active
<1>7. KeysAreFree'
  <2>1. \A r \in Requests : pc[r] = "written" => p \notin Range(body[r].ids)
    BY <1>1 DEF KeysAreFree
  <2>2. \A r \in Requests : Range(body[r].ids) \subseteq Pipelines
    BY BodyFacts DEF TypeOK
  <2> QED
    BY <1>1, <1>3, <2>1, <2>2 DEF KeysAreFree
<1>8. Alone' /\ Swept'
  BY <1>1, <1>4 DEF Alone, Swept, Active, NeedsClear, IsDelete
<1>9. Promise'
  <2>1. Range(asked) \subseteq Pipelines
    BY ListRange, EmptyRange DEF TypeOK
  <2> QED
    BY <1>1, <1>3, <2>1 DEF Promise, LastPatchIsAttached, LonePatchReplaces
<1> QED
  BY <1>5, <1>6, <1>7, <1>8, <1>9

LEMMA DropFailsKeeps ==
    ASSUME ScheduleInv, NEW p \in Pipelines, DropFails(p)
    PROVE  ScheduleInv'
<1> USE DEF ScheduleInv
<1>1. /\ life[p] = "dropping" /\ life' = [life EXCEPT ![p] = "live"]
      /\ UNCHANGED <<stage, row, attached, pc, body, loaded, view, removed, asked, lone, rival>>
  BY DEF DropFails, requests
<1>2. Gone' = Gone /\ \A q \in Pipelines : life[q] = "live" => life'[q] = "live"
  BY <1>1 DEF Gone, TypeOK
<1>3. TypeOK'
  BY <1>1 DEF TypeOK, Attachments
<1>4. RemoversAtWork' /\ Disjoint' /\ NotYet' /\ OneInserter'
  BY <1>1 DEF RemoversAtWork, Disjoint, NotYet, OneInserter, NeedsClear, IsDelete, Active
<1>5. KeysAreFree'
  <2>1. \A r \in Requests : Range(body[r].ids) \subseteq Pipelines
    BY BodyFacts DEF TypeOK
  <2> QED
    BY <1>1, <1>2, <2>1 DEF KeysAreFree
<1>6. Alone' /\ Swept'
  BY <1>1 DEF Alone, Swept, Active, NeedsClear, IsDelete, Attachments
<1>7. Promise'
  BY <1>1, <1>2 DEF Promise, LastPatchIsAttached, LonePatchReplaces
<1> QED
  BY <1>3, <1>4, <1>5, <1>6, <1>7

----
LEMMA ScheduleInvHolds == Spec => []ScheduleInv
<1>1. Init => ScheduleInv
  <2> SUFFICES ASSUME Init
               PROVE  ScheduleInv
    OBVIOUS
  <2>1. NoRow \in Rows /\ Delete \in Bodies /\ Active = {}
    BY DEF Init, NoRow, Rows, Bodies, Active
  <2>2. TypeOK
    BY <2>1 DEF Init, TypeOK
  <2>3. RemoversAtWork /\ Disjoint /\ NotYet /\ KeysAreFree /\ OneInserter /\ Alone /\ Swept
    BY <2>1 DEF Init, RemoversAtWork, Disjoint, NotYet, KeysAreFree, OneInserter, Alone, Swept
  <2>4. Promise
    BY DEF Init, Promise, LastPatchIsAttached, LonePatchReplaces
  <2> QED
    BY <2>2, <2>3, <2>4 DEF ScheduleInv
<1>2. ScheduleInv /\ [Next]_vars => ScheduleInv'
  <2> SUFFICES ASSUME ScheduleInv, [Next]_vars
               PROVE  ScheduleInv'
    OBVIOUS
  <2>1. CASE Create
    BY <2>1, CreateKeeps
  <2>2. ASSUME NEW r \in Requests, Load(r)
        PROVE  ScheduleInv'
    BY <2>2, LoadKeeps
  <2>3. ASSUME NEW r \in Requests, Proceeds(r)
        PROVE  ScheduleInv'
    <3>1. Fails(r) => r \in Active /\ Aborts(r)
      BY DEF Fails, Active, AtUpdate
    <3> QED
      BY <2>3, <3>1, ClearKeeps, ClearBlocksKeeps, ClearResumesKeeps, UpdateKeeps, InsertKeeps,
         CommitKeeps, AbortKeeps DEF Proceeds
  <2>4. ASSUME NEW r \in Requests, Rollback(r)
        PROVE  ScheduleInv'
    BY <2>4, AbortKeeps DEF Rollback
  <2>5. ASSUME NEW p \in Pipelines, DropBegin(p) \/ DropCommits(p) \/ DropFails(p)
        PROVE  ScheduleInv'
    BY <2>5, DropBeginKeeps, DropCommitsKeeps, DropFailsKeeps
  <2>6. ASSUME NEW x \in Requests \cup Pipelines, Victim(x)
        PROVE  ScheduleInv'
    BY <2>4, <2>5, <2>6 DEF Victim
  <2>7. CASE UNCHANGED vars
    <3>1. UNCHANGED <<stage, row, attached, life, pc, body, loaded, view, removed, asked, lone,
                      rival>>
      BY <2>7 DEF vars, requests
    <3>2. Active' = Active /\ Attachments' = Attachments /\ Gone' = Gone
      BY <3>1 DEF Active, Attachments, Gone
    <3>3. TypeOK' /\ RemoversAtWork' /\ Disjoint' /\ NotYet'
      BY <3>1, <3>2
         DEF ScheduleInv, TypeOK, RemoversAtWork, Disjoint, NotYet, NeedsClear, IsDelete
    <3>4. KeysAreFree' /\ OneInserter' /\ Alone' /\ Swept' /\ Promise'
      BY <3>1, <3>2
         DEF ScheduleInv, KeysAreFree, OneInserter, Alone, Swept, Promise,
             LastPatchIsAttached, LonePatchReplaces, NeedsClear, IsDelete
    <3> QED
      BY <3>3, <3>4 DEF ScheduleInv
  <2> QED
    BY <2>1, <2>2, <2>3, <2>4, <2>5, <2>6, <2>7 DEF Next
<1> QED
  BY <1>1, <1>2, PTL DEF Spec

(* TypeOK holds of every reachable state; in particular, what a request    *)
(* has removed and not yet committed stays attached until it commits.      *)
THEOREM TypeCorrect == Spec => []TypeOK
<1>1. ScheduleInv => TypeOK
  BY DEF ScheduleInv
<1> QED
  BY <1>1, ScheduleInvHolds, PTL

(* However many creates, PATCHes, DELETEs and pipeline deletions race,     *)
(* what the last committed one named is attached, unless it was deleted.   *)
THEOREM LastPatchWins == Spec => []LastPatchIsAttached
<1>1. ScheduleInv => LastPatchIsAttached
  BY DEF ScheduleInv, Promise
<1> QED
  BY <1>1, ScheduleInvHolds, PTL

(* A PATCH that met no other request replaces the attachments by its list  *)
(* and points target_id at the first of it.                                *)
THEOREM LonePatchIsExact == Spec => []LonePatchReplaces
<1>1. ScheduleInv => LonePatchReplaces
  BY DEF ScheduleInv, Promise
<1> QED
  BY <1>1, ScheduleInvHolds, PTL

(* The UPDATE of a PATCH leaves alone what its body does not name.         *)
THEOREM NothingIsOverwritten == Spec => NoLostUpdate
<1> DEFINE Step ==
      \A r \in Requests : Commit(r) =>
         /\ \A c \in {"cron", "enabled"} : row'[c] # row[c] => row'[c] = body[r][c]
         /\ row'.target # row.target => body[r].ids # <<>>
<1>1. Step
  <2> SUFFICES ASSUME NEW r \in Requests, Commit(r)
               PROVE  /\ \A c \in {"cron", "enabled"} : row'[c] # row[c] => row'[c] = body[r][c]
                      /\ row'.target # row.target => body[r].ids # <<>>
    OBVIOUS
  <2>1. row' = NewRow(r)
    BY DEF Commit
  <2> QED
    BY <2>1 DEF NewRow, Changes
<1>2. [Next]_vars => [Step]_vars
  BY <1>1
<1> QED
  BY <1>2, PTL DEF Spec, NoLostUpdate

====
