------------------------------ MODULE Reports ------------------------------
(***************************************************************************)
(* Scheduled reports: the heartbeat that sends one message per due report, *)
(* and the job that queries the dataset, renders the workbook, stores it   *)
(* and mails it (src/backend/app/reporting).  One report; its messages run *)
(* on several workers.                                                     *)
(*                                                                         *)
(* The job writes nothing to the database: a workbook stored or a mail     *)
(* accepted by the relay stays when a later step raises, and the retry     *)
(* does everything again.  The heartbeat is a message of the same broker.  *)
(***************************************************************************)
EXTENDS Datasets, FiniteSets

CONSTANTS
    Messages,     \* bound: messages of the report, in all
    MaxClock,     \* bound: minutes that pass
    Seconds,      \* bound: seconds of a minute in which a workbook is stored
    MaxRetries,   \* max_retries of render_and_send_report
    MaxFaults     \* bound: exceptions of the outside world and crashes

ASSUME MessagesAreFinite == IsFiniteSet(Messages)
ASSUME ReportBoundsAreNaturals == MaxClock \in Nat /\ MaxRetries \in Nat /\ MaxFaults \in Nat

VARIABLES
    tenant,       \* the tenant of the report
    report,       \* the row, None when deleted: [enabled, dataset, request, recipients, due]
    clock,        \* the minute
    ticked,       \* the heartbeat has sent the due reports of the minute
    job,          \* per message: its step, the retries used, the result and the key
    workbooks,    \* the object store: keys -> workbook
    mails,        \* mails the relay accepted, with message, key and workbook
    faults,
    excuses       \* history: what may make a mail go out again

reportVars == <<tenant, report, clock, ticked, job, workbooks, mails, faults, excuses>>

Unsent == [step |-> "unsent", tries |-> 0, book |-> None, key |-> None]
Keys == (0..MaxClock) \X Seconds
Running == {"received", "resolved", "rendered", "stored", "mailed"}

ReportsTypeOK ==
    /\ \A m \in Messages :
          /\ job[m].step \in Running \cup {"unsent", "queued", "done", "dead"}
          /\ job[m].tries \in 0..MaxRetries
          /\ job[m].step = "dead" => job[m].tries = MaxRetries
          /\ job[m].key \in Keys \cup {None}
    /\ DOMAIN workbooks \subseteq Keys
    /\ clock \in 0..MaxClock /\ ticked \in BOOLEAN
    /\ faults \in 0..MaxFaults

ReportsInit(rows) ==
    /\ tenant = [status |-> "active", mapped |-> TRUE]
    /\ report \in rows
    /\ clock = 0 /\ ticked = FALSE
    /\ job = [m \in Messages |-> Unsent]
    /\ workbooks = <<>>
    /\ mails = <<>>
    /\ faults = 0 /\ excuses = 0

Fault == faults < MaxFaults /\ faults' = faults + 1

----------------------------------------------------------------------------
(* The operator, and the time. *)

\* A minute that passes while the heartbeat is late is never made up for.
MinutePasses ==
    /\ clock < MaxClock
    /\ clock' = clock + 1 /\ ticked' = FALSE
    /\ UNCHANGED <<tenant, report, job, workbooks, mails, faults, excuses>>

SuspendTenant ==
    /\ tenant.status = "active"
    /\ tenant' = [tenant EXCEPT !.status = "suspended"]
    /\ UNCHANGED <<report, clock, ticked, job, workbooks, mails, faults, excuses>>

EditReport ==
    /\ report # None
    /\ \/ report' = None
       \/ report.enabled /\ report' = [report EXCEPT !.enabled = FALSE]
    /\ UNCHANGED <<tenant, clock, ticked, job, workbooks, mails, faults, excuses>>

----------------------------------------------------------------------------
(* The broker. *)

\* select_due: enabled, and the cron expression matches the minute; one that
\* cannot be read (None) is passed over.
Due == report # None /\ report.enabled /\ report.due # None /\ clock \in report.due

Send(m) == job[m].step = "unsent" /\ job' = [job EXCEPT ![m].step = "queued"]

\* The middleware of the heartbeat skips one that comes more than its delay, half
\* a minute, late: it scans for its own minute, or not at all.
Dispatch(m) ==
    /\ ~ticked /\ Due
    /\ ticked' = TRUE
    /\ Send(m)
    /\ UNCHANGED <<tenant, report, clock, workbooks, mails, faults, excuses>>

\* The heartbeat raises or dies after the message was sent: it is run again.
DispatchAgain(m) ==
    /\ ticked /\ Due /\ Fault
    /\ Send(m)
    /\ excuses' = excuses + 1
    /\ UNCHANGED <<tenant, report, clock, ticked, workbooks, mails>>

(* Mutant: the retries are counted one too late.                           *)
RaisedOnceMore(m) ==
    IF job[m].tries <= MaxRetries
    THEN [Unsent EXCEPT !.step = "queued", !.tries = job[m].tries + 1]
    ELSE [Unsent EXCEPT !.step = "dead", !.tries = job[m].tries]

\* What becomes of a job that raises: a retry, or the dead letters.
Raised(m) ==
    IF job[m].tries < MaxRetries
    THEN [Unsent EXCEPT !.step = "queued", !.tries = job[m].tries + 1]
    ELSE [Unsent EXCEPT !.step = "dead", !.tries = job[m].tries]

Excused(m) == excuses' = IF job[m].step = "mailed" THEN excuses + 1 ELSE excuses

Receive(m) ==
    /\ job[m].step = "queued"
    /\ job' = [job EXCEPT ![m].step = "received"]
    /\ UNCHANGED <<tenant, report, clock, ticked, workbooks, mails, faults, excuses>>

\* ClickHouse, the store, the relay or the database fails; the connection to
\* the relay may also fail when the mail was accepted.
JobFails(m) ==
    /\ job[m].step \in Running /\ Fault
    /\ job' = [job EXCEPT ![m] = Raised(m)]
    /\ Excused(m)
    /\ UNCHANGED <<tenant, report, clock, ticked, workbooks, mails>>

\* The worker dies and the message is delivered again.
WorkerDies(m) ==
    /\ job[m].step \in Running /\ Fault
    /\ job' = [job EXCEPT ![m] = [Unsent EXCEPT !.step = "queued", !.tries = job[m].tries]]
    /\ Excused(m)
    /\ UNCHANGED <<tenant, report, clock, ticked, workbooks, mails>>

Step(m, from, next) ==
    /\ job[m].step = from
    /\ job' = [job EXCEPT ![m] = next]
    /\ UNCHANGED <<tenant, report, clock, ticked, faults>>

----------------------------------------------------------------------------
(* run_report *)

\* ReportNotFoundError, and JobTenantError for a tenant that is not active.
Resolvable == report # None /\ tenant.status = "active" /\ tenant.mapped

Resolve(m) ==
    /\ Resolvable
    /\ Step(m, "received", [job[m] EXCEPT !.step = "resolved", !.book = report])
    /\ UNCHANGED <<workbooks, mails, excuses>>

Unresolved(m) ==
    /\ ~Resolvable
    /\ Step(m, "received", Raised(m))
    /\ UNCHANGED <<workbooks, mails, excuses>>

\* From here on the job works with the row it loaded.  The stored query is
\* validated, and the dataset's table asked whatever the dataset's status is.
Renderable(row) == RequestValid(row.request) /\ TableAnswers(row.dataset, row.request)

Workbook(row) ==
    ApplyToRows(RunAggregation(row.request, lake[row.dataset]), tags[row.dataset], FALSE)

Render(m) ==
    /\ job[m].step = "resolved" /\ Renderable(job[m].book)
    /\ Step(m, "resolved",
            [job[m] EXCEPT !.step = "rendered", !.book = [row |-> @, sheet |-> Workbook(@)]])
    /\ UNCHANGED <<workbooks, mails, excuses>>

NotRenderable(m) ==
    /\ job[m].step = "resolved" /\ ~Renderable(job[m].book)
    /\ Step(m, "resolved", Raised(m))
    /\ UNCHANGED <<workbooks, mails, excuses>>

\* The key holds the report's id and the second: a workbook of the same second
\* is overwritten.
Store(m) ==
    \E second \in Seconds :
       LET key == <<clock, second>>
       IN  /\ Step(m, "rendered", [job[m] EXCEPT !.step = "stored", !.key = key])
           /\ workbooks' = [k \in {key} \cup DOMAIN workbooks |->
                              IF k = key THEN job[m].book.sheet ELSE workbooks[k]]
           /\ UNCHANGED <<mails, excuses>>

(* Mutant: the mail is sent before the workbook is stored.                 *)
MailFirst(m) ==
    /\ job[m].step = "rendered" /\ job[m].book.row.recipients # {}
    /\ Step(m, "rendered", [job[m] EXCEPT !.step = "mailed", !.key = <<clock, 0>>])
    /\ mails' = Append(mails, [message |-> m, key |-> <<clock, 0>>, sheet |-> job[m].book.sheet])
    /\ UNCHANGED <<workbooks, excuses>>

\* ValueError without recipients.
Mail(m) ==
    /\ job[m].step = "stored" /\ job[m].book.row.recipients # {}
    /\ Step(m, "stored", [job[m] EXCEPT !.step = "mailed"])
    /\ mails' = Append(mails, [message |-> m, key |-> job[m].key, sheet |-> job[m].book.sheet])
    /\ UNCHANGED <<workbooks, excuses>>

NoRecipients(m) ==
    /\ job[m].step = "stored" /\ job[m].book.row.recipients = {}
    /\ Step(m, "stored", Raised(m))
    /\ UNCHANGED <<workbooks, mails, excuses>>

Acknowledge(m) ==
    /\ Step(m, "mailed", [Unsent EXCEPT !.step = "done", !.tries = job[m].tries])
    /\ UNCHANGED <<workbooks, mails, excuses>>

JobStep(m) ==
    \/ Dispatch(m) \/ DispatchAgain(m) \/ Receive(m) \/ JobFails(m) \/ WorkerDies(m)
    \/ Resolve(m) \/ Unresolved(m) \/ Render(m) \/ NotRenderable(m)
    \/ Store(m) \/ Mail(m) \/ NoRecipients(m) \/ Acknowledge(m)

ReportsNext ==
    \/ MinutePasses \/ SuspendTenant \/ EditReport
    \/ \E m \in Messages : JobStep(m)

----------------------------------------------------------------------------

\* A message goes out once for a minute in which the report is due, and more
\* often only if the heartbeat had to run again; a message's mail goes out once,
\* and again only if its job raised or died after the relay took it.  Every mail
\* has a workbook in the store, under the key of its second
\* (reporting/schedule.py:28-31, reporting/service.py:143-159).
MailsAreExplained ==
    /\ Len(mails) <= clock + 1 + excuses
    /\ \A i \in DOMAIN mails : mails[i].key \in DOMAIN workbooks
=============================================================================
