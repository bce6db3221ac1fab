-------------------------------- MODULE Reports --------------------------------
(***************************************************************************)
(* Auditor reports: the rows of table reports, the PDF files they name, the*)
(* generation tasks that fill them, the readers (the list promotes reports,*)
(* the download repairs files) and the hourly scheduler, which exports all *)
(* due schedules in one session.                                           *)
(*                                                                         *)
(* A report is identified by its run_id, a unique column over all tenants. *)
(* A manual report appends fresh hexadecimal digits to the run_id of the   *)
(* tenant's results; a scheduled one uses that run_id as it stands.        *)
(***************************************************************************)
EXTENDS Integers, FiniteSets

CONSTANTS
    Tenants,
    Schedules,        \* rows of report_schedules
    Runs,             \* run identifiers
    Startup,          \* the run_id of the placeholder results of a new process
    Readers,          \* requests that list or download
    ScheduleTenant,   \* the organisation of each schedule
    MaxRestarts       \* bound of the model: restarts of the server

NoRun == "none"       \* a tenant without results, created after the last run

ASSUME ReportsAssumption ==
    /\ Startup \in Runs /\ NoRun \notin Runs
    /\ Schedules # {} /\ Tenants # {}
    /\ ScheduleTenant \in [Schedules -> Tenants]
    /\ MaxRestarts \in Nat

VARIABLES
    report,      \* table reports: owner, status and registered snapshot_hash
    pdf,         \* dashboard_<run_id>.pdf: the hash in its metadata comment
    task,        \* _generate_pdf_task for each run
    latest,      \* run_id in app.state.latest_results_by_tenant
    schedule,    \* report_schedules: "absent", "waiting" or "due"
    scheduler,   \* local state of process_due_schedules
    reader,      \* local state of the list and download requests
    promoted,    \* history: reports a list found generating
    exports,     \* history: exports of a schedule since it came due
    orphaned,    \* history: reports whose task ended without a word
    aborted,     \* history: schedules a failed pass has left due
    restarts

tables == <<report, schedule>>
history == <<promoted, exports, orphaned, aborted, restarts>>
vars == <<report, pdf, task, latest, schedule, scheduler, reader, history>>

Status == {"absent", "generating", "completed", "failed"}
Hashes == {"none", "registry", "snapshot"}   \* row: sha256_<run_id>; core: digest
Files == {"missing", "unsigned"} \cup Hashes
Phases == {"none", "run", "completed", "failed"}

Asleep == [pc |-> "sleep", todo |-> {}, dirty |-> {}, current |-> {}]
Resting == [op |-> "none", seen |-> {}]

Init ==
    /\ report = [r \in Runs |-> [tenant |-> CHOOSE t \in Tenants : TRUE,
                                 status |-> "absent", hash |-> "none"]]
    /\ pdf = [r \in Runs |-> "missing"]
    /\ task = [r \in Runs |-> "none"]
    /\ latest \in [Tenants -> {Startup, NoRun}]
    /\ schedule = [s \in Schedules |-> "absent"]
    /\ scheduler = Asleep
    /\ reader = [h \in Readers |-> Resting]
    /\ promoted = {} /\ orphaned = {} /\ aborted = {}
    /\ exports = [s \in Schedules |-> 0]
    /\ restarts = 0

-----------------------------------------------------------------------------
(* The run identifiers that reach the reports                              *)

Fresh(r) ==
    /\ r # Startup /\ report[r].status = "absent"
    /\ \A t \in Tenants : latest[t] # r
    /\ pdf[r] = "missing"

(* One pipeline run publishes its run_id for every tenant.                 *)
PublishRun(r) ==
    /\ Fresh(r)
    /\ latest' = [t \in Tenants |-> r]
    /\ UNCHANGED <<tables, pdf, task, scheduler, reader, history>>

-----------------------------------------------------------------------------
(* Generation                                                              *)

Generating(t) == [tenant |-> t, status |-> "generating", hash |-> "none"]

(* generate_report: the row is committed and the task is queued in the     *)
(* process that serves the request.                                        *)
GenerateReport(t, r) ==
    /\ Fresh(r)
    /\ report' = [report EXCEPT ![r] = Generating(t)]
    /\ task' = [task EXCEPT ![r] = "run"]
    /\ UNCHANGED <<pdf, latest, schedule, scheduler, reader, history>>

(* The pipeline ends with an outcome of ends, an exception may come before *)
(* or after it wrote the file, and to complete takes a file of files.      *)
EndCore(r, ends, files) ==
    /\ task[r] = "run"
    /\ \E done \in ends, file \in {"snapshot", pdf[r]} :
          /\ done = "completed" => file \in files
          /\ task' = [task EXCEPT ![r] = done]
          /\ pdf' = [pdf EXCEPT ![r] = file]
    /\ UNCHANGED <<tables, latest, scheduler, reader, history>>

(* Faults: an exception is not caught; the file is not looked at.          *)
RunCoreUncaught(r) == EndCore(r, {"completed", "none"}, {"snapshot"})
RunCoreUnseen(r) == EndCore(r, {"completed", "failed"}, Files)

(* _run_dashboard_async: writes the PDF with the digest of the metrics, or *)
(* fails before or after it did.  A PDF that is not valid is a failure too.*)
RunCore(r) == EndCore(r, {"completed", "failed"}, {"snapshot"})

Record(r, status, hash) ==
    /\ task[r] \in {"completed", "failed"}
    /\ report' = [report EXCEPT ![r].status = status,
                                ![r].hash = IF status = "completed"
                                              THEN hash ELSE @]
    /\ task' = [task EXCEPT ![r] = "none"]
    /\ UNCHANGED <<pdf, latest, schedule, scheduler, reader, history>>

(* A fault: the phase of the task is stored for the report's status.       *)
RecordPhase(r) == Record(r, "none", "registry")

(* update_report_status with the outcome, in the task's own session.  If   *)
(* that raises, the except branch writes "failed" with the same session.   *)
RecordOutcome(r) ==
    \E status \in {task[r], "failed"} : Record(r, status, "registry")

(* Both writes raise: what made the first fail has left the session        *)
(* unusable.  The row stays, and the exception ends the pass of the        *)
(* scheduler, if that awaits the task.                                     *)
LoseOutcome(r) ==
    LET awaited == \E s \in Schedules : <<s, r>> \in scheduler.current IN
    /\ task[r] \in {"completed", "failed"}
    /\ task' = [task EXCEPT ![r] = "none"]
    /\ orphaned' = orphaned \cup {r}
    /\ scheduler' = IF awaited THEN Asleep ELSE scheduler
    /\ aborted' = IF awaited THEN aborted \cup scheduler.todo \cup scheduler.dirty
                             ELSE aborted
    /\ UNCHANGED <<tables, pdf, latest, reader, promoted, exports, restarts>>

-----------------------------------------------------------------------------
(* Readers                                                                 *)

(* list_reports loads the tenant's rows; those being generated are turned  *)
(* into completed ones when it commits, whatever they have become.         *)
LoadList(h, t) ==
    LET found == {r \in Runs : /\ report[r].tenant = t
                               /\ report[r].status = "generating"}
    IN
    /\ reader[h].op = "none" /\ found # {}
    /\ reader' = [reader EXCEPT ![h] = [op |-> "list", seen |-> found]]
    /\ promoted' = promoted \cup found
    /\ UNCHANGED <<tables, pdf, task, latest, scheduler, exports, orphaned,
                   aborted, restarts>>

CommitList(h) ==
    /\ reader[h].op = "list"
    /\ report' = [r \in Runs |->
                    IF r \in reader[h].seen
                      THEN [report[r] EXCEPT !.status = "completed",
                                             !.hash = "registry"]
                      ELSE report[r]]
    /\ reader' = [reader EXCEPT ![h] = Resting]
    /\ UNCHANGED <<pdf, task, latest, schedule, scheduler, history>>

(* A fault: every download builds the file anew.                           *)
LoadDownloadAlways(h, r) ==
    /\ reader[h].op = "none"
    /\ report[r].status = "completed"
    /\ reader' = [reader EXCEPT ![h] = [op |-> "download", seen |-> {r}]]
    /\ UNCHANGED <<tables, pdf, task, latest, scheduler, history>>

(* download_report: 409 unless the row is completed.  A file that is there *)
(* and starts like a PDF is served as it is.                               *)
LoadDownload(h, r) == pdf[r] = "missing" /\ LoadDownloadAlways(h, r)

(* repair_report_pdf builds a file that carries the hash of the row.       *)
RepairPdf(h) ==
    /\ reader[h].op = "download"
    /\ pdf' = [r \in Runs |-> IF r \in reader[h].seen
                                THEN report[r].hash ELSE pdf[r]]
    /\ reader' = [reader EXCEPT ![h] = Resting]
    /\ UNCHANGED <<tables, task, latest, scheduler, history>>

(* verify_report: the hash in the file is the one in the row.  A file that *)
(* the pipeline wrote never has it, as its digest is of the metrics.       *)
Verified(r) ==
    /\ report[r].status = "completed"
    /\ pdf[r] = report[r].hash

-----------------------------------------------------------------------------
(* Schedules                                                               *)

(* History: the schedules S have been served, or are gone.                 *)
NewDueDate(S) ==
    /\ exports' = [s \in Schedules |-> IF s \in S THEN 0 ELSE exports[s]]
    /\ aborted' = aborted \ S

(* A new row, never one that a pass still holds.                           *)
CreateSchedule(s) ==
    /\ schedule[s] = "absent"
    /\ s \notin scheduler.todo \cup scheduler.dirty
    /\ schedule' = [schedule EXCEPT ![s] = "waiting"]
    /\ NewDueDate({s})
    /\ UNCHANGED <<report, pdf, task, latest, scheduler, reader, promoted,
                   orphaned, restarts>>

(* 404 for a schedule of another organisation.                             *)
DeleteSchedule(t, s) ==
    /\ schedule[s] # "absent" /\ ScheduleTenant[s] = t
    /\ schedule' = [schedule EXCEPT ![s] = "absent"]
    /\ NewDueDate({s})
    /\ UNCHANGED <<report, pdf, task, latest, scheduler, reader, promoted,
                   orphaned, restarts>>

(* next_run_at has passed.                                                 *)
ComeDue(s) ==
    /\ schedule[s] = "waiting"
    /\ schedule' = [schedule EXCEPT ![s] = "due"]
    /\ UNCHANGED <<report, pdf, task, latest, scheduler, reader, history>>

(* The hourly query of process_due_schedules.                              *)
WakeUp ==
    LET due == {s \in Schedules : schedule[s] = "due"} IN
    /\ scheduler.pc = "sleep" /\ due # {}
    /\ scheduler' = [scheduler EXCEPT !.pc = "export", !.todo = due]
    /\ UNCHANGED <<tables, pdf, task, latest, reader, history>>

(* The rows whose new next_run_at is pending in the scheduler's session.   *)
Flushed == [s \in Schedules |->
              IF s \in scheduler.dirty THEN "waiting" ELSE schedule[s]]

CanFlush == \A s \in scheduler.dirty : schedule[s] # "absent"

(* _run_scheduled_export saves its row on the session of the whole pass:   *)
(* the commit sends the pending updates of the schedules done before.      *)
Export(s, r) ==
    /\ scheduler.pc = "export" /\ s \in scheduler.todo
    /\ IF latest[ScheduleTenant[s]] = NoRun
         THEN Fresh(r) ELSE r = latest[ScheduleTenant[s]]
    /\ report[r].status = "absent" /\ CanFlush
    /\ report' = [report EXCEPT ![r] = Generating(ScheduleTenant[s])]
    /\ task' = [task EXCEPT ![r] = "run"]
    /\ schedule' = Flushed /\ NewDueDate(scheduler.dirty)
    /\ scheduler' = [scheduler EXCEPT !.pc = "await", !.dirty = {},
                                      !.current = {<<s, r>>}]
    /\ UNCHANGED <<pdf, latest, reader, promoted, orphaned, restarts>>

(* The awaited task of s has ended, dirty are the schedules to update.     *)
EndExport(s, dirty) ==
    /\ \E r \in Runs : <<s, r>> \in scheduler.current /\ task[r] = "none"
    /\ scheduler' = [pc |-> IF scheduler.todo = {s} THEN "commit" ELSE "export",
                     todo |-> scheduler.todo \ {s},
                     dirty |-> scheduler.dirty \cup dirty, current |-> {}]
    /\ exports' = [exports EXCEPT ![s] = @ + 1]
    /\ UNCHANGED <<tables, pdf, task, latest, reader, promoted, orphaned,
                   aborted, restarts>>

(* A fault: next_run_at is not advanced.                                   *)
DeliverOnly(s) == EndExport(s, {})

(* The report is mailed if its task completed it, and the schedule's new   *)
(* times wait for the next commit of the session.                          *)
Deliver(s) == EndExport(s, {s})

CommitPass ==
    /\ scheduler.pc = "commit" /\ CanFlush
    /\ schedule' = Flushed /\ NewDueDate(scheduler.dirty)
    /\ scheduler' = Asleep
    /\ UNCHANGED <<report, pdf, task, latest, reader, promoted, orphaned,
                   restarts>>

(* An exception ends the pass: a run_id that has its report already, or a  *)
(* schedule that was deleted since it was loaded.  The session rolls back. *)
AbortTo(pc) ==
    /\ \/ /\ scheduler.pc = "export"
          /\ \/ ~ CanFlush
             \/ \E s \in scheduler.todo :
                   /\ latest[ScheduleTenant[s]] # NoRun
                   /\ report[latest[ScheduleTenant[s]]].status # "absent"
       \/ scheduler.pc = "commit" /\ ~ CanFlush
    /\ aborted' = aborted \cup scheduler.todo \cup scheduler.dirty
    /\ scheduler' = [Asleep EXCEPT !.pc = pc]
    /\ UNCHANGED <<tables, pdf, task, latest, reader, promoted, exports,
                   orphaned, restarts>>

(* A fault: the exception ends the scheduler task too.                     *)
AbortScheduler == AbortTo("dead")

(* run_report_scheduler logs the error and sleeps.                         *)
AbortPass == AbortTo("sleep")

(* Tasks, requests and published results live in the process.  The file of *)
(* at most one task is cut off before its metadata comment is appended.    *)
Restart ==
    /\ restarts < MaxRestarts
    /\ restarts' = restarts + 1
    /\ \E cut \in {{}} \cup {{r} : r \in {q \in Runs : task[q] = "run"}} :
          pdf' = [r \in Runs |-> IF r \in cut THEN "unsigned" ELSE pdf[r]]
    /\ orphaned' = orphaned \cup {r \in Runs : task[r] # "none"}
    /\ task' = [r \in Runs |-> "none"]
    /\ latest' = [t \in Tenants |-> Startup]
    /\ aborted' = aborted \cup scheduler.todo \cup scheduler.dirty
    /\ scheduler' = Asleep
    /\ reader' = [h \in Readers |-> Resting]
    /\ UNCHANGED <<tables, promoted, exports>>

SchedulerStep ==
    \/ WakeUp \/ CommitPass \/ AbortPass
    \/ \E s \in Schedules : Deliver(s) \/ \E r \in Runs : Export(s, r)

TaskStep(r) == RunCore(r) \/ RecordOutcome(r)

Next ==
    \/ \E r \in Runs : PublishRun(r) \/ TaskStep(r) \/ LoseOutcome(r)
    \/ \E t \in Tenants, r \in Runs : GenerateReport(t, r)
    \/ \E h \in Readers :
          \/ \E t \in Tenants : LoadList(h, t)
          \/ \E r \in Runs : LoadDownload(h, r)
          \/ CommitList(h) \/ RepairPdf(h)
    \/ \E s \in Schedules :
          \/ CreateSchedule(s) \/ ComeDue(s)
          \/ \E t \in Tenants : DeleteSchedule(t, s)
    \/ SchedulerStep
    \/ Restart

(* The event loop runs every task and the scheduler on; the pipeline's     *)
(* queries have timeouts.  Nobody has to list, download or schedule.       *)
Fairness ==
    /\ WF_vars(SchedulerStep)
    /\ \A r \in Runs : WF_vars(TaskStep(r))

Spec == Init /\ [][Next]_vars /\ Fairness

-----------------------------------------------------------------------------
(* Properties                                                              *)

(* The types of the tables, the files and the local states.                *)
TypeOK ==
    /\ report \in [Runs -> [tenant: Tenants, status: Status,
                            hash: {"none", "registry"}]]
    /\ pdf \in [Runs -> Files]
    /\ task \in [Runs -> Phases]
    /\ latest \in [Tenants -> Runs \cup {NoRun}]
    /\ schedule \in [Schedules -> {"absent", "waiting", "due"}]
    /\ scheduler \in [pc: {"sleep", "export", "await", "commit"},
                      todo: SUBSET Schedules, dirty: SUBSET Schedules,
                      current: SUBSET (Schedules \X Runs)]
    /\ reader \in [Readers -> [op: {"none", "list", "download"},
                               seen: SUBSET Runs]]
    /\ promoted \subseteq Runs /\ orphaned \subseteq Runs
    /\ exports \in [Schedules -> Nat] /\ aborted \subseteq Schedules
    /\ restarts \in 0..MaxRestarts

(* A completed report has the file that the pipeline wrote for it.  It has *)
(* none, one that was cut off, or one that download_report made up (which  *)
(* is the only one that verifies) only if a list once found the report     *)
(* generating: the list is the one operation that invents the outcome.     *)
InventedOnlyByList ==
    \A r \in Runs :
        report[r].status = "completed" /\ pdf[r] # "snapshot" => r \in promoted

(* "Signature verified - report integrity confirmed", or else "report may  *)
(* have been tampered": a report that its own task completed, with the     *)
(* file as the pipeline wrote it, verifies.  It does not: the row is given *)
(* a hash of the run_id, the file has the digest of the metrics.           *)
GeneratedVerifies ==
    \A r \in Runs \ promoted :
        report[r].status = "completed" /\ pdf[r] = "snapshot" => Verified(r)

(* A report that was completed by its own task is never taken back: no     *)
(* second task, list, repair or schedule changes its row or its file.      *)
CompletedIsFinal ==
    [][\A r \in Runs \ promoted :
          report[r].status = "completed" =>
              report'[r] = report[r] /\ pdf'[r] = pdf[r]]_vars

(* A schedule is exported (and mailed) once for each time it comes due,    *)
(* unless a pass that held it was aborted: only then is its next_run_at    *)
(* rolled back after its mail has gone out.                                *)
ExportedOnce ==
    \A s \in Schedules : exports[s] > 1 => s \in aborted

(* A due schedule is served in the end, or was in a pass that failed, or   *)
(* is deleted (or the model has no run_id left for it).                    *)
DueIsServed ==
    \A s \in Schedules :
        schedule[s] = "due" ~>
            schedule[s] # "due" \/ s \in aborted \/ ~ \E r \in Runs : Fresh(r)

(* A report does not stay in generating for ever, unless its task ended    *)
(* without a word: dropped by a restart, or failing to write its outcome   *)
(* (nothing looks for such rows afterwards but the list).                  *)
GeneratingEnds ==
    \A r \in Runs :
        report[r].status = "generating" ~>
            report[r].status # "generating" \/ r \in orphaned
=============================================================================
