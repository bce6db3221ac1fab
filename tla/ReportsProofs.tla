----------------------------- MODULE ReportsProofs -----------------------------
(***************************************************************************)
(* Theorems about Reports, for any number of organisations, schedules, run *)
(* identifiers, readers and restarts.                                      *)
(***************************************************************************)
EXTENDS Reports, TLAPS

Row == [tenant: Tenants, status: Status, hash: {"none", "registry"}]
Pass == [pc: {"sleep", "export", "await", "commit"},
         todo: SUBSET Schedules, dirty: SUBSET Schedules,
         current: SUBSET (Schedules \X Runs)]

-----------------------------------------------------------------------------
(* Type correctness                                                        *)

LEMMA AsleepIsPass == Asleep \in Pass
  BY DEF Asleep, Pass

LEMMA TypeInit == Init => TypeOK
<1> SUFFICES ASSUME Init PROVE TypeOK
  OBVIOUS
<1>1. report \in [Runs -> Row]
  BY ReportsAssumption DEF Init, Row, Status
<1>2. scheduler \in Pass
  BY AsleepIsPass DEF Init
<1>3. latest \in [Tenants -> Runs \cup {NoRun}]
  BY ReportsAssumption DEF Init
<1> QED
  BY <1>1, <1>2, <1>3, ReportsAssumption
     DEF Init, TypeOK, Row, Pass, Resting, Files, Hashes, Phases

LEMMA GeneratingIsRow ==
  ASSUME NEW t \in Tenants PROVE Generating(t) \in Row
  BY DEF Generating, Row, Status

(* The columns of a report after its task has ended.                       *)
LEMMA TypeTask ==
  ASSUME TypeOK, NEW r \in Runs, TaskStep(r)
  PROVE  TypeOK'
<1>1. CASE RunCore(r)
  <2>1. PICK done \in {"completed", "failed"}, file \in {"snapshot", pdf[r]} :
           /\ task' = [task EXCEPT ![r] = done]
           /\ pdf' = [pdf EXCEPT ![r] = file]
    BY <1>1 DEF RunCore, EndCore
  <2>2. file \in Files
    BY DEF TypeOK, Files, Hashes
  <2>3. UNCHANGED <<tables, latest, scheduler, reader, history>>
    BY <1>1 DEF RunCore, EndCore
  <2> QED
    BY <2>1, <2>2, <2>3 DEF TypeOK, Phases, tables, history
<1>2. CASE RecordOutcome(r)
  <2>1. PICK status \in {task[r], "failed"} :
        /\ report' = [report EXCEPT ![r].status = status,
                                    ![r].hash = IF status = "completed"
                                                  THEN "registry" ELSE @]
        /\ task[r] \in {"completed", "failed"}
        /\ task' = [task EXCEPT ![r] = "none"]
        /\ UNCHANGED <<pdf, latest, schedule, scheduler, reader, history>>
    BY <1>2 DEF RecordOutcome, Record
  <2>2. report \in [Runs -> Row]
    BY DEF TypeOK, Row
  <2>3. report' \in [Runs -> Row]
    BY <2>1, <2>2 DEF Row, Status
  <2> QED
    BY <2>1, <2>3 DEF TypeOK, Phases, Row, history
<1> QED
  BY <1>1, <1>2 DEF TaskStep

LEMMA TypeReader ==
  ASSUME TypeOK, NEW h \in Readers,
         \/ \E t \in Tenants : LoadList(h, t)
         \/ \E r \in Runs : LoadDownload(h, r)
         \/ CommitList(h) \/ RepairPdf(h)
  PROVE  TypeOK'
<1>1. ASSUME NEW t \in Tenants, LoadList(h, t) PROVE TypeOK'
  BY <1>1 DEF LoadList, TypeOK, tables
<1>2. ASSUME NEW r \in Runs, LoadDownload(h, r) PROVE TypeOK'
  BY <1>2 DEF LoadDownload, LoadDownloadAlways, TypeOK, tables, history
<1>3. CASE CommitList(h)
  <2>1. /\ report' = [r \in Runs |-> IF r \in reader[h].seen
                          THEN [report[r] EXCEPT !.status = "completed",
                                                 !.hash = "registry"]
                          ELSE report[r]]
        /\ reader' = [reader EXCEPT ![h] = Resting]
        /\ UNCHANGED <<pdf, task, latest, schedule, scheduler, history>>
    BY <1>3 DEF CommitList
  <2>2. report \in [Runs -> Row]
    BY DEF TypeOK, Row
  <2>3. \A r \in Runs :
          [report[r] EXCEPT !.status = "completed", !.hash = "registry"] \in Row
    BY <2>2 DEF Row, Status
  <2>4. report' \in [Runs -> Row]
    BY <2>1, <2>2, <2>3
  <2> QED
    BY <2>1, <2>4 DEF TypeOK, Row, Resting, history
<1>4. CASE RepairPdf(h)
  BY <1>4 DEF RepairPdf, TypeOK, Resting, Files, Hashes, tables, history
<1> QED
  BY <1>1, <1>2, <1>3, <1>4

LEMMA TypeDueDate ==
  ASSUME TypeOK, NEW S \in SUBSET Schedules, NewDueDate(S)
  PROVE  exports' \in [Schedules -> Nat] /\ aborted' \subseteq Schedules
  BY DEF NewDueDate, TypeOK

LEMMA TypeFlushed ==
  ASSUME TypeOK PROVE Flushed \in [Schedules -> {"absent", "waiting", "due"}]
  BY DEF Flushed, TypeOK

LEMMA TypeScheduler ==
  ASSUME TypeOK, SchedulerStep
  PROVE  TypeOK'
<1> scheduler \in Pass
  BY DEF TypeOK, Pass
<1>1. CASE WakeUp
  <2>1. scheduler' \in Pass
    BY <1>1 DEF WakeUp, Pass
  <2> QED
    BY <1>1, <2>1 DEF WakeUp, TypeOK, Pass, tables, history
<1>2. CASE CommitPass
  BY <1>2, TypeDueDate, TypeFlushed, AsleepIsPass
     DEF CommitPass, TypeOK, Pass
<1>3. CASE AbortPass
  <2>1. scheduler' = Asleep /\ aborted' \subseteq Schedules
    BY <1>3 DEF AbortPass, AbortTo, TypeOK, Pass, Asleep
  <2> QED
    BY <1>3, <2>1, AsleepIsPass DEF AbortPass, AbortTo, TypeOK, Pass, tables
<1>4. ASSUME NEW s \in Schedules, Deliver(s) PROVE TypeOK'
  <2>1. scheduler' \in Pass
    BY <1>4 DEF Deliver, EndExport, Pass
  <2>2. exports' \in [Schedules -> Nat]
    BY <1>4 DEF Deliver, EndExport, TypeOK
  <2> QED
    BY <1>4, <2>1, <2>2 DEF Deliver, EndExport, TypeOK, Pass, tables
<1>5. ASSUME NEW s \in Schedules, NEW r \in Runs, Export(s, r) PROVE TypeOK'
  <2>1. /\ report' = [report EXCEPT ![r] = Generating(ScheduleTenant[s])]
        /\ task' = [task EXCEPT ![r] = "run"]
        /\ schedule' = Flushed /\ NewDueDate(scheduler.dirty)
        /\ scheduler' = [scheduler EXCEPT !.pc = "await", !.dirty = {},
                                          !.current = {<<s, r>>}]
        /\ UNCHANGED <<pdf, latest, reader, promoted, orphaned, restarts>>
    BY <1>5 DEF Export
  <2>2. scheduler' \in Pass
    <3>1. {<<s, r>>} \in SUBSET (Schedules \X Runs)
      OBVIOUS
    <3> DEFINE served == {<<s, r>>}
    <3>2. scheduler' = [scheduler EXCEPT !.pc = "await", !.dirty = {},
                                         !.current = served]
      BY <2>1
    <3> HIDE DEF served
    <3> QED
      BY <3>1, <3>2 DEF Pass, served
  <2>3. report' \in [Runs -> Row]
    BY <2>1, GeneratingIsRow, ReportsAssumption DEF TypeOK, Row
  <2>4. exports' \in [Schedules -> Nat] /\ aborted' \subseteq Schedules
    BY <2>1, TypeDueDate DEF Pass
  <2> QED
    BY <2>1, <2>2, <2>3, <2>4, TypeFlushed DEF TypeOK, Pass, Row, Phases
<1> QED
  BY <1>1, <1>2, <1>3, <1>4, <1>5 DEF SchedulerStep

LEMMA TypeRestart ==
  ASSUME TypeOK, Restart
  PROVE  TypeOK'
<1>1. PICK cut \in SUBSET Runs :
        pdf' = [r \in Runs |-> IF r \in cut THEN "unsigned" ELSE pdf[r]]
  BY DEF Restart
<1>2. pdf' \in [Runs -> Files]
  BY <1>1 DEF TypeOK, Files
<1>3. scheduler' = Asleep /\ aborted' \subseteq Schedules
  BY DEF Restart, TypeOK
<1>4. restarts' \in 0..MaxRestarts
  BY ReportsAssumption DEF Restart, TypeOK
<1>5. latest' \in [Tenants -> Runs \cup {NoRun}]
  BY ReportsAssumption DEF Restart
<1> QED
  BY <1>2, <1>3, <1>4, <1>5, AsleepIsPass
     DEF Restart, TypeOK, Pass, Phases, Resting, tables

LEMMA TypeNext == TypeOK /\ [Next]_vars => TypeOK'
<1> SUFFICES ASSUME TypeOK, [Next]_vars PROVE TypeOK'
  OBVIOUS
<1>1. ASSUME NEW r \in Runs, PublishRun(r) PROVE TypeOK'
  BY <1>1 DEF PublishRun, TypeOK, tables, history
<1>2. ASSUME NEW t \in Tenants, NEW r \in Runs, GenerateReport(t, r) PROVE TypeOK'
  <2>1. report' \in [Runs -> Row]
    BY <1>2, GeneratingIsRow DEF GenerateReport, TypeOK, Row
  <2> QED
    BY <1>2, <2>1 DEF GenerateReport, TypeOK, Row, Phases, history
<1>3. ASSUME NEW s \in Schedules, CreateSchedule(s) PROVE TypeOK'
  BY <1>3, TypeDueDate DEF CreateSchedule, TypeOK
<1>4. ASSUME NEW s \in Schedules, ComeDue(s) PROVE TypeOK'
  BY <1>4 DEF ComeDue, TypeOK, history
<1>5. ASSUME NEW t \in Tenants, NEW s \in Schedules, DeleteSchedule(t, s)
      PROVE  TypeOK'
  BY <1>5, TypeDueDate DEF DeleteSchedule, TypeOK
<1>6. CASE UNCHANGED vars
  BY <1>6 DEF vars, tables, history, TypeOK
<1>7. ASSUME NEW r \in Runs, LoseOutcome(r) PROVE TypeOK'
  <2>1. scheduler' \in Pass /\ aborted' \subseteq Schedules
    BY <1>7, AsleepIsPass DEF LoseOutcome, TypeOK, Pass
  <2> QED
    BY <1>7, <2>1 DEF LoseOutcome, TypeOK, Pass, Phases, tables
<1> QED
  BY <1>1, <1>2, <1>3, <1>4, <1>5, <1>6, <1>7, TypeTask, TypeReader, TypeScheduler,
     TypeRestart DEF Next

(* The types of tables reports and report_schedules, of the PDF files and  *)
(* of the tasks, readers and scheduler of the process.                     *)
THEOREM ReportsTypeCorrect == Spec => []TypeOK
  BY TypeInit, TypeNext, PTL DEF Spec

-----------------------------------------------------------------------------
(* The outcome of a report                                                 *)

(* Of a report that no list has found generating: its task runs while it   *)
(* is generating, and what completed it was a task that wrote its file.    *)
Earned(r) ==
    /\ task[r] # "none" => report[r].status = "generating"
    /\ task[r] = "completed" => pdf[r] = "snapshot"
    /\ report[r].status = "completed" =>
          report[r].hash = "registry" /\ pdf[r] = "snapshot"

(* What a list or a download is about to change, a list once promoted.     *)
OutcomeInv ==
    /\ \A h \in Readers : reader[h].seen \subseteq promoted
    /\ \A r \in Runs \ promoted : Earned(r)

(* The report r, its file and its task stay as they are.                   *)
Untouched(r) == report'[r] = report[r] /\ pdf'[r] = pdf[r] /\ task'[r] = task[r]

LEMMA OutcomeInit == Init => OutcomeInv
  BY DEF Init, OutcomeInv, Earned, Resting

LEMMA EarnedStays ==
  ASSUME NEW r, Earned(r), Untouched(r)
  PROVE  Earned(r)'
  BY DEF Earned, Untouched

(* The lists and downloads touch nothing but what a list has promoted.     *)
LEMMA OutcomeReader ==
  ASSUME TypeOK, OutcomeInv, NEW h \in Readers,
         \/ \E t \in Tenants : LoadList(h, t)
         \/ \E r \in Runs : LoadDownload(h, r)
         \/ CommitList(h) \/ RepairPdf(h)
  PROVE  /\ promoted \subseteq promoted'
         /\ \A g \in Readers : reader'[g].seen \subseteq promoted'
         /\ \A r \in Runs \ promoted : Untouched(r)
<1> DEFINE Claim == /\ promoted \subseteq promoted'
                    /\ \A g \in Readers : reader'[g].seen \subseteq promoted'
                    /\ \A r \in Runs \ promoted : Untouched(r)
<1>1. ASSUME NEW t \in Tenants, LoadList(h, t) PROVE Claim
  <2>1. PICK found \in SUBSET Runs :
           /\ reader' = [reader EXCEPT ![h] = [op |-> "list", seen |-> found]]
           /\ promoted' = promoted \cup found
           /\ UNCHANGED <<report, pdf, task>>
    BY <1>1 DEF LoadList, tables
  <2>2. \A g \in Readers : reader'[g].seen = IF g = h THEN found
                                             ELSE reader[g].seen
    BY <2>1 DEF TypeOK
  <2> QED
    BY <2>1, <2>2 DEF OutcomeInv, Untouched
<1>2. ASSUME NEW r \in Runs, LoadDownload(h, r) PROVE Claim
  <2>1. /\ reader' = [reader EXCEPT ![h] = [op |-> "download", seen |-> {r}]]
        /\ promoted' = promoted /\ UNCHANGED <<report, pdf, task>>
        /\ report[r].status = "completed" /\ pdf[r] = "missing"
    BY <1>2 DEF LoadDownload, LoadDownloadAlways, tables, history
  <2>2. r \in promoted
    BY <2>1 DEF OutcomeInv, Earned
  <2>3. \A g \in Readers : reader'[g].seen = IF g = h THEN {r}
                                             ELSE reader[g].seen
    BY <2>1 DEF TypeOK
  <2> QED
    BY <2>1, <2>2, <2>3 DEF OutcomeInv, Untouched
<1>3. ASSUME reader' = [reader EXCEPT ![h] = Resting], promoted' = promoted
      PROVE  \A g \in Readers : reader'[g].seen \subseteq promoted'
  BY <1>3 DEF OutcomeInv, TypeOK, Resting
<1>4. CASE CommitList(h)
  <2>1. \A r \in Runs \ promoted : report'[r] = report[r]
    BY <1>4 DEF CommitList, OutcomeInv
  <2> QED
    BY <1>3, <1>4, <2>1 DEF CommitList, Untouched, history
<1>5. CASE RepairPdf(h)
  <2>1. \A r \in Runs \ promoted : pdf'[r] = pdf[r]
    BY <1>5 DEF RepairPdf, OutcomeInv
  <2> QED
    BY <1>3, <1>5, <2>1 DEF RepairPdf, Untouched, tables, history
<1> QED
  BY <1>1, <1>2, <1>4, <1>5

(* Of a report that no list has promoted, a step touches nothing unless it *)
(* creates it, is one of its own task, or drops that task.                 *)
LEMMA OutcomeSteps ==
  ASSUME TypeOK, OutcomeInv, [Next]_vars
  PROVE  /\ promoted \subseteq promoted'
         /\ \A h \in Readers : reader'[h].seen \subseteq promoted'
         /\ \A r \in Runs \ promoted :
              \/ Untouched(r)
              \/ /\ report[r].status = "absent" /\ report'[r].status = "generating"
                 /\ task'[r] = "run"
              \/ TaskStep(r)
              \/ /\ task[r] # "none" /\ task'[r] = "none" /\ report'[r] = report[r]
<1> DEFINE Created(r) == /\ report[r].status = "absent"
                         /\ report'[r].status = "generating" /\ task'[r] = "run"
           Dropped(r) == /\ task[r] # "none" /\ task'[r] = "none"
                         /\ report'[r] = report[r]
           Claim == /\ promoted \subseteq promoted'
                    /\ \A h \in Readers : reader'[h].seen \subseteq promoted'
                    /\ \A r \in Runs \ promoted :
                         Untouched(r) \/ Created(r) \/ TaskStep(r) \/ Dropped(r)
<1> SUFFICES Claim
  OBVIOUS
<1>1. ASSUME reader' = reader, promoted' = promoted,
             \A r \in Runs \ promoted :
                Untouched(r) \/ Created(r) \/ TaskStep(r) \/ Dropped(r)
      PROVE  Claim
  BY <1>1 DEF OutcomeInv
<1>2. ASSUME UNCHANGED <<report, pdf, task, reader, promoted>> PROVE Claim
  BY <1>1, <1>2 DEF Untouched
<1> HIDE DEF Claim
<1>3. ASSUME NEW q \in Runs, TaskStep(q) PROVE Claim
  <2>1. \A r \in Runs : r # q => Untouched(r)
    BY <1>3 DEF TaskStep, RunCore, EndCore, RecordOutcome, Record, Untouched,
       TypeOK, tables
  <2>2. reader' = reader /\ promoted' = promoted
    BY <1>3 DEF TaskStep, RunCore, EndCore, RecordOutcome, Record, history
  <2> QED
    BY <1>1, <1>3, <2>1, <2>2
<1>4. ASSUME NEW t, NEW q \in Runs, report[q].status = "absent",
             report' = [report EXCEPT ![q] = Generating(t)],
             task' = [task EXCEPT ![q] = "run"],
             UNCHANGED <<pdf, reader, promoted>>
      PROVE  Claim
  <2>1. Created(q)
    BY <1>4 DEF Generating, TypeOK
  <2>2. \A r \in Runs : r # q => Untouched(r)
    BY <1>4 DEF Untouched, TypeOK
  <2> QED
    BY <1>1, <1>4, <2>1, <2>2
<1>5. ASSUME NEW t \in Tenants, NEW q \in Runs, GenerateReport(t, q) PROVE Claim
  BY <1>4, <1>5 DEF GenerateReport, Fresh, history
<1>6. ASSUME NEW s \in Schedules, NEW q \in Runs, Export(s, q) PROVE Claim
  BY <1>4, <1>6 DEF Export
<1>7. CASE Restart
  <2>1. /\ promoted' = promoted /\ report' = report
        /\ reader' = [h \in Readers |-> Resting]
        /\ task' = [r \in Runs |-> "none"]
    BY <1>7 DEF Restart, tables
  <2>2. \A r \in Runs : Untouched(r) \/ Dropped(r)
    <3>1. PICK cut \in SUBSET Runs :
            /\ pdf' = [r \in Runs |-> IF r \in cut THEN "unsigned" ELSE pdf[r]]
            /\ \A r \in cut : task[r] = "run"
      BY <1>7 DEF Restart
    <3>2. \A r \in Runs : r \notin cut => pdf'[r] = pdf[r]
      BY <3>1
    <3> QED
      BY <2>1, <3>1, <3>2 DEF Untouched, TypeOK
  <2>3. \A h \in Readers : reader'[h].seen = {}
    BY <2>1 DEF Resting
  <2> QED
    BY <2>1, <2>2, <2>3 DEF Claim
<1>8. ASSUME NEW h \in Readers,
             \/ \E t \in Tenants : LoadList(h, t)
             \/ \E r \in Runs : LoadDownload(h, r)
             \/ CommitList(h) \/ RepairPdf(h)
      PROVE  Claim
  BY <1>8, OutcomeReader DEF Claim
<1>9. CASE UNCHANGED vars
  BY <1>2, <1>9 DEF vars, tables, history
<1>10. ASSUME NEW r \in Runs, PublishRun(r) PROVE Claim
  BY <1>2, <1>10 DEF PublishRun, tables, history
<1>11. ASSUME NEW s \in Schedules,
              \/ CreateSchedule(s) \/ ComeDue(s) \/ Deliver(s)
              \/ \E t \in Tenants : DeleteSchedule(t, s)
       PROVE  Claim
  BY <1>2, <1>11 DEF CreateSchedule, ComeDue, Deliver, EndExport, DeleteSchedule,
     tables, history
<1>12. ASSUME WakeUp \/ CommitPass \/ AbortPass PROVE Claim
  BY <1>2, <1>12 DEF WakeUp, CommitPass, AbortPass, AbortTo, tables, history
<1>13. ASSUME NEW q \in Runs, LoseOutcome(q) PROVE Claim
  <2>1. \A r \in Runs : r # q => Untouched(r)
    BY <1>13 DEF LoseOutcome, Untouched, TypeOK, tables
  <2>2. Dropped(q) /\ reader' = reader /\ promoted' = promoted
    BY <1>13 DEF LoseOutcome, TypeOK, tables
  <2> QED
    BY <1>1, <2>1, <2>2
<1> QED
  BY <1>3, <1>5, <1>6, <1>7, <1>8, <1>9, <1>10, <1>11, <1>12, <1>13
     DEF Next, SchedulerStep

LEMMA OutcomeTask ==
  ASSUME TypeOK, NEW r \in Runs, Earned(r), TaskStep(r)
  PROVE  Earned(r)'
<1>1. CASE RunCore(r)
  <2>1. PICK done \in {"completed", "failed"}, file \in {"snapshot", pdf[r]} :
           /\ done = "completed" => file = "snapshot"
           /\ task' = [task EXCEPT ![r] = done]
           /\ pdf' = [pdf EXCEPT ![r] = file]
    BY <1>1 DEF RunCore, EndCore
  <2>2. task'[r] = done /\ pdf'[r] = file
    BY <2>1 DEF TypeOK
  <2>3. task[r] = "run" /\ report' = report
    BY <1>1 DEF RunCore, EndCore, tables
  <2> QED
    BY <2>1, <2>2, <2>3 DEF Earned
<1>2. CASE RecordOutcome(r)
  <2>1. /\ task'[r] = "none" /\ pdf' = pdf
        /\ report'[r].status \in {task[r], "failed"}
        /\ report'[r].status = "completed" =>
              task[r] = "completed" /\ report'[r].hash = "registry"
    BY <1>2 DEF RecordOutcome, Record, TypeOK
  <2> QED
    BY <2>1 DEF Earned
<1> QED
  BY <1>1, <1>2 DEF TaskStep

LEMMA OutcomeNext == TypeOK /\ OutcomeInv /\ [Next]_vars => OutcomeInv'
<1> SUFFICES ASSUME TypeOK, OutcomeInv, [Next]_vars,
                    NEW r \in Runs, r \notin promoted'
             PROVE  Earned(r)'
  BY OutcomeSteps DEF OutcomeInv
<1>1. r \notin promoted /\ Earned(r)
  BY OutcomeSteps DEF OutcomeInv
<1>2. CASE Untouched(r)
  BY <1>1, <1>2, EarnedStays
<1>3. CASE /\ report[r].status = "absent" /\ report'[r].status = "generating"
           /\ task'[r] = "run"
  BY <1>3 DEF Earned
<1>4. CASE TaskStep(r)
  BY <1>1, <1>4, OutcomeTask
<1>5. CASE task[r] # "none" /\ task'[r] = "none" /\ report'[r] = report[r]
  BY <1>1, <1>5 DEF Earned
<1> QED
  BY <1>1, <1>2, <1>3, <1>4, <1>5, OutcomeSteps

(* Only list_reports invents an outcome: a report that is shown as         *)
(* completed without the PDF that the pipeline wrote for it was found      *)
(* generating by a list before.                                            *)
THEOREM OnlyListsInvent == Spec => []InventedOnlyByList
<1>1. OutcomeInv => InventedOnlyByList
  BY DEF OutcomeInv, Earned, InventedOnlyByList
<1> QED
  BY <1>1, TypeInit, TypeNext, OutcomeInit, OutcomeNext, PTL DEF Spec

(* What _generate_pdf_task completed stays: no later task, list, download, *)
(* schedule or restart changes the row or the file of that report.         *)
THEOREM CompletedReportIsFinal == Spec => CompletedIsFinal
<1>1. TypeOK /\ OutcomeInv /\ [Next]_vars
        => [\A r \in Runs \ promoted :
              report[r].status = "completed" =>
                  report'[r] = report[r] /\ pdf'[r] = pdf[r]]_vars
  <2> SUFFICES ASSUME TypeOK, OutcomeInv, [Next]_vars,
                      NEW r \in Runs \ promoted, report[r].status = "completed"
               PROVE  report'[r] = report[r] /\ pdf'[r] = pdf[r]
    OBVIOUS
  <2>1. task[r] = "none"
    BY DEF OutcomeInv, Earned
  <2>2. ~ TaskStep(r)
    BY <2>1 DEF TaskStep, RunCore, EndCore, RecordOutcome, Record
  <2> QED
    BY <2>1, <2>2, OutcomeSteps DEF Untouched
<1> QED
  BY <1>1, TypeInit, TypeNext, OutcomeInit, OutcomeNext, PTL
     DEF Spec, CompletedIsFinal

-----------------------------------------------------------------------------
(* A schedule is exported once                                             *)

(* What a pass has exported waits to be committed with its new due date,   *)
(* and is not exported by the pass again.                                  *)
ExportInv ==
    /\ \A s \in scheduler.todo : s \notin scheduler.dirty
    /\ \A served \in scheduler.current : served[1] \in scheduler.todo
    /\ scheduler.pc = "sleep" => scheduler.dirty = {} /\ scheduler.current = {}
    /\ \A s \in Schedules \ aborted :
          \/ exports[s] = 0
          \/ exports[s] = 1 /\ s \in scheduler.dirty

LEMMA ExportInit == Init => ExportInv
<1> SUFFICES ASSUME Init PROVE ExportInv
  OBVIOUS
<1>1. scheduler.todo = {} /\ scheduler.dirty = {} /\ scheduler.current = {}
  BY DEF Init, Asleep
<1>2. \A s \in Schedules : exports[s] = 0
  BY DEF Init
<1> QED
  BY <1>1, <1>2 DEF ExportInv

(* A pass that ends puts the scheduler to sleep; what it had exported and  *)
(* not committed is aborted with what it had still to export.              *)
LEMMA ExportAsleep ==
  ASSUME ExportInv, scheduler' = Asleep, exports' = exports,
         aborted' = aborted \cup scheduler.todo \cup scheduler.dirty
  PROVE  ExportInv'
<1>1. scheduler'.todo = {} /\ scheduler'.dirty = {} /\ scheduler'.current = {}
  BY DEF Asleep
<1>2. \A s \in Schedules \ aborted' : exports'[s] = 0
  BY DEF ExportInv
<1> QED
  BY <1>1, <1>2 DEF ExportInv

(* The exports counted after a commit of the schedules S.                  *)
LEMMA ExportDueDate ==
  ASSUME NEW S, NewDueDate(S), NEW s \in Schedules \ aborted'
  PROVE  /\ s \in S => exports'[s] = 0
         /\ s \notin S => exports'[s] = exports[s] /\ s \notin aborted
  BY DEF NewDueDate

LEMMA ExportScheduler ==
  ASSUME TypeOK, ExportInv, SchedulerStep
  PROVE  ExportInv'
<1> scheduler \in Pass
  BY DEF TypeOK, Pass
<1>1. CASE WakeUp
  <2>1. /\ scheduler'.pc = "export" /\ scheduler'.dirty = scheduler.dirty
        /\ scheduler'.current = scheduler.current
        /\ scheduler.pc = "sleep" /\ UNCHANGED <<exports, aborted>>
    BY <1>1 DEF WakeUp, Pass, history
  <2> QED
    BY <2>1 DEF ExportInv
<1>2. CASE CommitPass
  <2>1. scheduler' = Asleep /\ NewDueDate(scheduler.dirty)
    BY <1>2 DEF CommitPass
  <2>2. scheduler'.todo = {} /\ scheduler'.dirty = {} /\ scheduler'.current = {}
    BY <2>1 DEF Asleep
  <2>3. \A s \in Schedules \ aborted' : exports'[s] = 0
    BY <2>1, ExportDueDate DEF ExportInv
  <2> QED
    BY <2>2, <2>3 DEF ExportInv
<1>3. CASE AbortPass
  BY <1>3, ExportAsleep DEF AbortPass, AbortTo, Asleep
<1>4. ASSUME NEW s \in Schedules, Deliver(s) PROVE ExportInv'
  <2>1. s \in scheduler.todo /\ s \notin scheduler.dirty
    <3>1. PICK r \in Runs : <<s, r>> \in scheduler.current
      BY <1>4 DEF Deliver, EndExport
    <3>2. <<s, r>>[1] \in scheduler.todo
      BY <3>1 DEF ExportInv
    <3> QED
      BY <3>2 DEF ExportInv
  <2>2. /\ scheduler'.todo = scheduler.todo \ {s}
        /\ scheduler'.dirty = scheduler.dirty \cup {s}
        /\ scheduler'.current = {} /\ scheduler'.pc # "sleep"
        /\ exports' = [exports EXCEPT ![s] = @ + 1] /\ aborted' = aborted
    BY <1>4 DEF Deliver, EndExport
  <2>3. \A x \in Schedules \ aborted' :
          \/ exports'[x] = 0
          \/ exports'[x] = 1 /\ x \in scheduler'.dirty
    BY <2>1, <2>2 DEF ExportInv, TypeOK
  <2> QED
    BY <2>1, <2>2, <2>3 DEF ExportInv
<1>5. ASSUME NEW s \in Schedules, NEW r \in Runs, Export(s, r) PROVE ExportInv'
  <2> DEFINE served == {<<s, r>>}
  <2>1. /\ s \in scheduler.todo /\ NewDueDate(scheduler.dirty)
        /\ scheduler' = [scheduler EXCEPT !.pc = "await", !.dirty = {},
                                          !.current = served]
    BY <1>5 DEF Export
  <2> HIDE DEF served
  <2>2. /\ scheduler'.todo = scheduler.todo /\ scheduler'.dirty = {}
        /\ scheduler'.current = served /\ scheduler'.pc = "await"
    BY <2>1 DEF Pass
  <2>3. \A x \in served : x[1] = s
    BY DEF served
  <2>4. \A x \in Schedules \ aborted' : exports'[x] = 0
    BY <2>1, ExportDueDate DEF ExportInv
  <2> QED
    BY <2>1, <2>2, <2>3, <2>4 DEF ExportInv
<1> QED
  BY <1>1, <1>2, <1>3, <1>4, <1>5 DEF SchedulerStep

LEMMA ExportNext == TypeOK /\ ExportInv /\ [Next]_vars => ExportInv'
<1> SUFFICES ASSUME TypeOK, ExportInv, [Next]_vars PROVE ExportInv'
  OBVIOUS
<1>1. ASSUME UNCHANGED <<scheduler, exports, aborted>> PROVE ExportInv'
  BY <1>1 DEF ExportInv
<1>2. ASSUME NEW s \in Schedules, CreateSchedule(s) \/ ComeDue(s)
      PROVE  ExportInv'
  <2>1. CASE ComeDue(s)
    BY <1>1, <2>1 DEF ComeDue, history
  <2>2. CASE CreateSchedule(s)
    BY <2>2, ExportDueDate DEF CreateSchedule, ExportInv
  <2> QED
    BY <1>2, <2>1, <2>2
<1>3. ASSUME NEW t \in Tenants, NEW s \in Schedules, DeleteSchedule(t, s)
      PROVE  ExportInv'
  BY <1>3, ExportDueDate DEF DeleteSchedule, ExportInv
<1>4. CASE Restart
  BY <1>4, ExportAsleep DEF Restart
<1>5. ASSUME NEW r \in Runs, PublishRun(r) \/ TaskStep(r) PROVE ExportInv'
  BY <1>1, <1>5 DEF PublishRun, TaskStep, RunCore, EndCore, RecordOutcome, Record,
     history
<1>6. ASSUME NEW t \in Tenants, NEW r \in Runs, GenerateReport(t, r)
      PROVE  ExportInv'
  BY <1>1, <1>6 DEF GenerateReport, history
<1>7. ASSUME NEW h \in Readers,
             \/ \E t \in Tenants : LoadList(h, t)
             \/ \E r \in Runs : LoadDownload(h, r)
             \/ CommitList(h) \/ RepairPdf(h)
      PROVE  ExportInv'
  BY <1>1, <1>7 DEF LoadList, LoadDownload, LoadDownloadAlways, CommitList,
     RepairPdf, history
<1>8. CASE UNCHANGED vars
  BY <1>1, <1>8 DEF vars, history
<1>9. ASSUME NEW r \in Runs, LoseOutcome(r) PROVE ExportInv'
  <2>1. exports' = exports
    BY <1>9 DEF LoseOutcome
  <2>2. CASE \E s \in Schedules : <<s, r>> \in scheduler.current
    BY <1>9, <2>1, <2>2, ExportAsleep DEF LoseOutcome
  <2>3. CASE ~ \E s \in Schedules : <<s, r>> \in scheduler.current
    BY <1>1, <1>9, <2>1, <2>3 DEF LoseOutcome
  <2> QED
    BY <2>2, <2>3
<1> QED
  BY <1>2, <1>3, <1>4, <1>5, <1>6, <1>7, <1>8, <1>9, ExportScheduler DEF Next

(* process_due_schedules mails a report once for each due date: a second   *)
(* time needs a pass that failed, or a process that stopped, between the   *)
(* mail and the commit of the new next_run_at.                             *)
THEOREM ScheduleExportedOnce == Spec => []ExportedOnce
<1>1. TypeOK /\ ExportInv => ExportedOnce
  BY DEF ExportInv, ExportedOnce, TypeOK
<1> QED
  BY <1>1, TypeInit, TypeNext, ExportInit, ExportNext, PTL DEF Spec
================================================================================
