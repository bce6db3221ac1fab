------------------------------ MODULE LiveResults ------------------------------
(***************************************************************************)
(* What one organisation sees: latest_results_by_tenant in the memory of   *)
(* the server, and the sockets of /ws/live.  Scheduled runs, manual runs   *)
(* and uploads read the database, compute for a while and publish; only a  *)
(* scheduled run sends what is shown to the sockets that are open then.    *)
(*                                                                         *)
(* Boot is the run at the start of the server, Tick the one every five     *)
(* minutes.  Other code changes the SIEM of the organisation meanwhile.    *)
(***************************************************************************)
EXTENDS Integers, FiniteSets, FiniteSetsExt

CONSTANTS
    Boot, Tick,       \* the two scheduled jobs
    Requests,         \* concurrent uploads and manual runs
    Sockets,
    SiemTypes,        \* SIEMs with credentials
    MaxUploads, MaxSources, MaxFaults   \* bounds of the model

VARIABLES
    source,      \* normalized siem_type: "none", "CSV" or a SIEM
    uploads,     \* MetricHistoryRecord: committed uploads, by time stamp
    shown,       \* latest_results_by_tenant
    byRun,       \* history: a scheduled run has published what is shown
    job,         \* local state of each run and upload
    socket,      \* websocket_clients, and what was sent to each
    stamped, switched, faults        \* counters of the bounds

bounds == <<stamped, switched, faults>>
liveVars == <<source, uploads, shown, byRun, job, socket, bounds>>

Sources == SiemTypes \cup {"none", "CSV"}
Runs == {Boot, Tick}
Jobs == Runs \cup Requests

(* A payload tells where it comes from and the upload it is computed from. *)
Payloads == [from: SiemTypes \cup {"CSV", "error"}, upload: 0..MaxUploads]
Error == [from |-> "error", upload |-> 0]
Csv(n) == [from |-> "CSV", upload |-> n]
Siem(s) == [from |-> s, upload |-> 0]

Waiting == [phase |-> "idle", loaded |-> "none", stamp |-> 0,
            result |-> Error, to |-> {}]
At(phase) == [Waiting EXCEPT !.phase = phase]
Closed == [open |-> FALSE, seen |-> Error]

(* lifespan: every organisation starts with an error state, and the first  *)
(* run with it.                                                            *)
Started(j) == IF j = Boot THEN At("discover") ELSE Waiting

LiveInit ==
    /\ source = "none" /\ uploads = {}
    /\ shown = Error /\ byRun = FALSE
    /\ job = [j \in Jobs |-> Started(j)]
    /\ socket = [s \in Sockets |-> Closed]
    /\ stamped = 0 /\ switched = 0 /\ faults = 0

Step(j, new) == job' = [job EXCEPT ![j] = new]

-----------------------------------------------------------------------------
(* Scheduled and manual runs                                               *)

(* run_scheduled wakes up.                                                 *)
WakeUp ==
    /\ job[Tick].phase = "idle" /\ Step(Tick, At("discover"))
    /\ UNCHANGED <<source, uploads, shown, byRun, socket, bounds>>

(* discover_production_tenant_ids finds the organisation, or raises        *)
(* outside every try, and the task of the job is over.                     *)
Discover(j) ==
    /\ job[j].phase = "discover"
    /\ \/ Step(j, At("settings")) /\ UNCHANGED faults
       \/ Step(j, At("dead")) /\ faults < MaxFaults /\ faults' = faults + 1
    /\ UNCHANGED <<source, uploads, shown, byRun, socket, stamped, switched>>

(* POST /trigger-pipeline                                                  *)
Trigger(r) ==
    /\ job[r].phase = "idle" /\ Step(r, At("settings"))
    /\ UNCHANGED <<source, uploads, shown, byRun, socket, bounds>>

(* load_integration_settings, in a session of its own; without a SIEM the  *)
(* run is over.                                                            *)
ReadSettings(j) ==
    /\ job[j].phase = "settings"
    /\ Step(j, CASE source = "none" -> At("publish")
                 [] source = "CSV"  -> At("rows")
                 [] OTHER -> [At("query") EXCEPT !.loaded = source])
    /\ UNCHANGED <<source, uploads, shown, byRun, socket, bounds>>

(* The newest row of each metric; an error if there is none.               *)
NewestRows == IF uploads = {} THEN Error ELSE Csv(Max(uploads))

(* A fault: the rows come in the order they were written.                  *)
ReadOldestRows(j) ==
    /\ job[j].phase = "rows"
    /\ Step(j, [At("publish") EXCEPT
                  !.result = IF uploads = {} THEN Error ELSE Csv(Min(uploads))])
    /\ UNCHANGED <<source, uploads, shown, byRun, socket, bounds>>

(* _run_csv_tenant_pipeline                                                *)
ReadRows(j) ==
    /\ job[j].phase = "rows"
    /\ Step(j, [At("publish") EXCEPT !.result = NewestRows])
    /\ UNCHANGED <<source, uploads, shown, byRun, socket, bounds>>

(* run_pipeline_core asks the SIEM that was loaded; whatever fails becomes *)
(* an error state, which is published like a result.                       *)
QuerySiem(j) ==
    /\ job[j].phase = "query"
    /\ \/ /\ Step(j, [At("publish") EXCEPT !.result = Siem(job[j].loaded)])
          /\ UNCHANGED faults
       \/ /\ faults < MaxFaults /\ faults' = faults + 1
          /\ Step(j, At("publish"))
    /\ UNCHANGED <<source, uploads, shown, byRun, socket, stamped, switched>>

(* by_tenant[tenant_id] = results.  A scheduled run goes on to its alerts. *)
Publish(j) ==
    /\ job[j].phase = "publish"
    /\ shown' = job[j].result
    /\ byRun' = (j \in Runs)
    /\ Step(j, IF j \in Runs THEN At("alerted") ELSE Waiting)
    /\ UNCHANGED <<source, uploads, socket, bounds>>

Open == {s \in Sockets : socket[s].open}

(* _broadcast_all copies the clients                                       *)
StartBroadcast(j) ==
    /\ job[j].phase = "alerted"
    /\ Step(j, [At("broadcast") EXCEPT !.to = Open])
    /\ UNCHANGED <<source, uploads, shown, byRun, socket, bounds>>

(* and sends to one after the other what is shown by then; a socket that   *)
(* has gone is dropped.                                                    *)
Send(j, s) ==
    /\ job[j].phase = "broadcast" /\ s \in job[j].to
    /\ Step(j, [job[j] EXCEPT !.to = @ \ {s}])
    /\ socket' = IF socket[s].open THEN [socket EXCEPT ![s].seen = shown] ELSE socket
    /\ UNCHANGED <<source, uploads, shown, byRun, bounds>>

(* The first run is not repeated.                                          *)
EndRun(j) ==
    /\ job[j].phase = "broadcast" /\ job[j].to = {}
    /\ Step(j, IF j = Boot THEN At("dead") ELSE Waiting)
    /\ UNCHANGED <<source, uploads, shown, byRun, socket, bounds>>

-----------------------------------------------------------------------------
(* Uploads                                                                 *)

(* upload_logs parses the file and stamps its rows.                        *)
StartUpload(r) ==
    /\ job[r].phase = "idle" /\ stamped < MaxUploads
    /\ stamped' = stamped + 1
    /\ Step(r, [At("rows written") EXCEPT !.stamp = stamped + 1])
    /\ UNCHANGED <<source, uploads, shown, byRun, socket, switched, faults>>

(* The first commit: the rows of the history.                              *)
CommitRows(r) ==
    /\ job[r].phase = "rows written"
    /\ uploads' = uploads \cup {job[r].stamp}
    /\ Step(r, [job[r] EXCEPT !.phase = "select"])
    /\ UNCHANGED <<source, shown, byRun, socket, bounds>>

SelectSource(r) ==
    /\ job[r].phase = "select"
    /\ Step(r, [job[r] EXCEPT !.phase = "store", !.loaded = source])
    /\ UNCHANGED <<source, uploads, shown, byRun, socket, bounds>>

(* The second commit writes siem_type if it was another one when loaded.   *)
StoreSource(r) ==
    /\ job[r].phase = "store"
    /\ source' = IF job[r].loaded # "CSV" THEN "CSV" ELSE source
    /\ Step(r, [At("publish") EXCEPT !.result = Csv(job[r].stamp)])
    /\ UNCHANGED <<uploads, shown, byRun, socket, bounds>>

-----------------------------------------------------------------------------
(* The rest of the system                                                  *)

(* save_connector_config and its like commit another siem_type.            *)
ChangeSource(s) ==
    /\ s # source /\ switched < MaxSources
    /\ switched' = switched + 1 /\ source' = s
    /\ UNCHANGED <<uploads, shown, byRun, job, socket, stamped, faults>>

(* A fault: the socket waits for the next broadcast.                       *)
ConnectSocketOnly(s) ==
    /\ ~ socket[s].open
    /\ socket' = [socket EXCEPT ![s].open = TRUE]
    /\ UNCHANGED <<source, uploads, shown, byRun, job, bounds>>

(* websocket_live registers the socket, then sends what is shown, with no  *)
(* other step in between.                                                  *)
ConnectSocket(s) ==
    /\ ~ socket[s].open
    /\ socket' = [socket EXCEPT ![s] = [open |-> TRUE, seen |-> shown]]
    /\ UNCHANGED <<source, uploads, shown, byRun, job, bounds>>

LeaveSocket(s) ==
    /\ socket[s].open
    /\ socket' = [socket EXCEPT ![s] = Closed]
    /\ UNCHANGED <<source, uploads, shown, byRun, job, bounds>>

(* An upload or manual run fails or its client goes away.                  *)
FailRequest(r) ==
    /\ job[r].phase \notin {"idle", "publish"} /\ faults < MaxFaults
    /\ faults' = faults + 1 /\ Step(r, Waiting)
    /\ UNCHANGED <<source, uploads, shown, byRun, socket, stamped, switched>>

(* The server starts again, with nothing in memory.                        *)
RestartServer ==
    /\ faults < MaxFaults /\ faults' = faults + 1
    /\ shown' = Error /\ byRun' = FALSE
    /\ job' = [j \in Jobs |-> Started(j)]
    /\ socket' = [s \in Sockets |-> Closed]
    /\ UNCHANGED <<source, uploads, stamped, switched>>

RunStep(j) ==
    \/ Discover(j) \/ ReadSettings(j) \/ ReadRows(j) \/ QuerySiem(j)
    \/ Publish(j) \/ StartBroadcast(j) \/ EndRun(j)
    \/ \E s \in Sockets : Send(j, s)

UploadStep(r) == CommitRows(r) \/ SelectSource(r) \/ StoreSource(r)

LiveNext ==
    \/ WakeUp \/ RestartServer
    \/ \E j \in Jobs : RunStep(j)
    \/ \E r \in Requests :
          Trigger(r) \/ StartUpload(r) \/ UploadStep(r) \/ FailRequest(r)
    \/ \E s \in Sockets : ConnectSocket(s) \/ LeaveSocket(s)
    \/ \E s \in Sources : ChangeSource(s)

-----------------------------------------------------------------------------
(* Properties                                                              *)

(* The types of the tables, the payloads and the jobs.                     *)
LiveTypeOK ==
    /\ source \in Sources /\ uploads \subseteq 1..MaxUploads
    /\ shown \in Payloads /\ byRun \in BOOLEAN
    /\ job \in [Jobs ->
         [phase: {"idle", "discover", "settings", "rows", "query", "publish",
                  "alerted", "broadcast", "dead", "rows written", "select", "store"},
          loaded: Sources, stamp: 0..MaxUploads, result: Payloads,
          to: SUBSET Sockets]]
    /\ socket \in [Sockets -> [open: BOOLEAN, seen: Payloads]]

(* What the database says now.                                             *)
Expected ==
    CASE source = "none" -> Error
      [] source = "CSV" -> NewestRows
      [] OTHER -> Siem(source)

(* When no scheduled run is at work, every open socket has got what the    *)
(* last one published, however sockets came and went during its broadcast, *)
(* unless an upload or a manual run, which send nothing, published later.  *)
FeedCurrent ==
    byRun /\ (\A j \in Runs : job[j].phase \notin {"alerted", "broadcast"})
        => \A s \in Open : socket[s].seen = shown

(* Slow, failed and overlapping runs publish what is no longer true, and   *)
(* uploads reach no socket; but once nothing changes any more, what is     *)
(* shown and what every socket has got become what the database says, and  *)
(* stay so, unless discovering the organisations has ended the scheduler.  *)
FeedConverges ==
    <>[](\/ job[Tick].phase = "dead"
         \/ shown = Expected /\ \A s \in Open : socket[s].seen = shown)
=============================================================================
