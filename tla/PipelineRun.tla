----------------------------- MODULE PipelineRun -----------------------------
(***************************************************************************)
(* Pipeline runs over the production tenants (api/pipeline_runner.py): the *)
(* task started with the process, and the scheduler task that starts a run *)
(* every five minutes whether or not the first one is done.  Per tenant a  *)
(* run computes the metrics, lets CERBERUS open risks for the exploited    *)
(* CVEs (cerberus/pipeline.py) and lets the alert engine page and record   *)
(* the breached metrics (alerting/alert_engine.py).                        *)
(*                                                                         *)
(* Abstractions.  Of a metric only "breached" (Amber or Red) matters.  The *)
(* timeline, evidence and collector stages swallow their failures and read *)
(* nothing of the state below: a run passes through them without a step    *)
(* (the vault they append to is EvidenceVault).  Demo tenants get canned   *)
(* metrics and are left out; so are the cache of latest results, which no  *)
(* stage reads back, and the WebSocket broadcast.                          *)
(***************************************************************************)
EXTENDS Integers, FiniteSets, Sequences

CONSTANTS
    Tenants,        \* production tenants
    Metrics,        \* metrics of the dashboard
    CveMetric,      \* the one CERBERUS looks at, KRI-CVE-001
    Cves,           \* vulnerabilities
    Catalogs,       \* possible answers of the KEV feed: sequences of CVEs
    Runners,        \* tasks that call run_once
    Scheduled,      \* those that loop in run_scheduled
    MaxRuns         \* bound of the model: runs ever started

ASSUME RunnersAssumption == Scheduled \subseteq Runners /\ Runners # {}
ASSUME DataAssumption ==
    /\ Tenants # {} /\ CveMetric \in Metrics
    /\ Catalogs \subseteq Seq(Cves)
    /\ MaxRuns \in Nat

VARIABLES
    runner,     \* local state of each task
    runs,       \* run identifiers handed out
    risks,      \* risk_register, all entries "open"
    alerts,     \* rows of alerts
    paged,      \* history: notifications that were sent
    handled,    \* history: breaches the alert engine was called with
    failed,     \* history: (tenant, run) whose alert engine failed
    raced       \* history: tenants two CERBERUS passes worked on at a time

rows == <<risks, alerts>>
history == <<paged, handled, failed, raced>>
vars == <<runner, runs, rows, history>>

RunIds == 0 .. MaxRuns
NoTenant == CHOOSE t \in Tenants : TRUE

RunnerState ==
    [pc: {"waiting", "next", "cerberus", "check", "alert", "done", "dead"},
     run: Nat, todo: SUBSET Tenants, tenant: Tenants,
     breached: SUBSET Metrics,  \* of the tenant at hand
     kev: Seq(Cves),            \* catalogue entries still to look up
     opens: SUBSET Cves,        \* risks added to the CERBERUS session
     queue: SUBSET Metrics,     \* breaches the alert engine has yet to see
     drafts: SUBSET Metrics]    \* alerts added to its session

Waiting ==
    [pc |-> "waiting", run |-> 0, todo |-> {}, tenant |-> NoTenant,
     breached |-> {}, kev |-> <<>>, opens |-> {}, queue |-> {}, drafts |-> {}]

Init ==
    /\ runner = [r \in Runners |-> Waiting]
    /\ runs = 0
    /\ risks = {} /\ alerts = {}
    /\ paged = {} /\ handled = {} /\ failed = {} /\ raced = {}

At(r, pc) == runner[r].pc = pc

-----------------------------------------------------------------------------
(* run_once                                                                *)

(* The run gets its identifier and the list of production tenants.         *)
StartRun(r) ==
    /\ At(r, "waiting")
    /\ runs < MaxRuns
    /\ runs' = runs + 1
    /\ runner' = [runner EXCEPT
                    ![r] = [Waiting EXCEPT !.pc = "next", !.run = runs + 1,
                                           !.todo = Tenants]]
    /\ UNCHANGED <<rows, history>>

(* discover_production_tenant_ids is the one call of run_once that nothing *)
(* catches: the task ends with its exception.                              *)
DiscoveryFails(r) ==
    /\ At(r, "waiting")
    /\ runs < MaxRuns
    /\ runs' = runs + 1
    /\ runner' = [runner EXCEPT ![r].pc = "dead"]
    /\ UNCHANGED <<rows, history>>

(* run_pipeline_for_tenant_safe, in whatever order the tenants were        *)
(* listed: it yields metrics, or a failure without metrics, for which the  *)
(* alert engine has nothing to do.                                         *)
PipelineFails(r, t) ==
    /\ At(r, "next") /\ t \in runner[r].todo
    /\ runner' = [runner EXCEPT ![r].todo = @ \ {t}]
    /\ UNCHANGED <<runs, rows, history>>

PipelineOk(r, t, breached) ==
    /\ At(r, "next") /\ t \in runner[r].todo
    /\ runner' = [runner EXCEPT ![r].todo = @ \ {t}, ![r].tenant = t,
                                ![r].breached = breached, ![r].pc = "cerberus"]
    /\ UNCHANGED <<runs, rows, history>>

(* A fault: a run that is over leaves its task in an unknown state.        *)
EndRunUnknown(r) ==
    /\ At(r, "next") /\ runner[r].todo = {}
    /\ runner' = [runner EXCEPT ![r] = [Waiting EXCEPT !.pc = "finished"]]
    /\ UNCHANGED <<runs, rows, history>>

EndRun(r) ==
    /\ At(r, "next") /\ runner[r].todo = {}
    /\ runner' = [runner EXCEPT
                    ![r] = IF r \in Scheduled THEN Waiting
                           ELSE [Waiting EXCEPT !.pc = "done"]]
    /\ UNCHANGED <<runs, rows, history>>

-----------------------------------------------------------------------------
(* run_cerberus_pipeline                                                   *)

(* After CERBERUS, however it ended, the alert engine sees every breach.   *)
Alerting(state) ==
    [state EXCEPT !.pc = "alert", !.queue = state.breached, !.kev = <<>>,
                  !.opens = {}, !.drafts = {}]

HandOver(r) ==
    /\ runner' = [runner EXCEPT ![r] = Alerting(@)]
    /\ handled' = handled \cup
         {[tenant |-> runner[r].tenant, run |-> runner[r].run, metric |-> m] :
            m \in runner[r].breached}

SkipCerberus(r) ==
    /\ At(r, "cerberus") /\ CveMetric \notin runner[r].breached
    /\ HandOver(r)
    /\ UNCHANGED <<runs, rows, paged, failed, raced>>

(* fetch_cisa_kev_catalog answers, from the feed or its cache.             *)
FetchCatalog(r, kev) ==
    /\ At(r, "cerberus") /\ CveMetric \in runner[r].breached
    /\ runner' = [runner EXCEPT ![r].pc = "check", ![r].kev = kev]
    /\ raced' = IF \E q \in Runners :
                      At(q, "check") /\ runner[q].tenant = runner[r].tenant
                  THEN raced \cup {runner[r].tenant} ELSE raced
    /\ UNCHANGED <<runs, rows, paged, handled, failed>>

OpenRisks(t, c) == {k \in risks : k.tenant = t /\ k.cve = c}

(* A fault: a risk is opened without looking for an open one.              *)
CheckCveBlindly(r) ==
    /\ At(r, "check") /\ runner[r].kev # <<>>
    /\ runner' = [runner EXCEPT
                    ![r].kev = Tail(@),
                    ![r].opens = @ \cup {Head(runner[r].kev)}]
    /\ UNCHANGED <<runs, rows, history>>

(* scalar_one_or_none: no row opens a risk, one row leaves it at that.     *)
CheckCve(r) ==
    LET c == Head(runner[r].kev)
        found == OpenRisks(runner[r].tenant, c)
    IN
    /\ At(r, "check") /\ runner[r].kev # <<>>
    /\ Cardinality(found) <= 1
    /\ runner' = [runner EXCEPT
                    ![r].kev = Tail(@),
                    ![r].opens = IF found = {} THEN @ \cup {c} ELSE @]
    /\ UNCHANGED <<runs, rows, history>>

(* A fault: a failing pass is tried again, as often as it fails.           *)
CerberusRetries(r) ==
    /\ At(r, "cerberus") \/ At(r, "check")
    /\ runner' = [runner EXCEPT ![r].pc = "cerberus", ![r].kev = <<>>,
                                ![r].opens = {}]
    /\ UNCHANGED <<runs, rows, history>>

(* Two rows raise MultipleResultsFound, and feed or database may fail: the *)
(* pass is abandoned and nothing it added to the session is committed.     *)
CerberusFails(r) ==
    /\ At(r, "cerberus") \/ At(r, "check")
    /\ HandOver(r)
    /\ UNCHANGED <<runs, rows, paged, failed, raced>>

CommitRisks(r) ==
    /\ At(r, "check") /\ runner[r].kev = <<>>
    /\ risks' = risks \cup
         {[tenant |-> runner[r].tenant, cve |-> c, run |-> runner[r].run] :
            c \in runner[r].opens}
    /\ HandOver(r)
    /\ UNCHANGED <<runs, alerts, paged, failed, raced>>

-----------------------------------------------------------------------------
(* AlertEngine.process_metrics                                             *)

(* A fault: an alert of any earlier run suppresses the new one.            *)
EverAlerted(r, m) == \E a \in alerts : a.metric = m

(* "Avoid duplicate alerts for same metric in same run": the query names   *)
(* the run and the metric, not the tenant.                                 *)
AlreadyAlerted(r, m) ==
    \E a \in alerts : a.run = runner[r].run /\ a.metric = m

SkipAlert(r, m) ==
    /\ At(r, "alert") /\ m \in runner[r].queue
    /\ AlreadyAlerted(r, m)
    /\ runner' = [runner EXCEPT ![r].queue = @ \ {m}]
    /\ UNCHANGED <<runs, rows, history>>

(* The notifiers page, then the row is added to the session.               *)
Page(r, m) ==
    /\ At(r, "alert") /\ m \in runner[r].queue
    /\ ~ AlreadyAlerted(r, m)
    /\ paged' = paged \cup
         {[tenant |-> runner[r].tenant, run |-> runner[r].run, metric |-> m]}
    /\ runner' = [runner EXCEPT ![r].queue = @ \ {m}, ![r].drafts = @ \cup {m}]
    /\ UNCHANGED <<runs, rows, handled, failed, raced>>

NextTenant(r) ==
    runner' = [runner EXCEPT ![r].pc = "next", ![r].queue = {}, ![r].drafts = {},
                             ![r].breached = {}]

(* A fault: the session is closed without the commit.                      *)
CommitNoAlerts(r) ==
    /\ At(r, "alert") /\ runner[r].queue = {}
    /\ NextTenant(r)
    /\ UNCHANGED <<runs, rows, history>>

(* One commit for all alerts of the tenant.                                *)
CommitAlerts(r) ==
    /\ At(r, "alert") /\ runner[r].queue = {}
    /\ alerts' = alerts \cup
         {[tenant |-> runner[r].tenant, run |-> runner[r].run, metric |-> m] :
            m \in runner[r].drafts}
    /\ NextTenant(r)
    /\ UNCHANGED <<runs, risks, history>>

(* "alert_processing_failed" is logged; the session is rolled back.        *)
AlertingFails(r) ==
    /\ At(r, "alert")
    /\ failed' = failed \cup
         {[tenant |-> runner[r].tenant, run |-> runner[r].run]}
    /\ NextTenant(r)
    /\ UNCHANGED <<runs, rows, paged, handled, raced>>

-----------------------------------------------------------------------------
(* The process restarts: its tasks start anew, the tables stay.            *)
Restart ==
    /\ runner' = [r \in Runners |-> Waiting]
    /\ failed' = failed \cup
         {[tenant |-> runner[r].tenant, run |-> runner[r].run] :
            r \in {q \in Runners : At(q, "alert")}}
    /\ UNCHANGED <<runs, risks, alerts, paged, handled, raced>>

Cerberus(r) ==
    \/ SkipCerberus(r) \/ \E kev \in Catalogs : FetchCatalog(r, kev)
    \/ CheckCve(r) \/ CerberusFails(r) \/ CommitRisks(r)

ProcessMetrics(r) ==
    \/ \E m \in Metrics : SkipAlert(r, m) \/ Page(r, m)
    \/ CommitAlerts(r) \/ AlertingFails(r)

(* The steps of a run once it has started.                                 *)
Advance(r) ==
    \/ \E t \in Tenants :
          PipelineFails(r, t) \/ \E b \in SUBSET Metrics : PipelineOk(r, t, b)
    \/ Cerberus(r) \/ ProcessMetrics(r) \/ EndRun(r)

Next ==
    \/ \E r \in Runners : StartRun(r) \/ DiscoveryFails(r) \/ Advance(r)
    \/ Restart

(* The event loop resumes every task whose call has returned, and every    *)
(* outbound call of a run has a timeout: a run keeps moving.               *)
Fairness == \A r \in Runners : WF_vars(Advance(r))

Spec == Init /\ [][Next]_vars /\ Fairness

-----------------------------------------------------------------------------
(* Properties                                                              *)

Breach == [tenant: Tenants, run: Nat, metric: Metrics]

(* The types of the tables, the tasks and the histories.                   *)
TypeOK ==
    /\ runner \in [Runners -> RunnerState]
    /\ runs \in RunIds
    /\ risks \subseteq [tenant: Tenants, cve: Cves, run: Nat]
    /\ alerts \cup paged \cup handled \subseteq Breach
    /\ failed \subseteq [tenant: Tenants, run: Nat]
    /\ raced \subseteq Tenants

(* Two open risks for one CVE of one tenant, on which CERBERUS raises from *)
(* then on, come only from two CERBERUS passes that overlapped in that     *)
(* tenant; restarts, failed passes and other tenants do not make them.     *)
RiskOpenedOnce ==
    \A t \in Tenants \ raced : \A c \in Cves : Cardinality(OpenRisks(t, c)) <= 1

InEngine(b) ==
    \E r \in Runners :
        /\ At(r, "alert")
        /\ runner[r].tenant = b.tenant /\ runner[r].run = b.run

EngineFailed(b) == [tenant |-> b.tenant, run |-> b.run] \in failed

(* A breach the alert engine was called with has its alert row, unless the *)
(* engine is at work or failed for that tenant and run, or another tenant  *)
(* of the same run was alerted of the same metric.                         *)
MissedAlertExplained ==
    \A b \in handled :
        \/ b \in alerts \/ InEngine(b) \/ EngineFailed(b)
        \/ \E a \in alerts :
              a.run = b.run /\ a.metric = b.metric /\ a.tenant # b.tenant

(* Whoever was paged finds the alert in the history of the tenant that     *)
(* breached, unless the engine is still at work or failed after paging;    *)
(* and there is no alert nobody was paged for.                             *)
PagedIsRecorded ==
    /\ \A b \in paged : b \in alerts \/ InEngine(b) \/ EngineFailed(b)
    /\ alerts \subseteq paged

(* A run that has started comes to an end, whatever fails in it: no stage  *)
(* of one tenant holds up the tenants after it for ever.                   *)
RunEnds == \A r \in Runners : At(r, "next") ~> runner[r].pc \in {"waiting", "done"}

(* "Evaluate run metrics and trigger alerts on SLA threshold violations    *)
(* (Amber/Red)" (docstring of process_metrics): a breach it was called     *)
(* with, and did not fail on, has its alert.                               *)
EveryBreachAlerted ==
    \A b \in handled : b \in alerts \/ InEngine(b) \/ EngineFailed(b)
=============================================================================
