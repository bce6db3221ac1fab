--------------------------- MODULE PipelineRunProofs ---------------------------
(***************************************************************************)
(* Theorems about PipelineRun, for any set of tenants, metrics, CVEs and   *)
(* tasks and any answers of the KEV feed.                                  *)
(***************************************************************************)
EXTENDS PipelineRun, FiniteSetTheorems, TLAPS

(* What a task has added to its CERBERUS session is no open risk yet, and  *)
(* where passes never overlapped at most one is in progress.               *)
PassesAlone ==
    /\ \A r \in Runners : ~ At(r, "check") => runner[r].opens = {}
    /\ \A t \in Tenants \ raced : \A q, r \in Runners :
          /\ At(q, "check") /\ runner[q].tenant = t
          /\ At(r, "check") /\ runner[r].tenant = t
          => q = r
    /\ \A r \in Runners : \A k \in risks :
          At(r, "check") /\ runner[r].tenant \notin raced
              /\ k.tenant = runner[r].tenant
          => k.cve \notin runner[r].opens

OneOpenRisk ==
    \A k, l \in risks :
        k.tenant = l.tenant /\ k.cve = l.cve /\ k.tenant \notin raced => k = l

(* Strengthening of RiskOpenedOnce: the inductive invariant.               *)
RiskInv == TypeOK /\ PassesAlone /\ OneOpenRisk

(* The alert engine of a task is still to see, or has drafted, breach b.   *)
Pending(b) ==
    \E r \in Runners :
        /\ At(r, "alert")
        /\ runner[r].tenant = b.tenant /\ runner[r].run = b.run
        /\ b.metric \in runner[r].queue \cup runner[r].drafts

Silenced(b) ==
    \E a \in alerts :
        a.run = b.run /\ a.metric = b.metric /\ a.tenant # b.tenant

(* Strengthening of MissedAlertExplained.                                  *)
AlertInv ==
    \A b \in handled :
        b \in alerts \/ Pending(b) \/ EngineFailed(b) \/ Silenced(b)

Drafted(b) ==
    \E r \in Runners :
        /\ At(r, "alert")
        /\ runner[r].tenant = b.tenant /\ runner[r].run = b.run
        /\ b.metric \in runner[r].drafts

(* Strengthening of PagedIsRecorded.                                       *)
PagedInv ==
    /\ \A b \in paged : b \in alerts \/ Drafted(b) \/ EngineFailed(b)
    /\ alerts \subseteq paged
    /\ \A r \in Runners : \A m \in runner[r].drafts :
          At(r, "alert") =>
            [tenant |-> runner[r].tenant, run |-> runner[r].run, metric |-> m]
                \in paged

-----------------------------------------------------------------------------
(* Type correctness                                                        *)

LEMMA NoTenantIsTenant == NoTenant \in Tenants
  BY DataAssumption DEF NoTenant

LEMMA WaitingIsState == Waiting \in RunnerState
  BY NoTenantIsTenant DEF Waiting, RunnerState

(* A task that goes on to the alert engine is well typed.                  *)
LEMMA AlertingIsState ==
  ASSUME NEW s \in RunnerState
  PROVE  Alerting(s) \in RunnerState
<1>1. <<>> \in Seq(Cves) /\ s.breached \subseteq Metrics
  BY DEF RunnerState
<1> QED
  BY <1>1 DEF Alerting, RunnerState

LEMMA TypeInit == Init => TypeOK
  BY WaitingIsState, DataAssumption DEF Init, TypeOK, RunIds, Breach

LEMMA HandOverType ==
  ASSUME TypeOK, NEW r \in Runners, HandOver(r)
  PROVE  /\ runner' \in [Runners -> RunnerState]
         /\ handled' \subseteq Breach
<1>1. runner[r] \in RunnerState
  BY DEF TypeOK
<1>2. Alerting(runner[r]) \in RunnerState
  BY <1>1, AlertingIsState
<1>3. /\ runner[r].tenant \in Tenants
      /\ runner[r].run \in Nat
      /\ runner[r].breached \subseteq Metrics
  BY <1>1 DEF RunnerState
<1> QED
  BY <1>2, <1>3 DEF HandOver, TypeOK, Breach

LEMMA NextTenantType ==
  ASSUME TypeOK, NEW r \in Runners, NextTenant(r)
  PROVE  runner' \in [Runners -> RunnerState]
<1>1. runner[r] \in RunnerState
  BY DEF TypeOK
<1> QED
  BY <1>1 DEF NextTenant, TypeOK, RunnerState

LEMMA TypeNext == TypeOK /\ [Next]_vars => TypeOK'
<1> SUFFICES ASSUME TypeOK, [Next]_vars PROVE TypeOK'
  OBVIOUS
<1> USE DEF TypeOK
<1>1. ASSUME NEW r \in Runners, StartRun(r) PROVE TypeOK'
  <2>1. runs' \in Nat /\ runs' \in RunIds
    BY <1>1, DataAssumption DEF StartRun, RunIds
  <2>2. [Waiting EXCEPT !.pc = "next", !.run = runs + 1, !.todo = Tenants]
          \in RunnerState
    BY <1>1, <2>1, WaitingIsState DEF StartRun, RunnerState
  <2> QED
    BY <1>1, <2>1, <2>2 DEF StartRun, rows, history
<1>2. ASSUME NEW r \in Runners, DiscoveryFails(r) PROVE TypeOK'
  <2>1. runs' \in RunIds
    BY <1>2, DataAssumption DEF DiscoveryFails, RunIds
  <2>2. runner' \in [Runners -> RunnerState]
    <3> DEFINE s == [runner[r] EXCEPT !.pc = "dead"]
    <3>1. s \in RunnerState
      BY DEF RunnerState
    <3> QED
      BY <1>2, <3>1 DEF DiscoveryFails
  <2> QED
    BY <1>2, <2>1, <2>2 DEF DiscoveryFails, rows, history
<1>3. ASSUME NEW r \in Runners, NEW t \in Tenants, PipelineFails(r, t)
      PROVE  TypeOK'
  <2>1. runner' \in [Runners -> RunnerState]
    <3> DEFINE s == [runner[r] EXCEPT !.todo = @ \ {t}]
    <3>1. s \in RunnerState
      BY DEF RunnerState
    <3> QED
      BY <1>3, <3>1 DEF PipelineFails
  <2> QED
    BY <1>3, <2>1 DEF PipelineFails, rows, history
<1>4. ASSUME NEW r \in Runners, NEW t \in Tenants, NEW b \in SUBSET Metrics,
             PipelineOk(r, t, b)
      PROVE  TypeOK'
  <2> DEFINE s == [runner[r] EXCEPT !.todo = @ \ {t}, !.tenant = t,
                                   !.breached = b, !.pc = "cerberus"]
  <2>0. s \in RunnerState
    BY DEF RunnerState
  <2>1. runner' \in [Runners -> RunnerState]
    BY <1>4, <2>0 DEF PipelineOk
  <2> QED
    BY <1>4, <2>1 DEF PipelineOk, rows, history
<1>5. ASSUME NEW r \in Runners, EndRun(r) PROVE TypeOK'
  <2>1. [Waiting EXCEPT !.pc = "done"] \in RunnerState
    BY WaitingIsState DEF RunnerState
  <2>2. runner' \in [Runners -> RunnerState]
    BY <1>5, <2>1, WaitingIsState DEF EndRun
  <2> QED
    BY <1>5, <2>2 DEF EndRun, rows, history
<1>6. ASSUME NEW r \in Runners, SkipCerberus(r) \/ CerberusFails(r) PROVE TypeOK'
  <2>1. HandOver(r)
    BY <1>6 DEF SkipCerberus, CerberusFails
  <2> QED
    BY <1>6, <2>1, HandOverType DEF SkipCerberus, CerberusFails, rows
<1>7. ASSUME NEW r \in Runners, NEW kev \in Catalogs, FetchCatalog(r, kev)
      PROVE  TypeOK'
  <2>1. kev \in Seq(Cves)
    BY DataAssumption
  <2>2. runner' \in [Runners -> RunnerState]
    <3> DEFINE s == [runner[r] EXCEPT !.pc = "check", !.kev = kev]
    <3>1. s \in RunnerState
      BY <2>1 DEF RunnerState
    <3>2. runner' = [runner EXCEPT ![r] = s]
      BY <1>7 DEF FetchCatalog
    <3> QED
      BY <3>1, <3>2
  <2>3. runner[r].tenant \in Tenants
    BY DEF RunnerState
  <2>4. raced' \subseteq Tenants
    BY <1>7, <2>3 DEF FetchCatalog
  <2> QED
    BY <1>7, <2>2, <2>4 DEF FetchCatalog, rows
<1>8. ASSUME NEW r \in Runners, CheckCve(r) PROVE TypeOK'
  <2>1. runner[r].kev \in Seq(Cves) /\ runner[r].kev # <<>>
    BY <1>8 DEF CheckCve, RunnerState
  <2>2. Head(runner[r].kev) \in Cves /\ Tail(runner[r].kev) \in Seq(Cves)
    BY <2>1
  <2>3. runner' \in [Runners -> RunnerState]
    <3> DEFINE found == OpenRisks(runner[r].tenant, Head(runner[r].kev))
               s == [runner[r] EXCEPT
                       !.kev = Tail(@),
                       !.opens = IF found = {}
                                   THEN @ \cup {Head(runner[r].kev)} ELSE @]
    <3> HIDE DEF found
    <3>1. s \in RunnerState
      BY <2>2 DEF RunnerState
    <3> QED
      BY <1>8, <3>1 DEF CheckCve, found
  <2> QED
    BY <1>8, <2>3 DEF CheckCve, rows, history
<1>9. ASSUME NEW r \in Runners, CommitRisks(r) PROVE TypeOK'
  <2>1. /\ runner[r].tenant \in Tenants
        /\ runner[r].run \in Nat
        /\ runner[r].opens \subseteq Cves
    BY DEF RunnerState
  <2>2. HandOver(r)
    BY <1>9 DEF CommitRisks
  <2>3. risks' \subseteq [tenant: Tenants, cve: Cves, run: Nat]
    BY <1>9, <2>1 DEF CommitRisks
  <2> QED
    BY <1>9, <2>2, <2>3, HandOverType DEF CommitRisks
<1>10. ASSUME NEW r \in Runners, NEW m \in Metrics, SkipAlert(r, m)
       PROVE  TypeOK'
  <2>1. runner' \in [Runners -> RunnerState]
    <3> DEFINE s == [runner[r] EXCEPT !.queue = @ \ {m}]
    <3>1. s \in RunnerState
      BY DEF RunnerState
    <3> QED
      BY <1>10, <3>1 DEF SkipAlert
  <2> QED
    BY <1>10, <2>1 DEF SkipAlert, rows, history
<1>11. ASSUME NEW r \in Runners, NEW m \in Metrics, Page(r, m) PROVE TypeOK'
  <2>1. runner' \in [Runners -> RunnerState]
    <3> DEFINE s == [runner[r] EXCEPT !.queue = @ \ {m},
                                     !.drafts = @ \cup {m}]
    <3>1. s \in RunnerState
      BY DEF RunnerState
    <3> QED
      BY <1>11, <3>1 DEF Page
  <2>2. runner[r].tenant \in Tenants /\ runner[r].run \in Nat
    BY DEF RunnerState
  <2>3. paged' \subseteq Breach
    BY <1>11, <2>2 DEF Page, Breach
  <2> QED
    BY <1>11, <2>1, <2>3 DEF Page, rows
<1>12. ASSUME NEW r \in Runners, CommitAlerts(r) PROVE TypeOK'
  <2>1. runner' \in [Runners -> RunnerState]
    BY <1>12, NextTenantType DEF CommitAlerts
  <2>2. /\ runner[r].tenant \in Tenants
        /\ runner[r].run \in Nat
        /\ runner[r].drafts \subseteq Metrics
    BY DEF RunnerState
  <2>3. alerts' \subseteq Breach
    BY <1>12, <2>2 DEF CommitAlerts, Breach
  <2> QED
    BY <1>12, <2>1, <2>3 DEF CommitAlerts, history
<1>13. ASSUME NEW r \in Runners, AlertingFails(r) PROVE TypeOK'
  <2>1. runner' \in [Runners -> RunnerState]
    BY <1>13, NextTenantType DEF AlertingFails
  <2>2. runner[r].tenant \in Tenants /\ runner[r].run \in Nat
    BY DEF RunnerState
  <2> QED
    BY <1>13, <2>1, <2>2 DEF AlertingFails, rows
<1>14. CASE Restart
  <2>1. \A r \in Runners : runner[r].tenant \in Tenants /\ runner[r].run \in Nat
    BY DEF RunnerState
  <2>2. failed' \subseteq [tenant: Tenants, run: Nat]
    BY <1>14, <2>1 DEF Restart
  <2> QED
    BY <1>14, <2>2, WaitingIsState DEF Restart
<1>15. CASE UNCHANGED vars
  BY <1>15 DEF vars, rows, history
<1> QED
  BY <1>1, <1>2, <1>3, <1>4, <1>5, <1>6, <1>7, <1>8, <1>9, <1>10, <1>11, <1>12,
     <1>13, <1>14, <1>15
     DEF Next, Advance, Cerberus, ProcessMetrics

(* Type correctness: no sequence of runs, failures and restarts leaves the *)
(* types of tables, tasks and histories (PipelineRunner, run_cerberus_     *)
(* pipeline, AlertEngine.process_metrics).                                 *)
THEOREM TypeCorrect == Spec => []TypeOK
  BY TypeInit, TypeNext, PTL DEF Spec

-----------------------------------------------------------------------------
(* One open risk per vulnerability                                         *)

LEMMA RiskInit == Init => PassesAlone /\ OneOpenRisk
  BY DEF Init, PassesAlone, OneOpenRisk, Waiting, At

(* A step that leaves the risks alone, and in which no task enters a       *)
(* CERBERUS pass or adds to its session.                                   *)
LEMMA RiskQuiet ==
  ASSUME PassesAlone, OneOpenRisk,
         risks' = risks, raced' = raced,
         \A q \in Runners :
            \/ runner'[q].pc # "check" /\ runner'[q].opens = {}
            \/ /\ runner'[q].pc = runner[q].pc
               /\ runner'[q].tenant = runner[q].tenant
               /\ runner'[q].opens = runner[q].opens
  PROVE  PassesAlone' /\ OneOpenRisk'
<1>1. OneOpenRisk'
  BY DEF OneOpenRisk
<1>2. (\A r \in Runners : ~ At(r, "check") => runner[r].opens = {})'
  BY DEF PassesAlone, At
<1>3. (\A t \in Tenants \ raced : \A q, r \in Runners :
          /\ At(q, "check") /\ runner[q].tenant = t
          /\ At(r, "check") /\ runner[r].tenant = t
          => q = r)'
  BY DEF PassesAlone, At
<1>4. (\A r \in Runners : \A k \in risks :
          At(r, "check") /\ runner[r].tenant \notin raced
              /\ k.tenant = runner[r].tenant
          => k.cve \notin runner[r].opens)'
  BY DEF PassesAlone, At
<1> QED
  BY <1>1, <1>2, <1>3, <1>4 DEF PassesAlone

LEMMA RiskFetch ==
  ASSUME RiskInv, NEW r \in Runners, NEW kev \in Catalogs, FetchCatalog(r, kev)
  PROVE  PassesAlone' /\ OneOpenRisk'
<1> USE DEF RiskInv
<1>1. /\ runner[r].pc = "cerberus" /\ runner[r].opens = {}
      /\ risks' = risks /\ raced \subseteq raced'
      /\ runner' = [runner EXCEPT ![r].pc = "check", ![r].kev = kev]
  BY DEF FetchCatalog, PassesAlone, At, rows
<1>2. \A q \in Runners :
        /\ runner'[q].tenant = runner[q].tenant
        /\ runner'[q].opens = runner[q].opens
        /\ q # r => runner'[q].pc = runner[q].pc
  BY <1>1 DEF TypeOK, RunnerState
<1>3. runner'[r].pc = "check"
  BY <1>1 DEF TypeOK, RunnerState
<1>4. OneOpenRisk'
  BY <1>1 DEF OneOpenRisk
<1>5. (\A q \in Runners : ~ At(q, "check") => runner[q].opens = {})'
  BY <1>1, <1>2, <1>3 DEF PassesAlone, At
<1>6. (\A t \in Tenants \ raced : \A p, q \in Runners :
          /\ At(p, "check") /\ runner[p].tenant = t
          /\ At(q, "check") /\ runner[q].tenant = t
          => p = q)'
  <2>1. runner[r].tenant \in raced' \/
          \A q \in Runners : q # r /\ runner[q].tenant = runner[r].tenant
                                => runner[q].pc # "check"
    BY DEF FetchCatalog, At
  <2> QED
    BY <1>1, <1>2, <2>1 DEF PassesAlone, At
<1>7. (\A q \in Runners : \A k \in risks :
          At(q, "check") /\ runner[q].tenant \notin raced
              /\ k.tenant = runner[q].tenant
          => k.cve \notin runner[q].opens)'
  BY <1>1, <1>2, <1>3 DEF PassesAlone, At
<1> QED
  BY <1>4, <1>5, <1>6, <1>7 DEF PassesAlone

LEMMA RiskCheck ==
  ASSUME RiskInv, NEW r \in Runners, CheckCve(r)
  PROVE  PassesAlone' /\ OneOpenRisk'
<1> USE DEF RiskInv
<1> DEFINE c == Head(runner[r].kev)
           found == OpenRisks(runner[r].tenant, c)
           more == IF found = {} THEN runner[r].opens \cup {c}
                   ELSE runner[r].opens
<1>1. /\ runner[r].pc = "check"
      /\ risks' = risks /\ raced' = raced
  BY DEF CheckCve, At, rows, history
<1>2. runner' = [runner EXCEPT ![r].kev = Tail(@), ![r].opens = more]
  BY DEF CheckCve
<1> HIDE DEF c, found, more
<1>3. \A q \in Runners :
        /\ runner'[q].pc = runner[q].pc
        /\ runner'[q].tenant = runner[q].tenant
        /\ q # r => runner'[q].opens = runner[q].opens
  BY <1>2 DEF TypeOK, RunnerState
<1>4. runner'[r].opens = more
  BY <1>2 DEF TypeOK, RunnerState
<1>5. \A k \in risks : k.tenant = runner[r].tenant /\ k.cve \in more
                          => k.cve \in runner[r].opens
  BY DEF more, found, OpenRisks
<1>6. OneOpenRisk'
  BY <1>1 DEF OneOpenRisk
<1>7. (\A q \in Runners : ~ At(q, "check") => runner[q].opens = {})'
  BY <1>1, <1>3 DEF PassesAlone, At
<1>8. (\A t \in Tenants \ raced : \A p, q \in Runners :
          /\ At(p, "check") /\ runner[p].tenant = t
          /\ At(q, "check") /\ runner[q].tenant = t
          => p = q)'
  BY <1>1, <1>3 DEF PassesAlone, At
<1>9. (\A q \in Runners : \A k \in risks :
          At(q, "check") /\ runner[q].tenant \notin raced
              /\ k.tenant = runner[q].tenant
          => k.cve \notin runner[q].opens)'
  BY <1>1, <1>3, <1>4, <1>5 DEF PassesAlone, At
<1> QED
  BY <1>6, <1>7, <1>8, <1>9 DEF PassesAlone

(* After the hand-over a task is at the alert engine with an empty session.*)
LEMMA HandedOver ==
  ASSUME TypeOK, NEW r \in Runners, HandOver(r)
  PROVE  /\ \A q \in Runners : q # r => runner'[q] = runner[q]
         /\ runner'[r].pc = "alert"
         /\ runner'[r].tenant = runner[r].tenant
         /\ runner'[r].run = runner[r].run
         /\ runner'[r].queue = runner[r].breached
         /\ runner'[r].opens = {} /\ runner'[r].drafts = {}
<1>1. runner[r] \in RunnerState
  BY DEF TypeOK
<1>2. /\ \A q \in Runners : q # r => runner'[q] = runner[q]
      /\ runner'[r] = Alerting(runner[r])
  BY DEF HandOver, TypeOK
<1> QED
  BY <1>1, <1>2 DEF Alerting, RunnerState

LEMMA RiskCommit ==
  ASSUME RiskInv, NEW r \in Runners, CommitRisks(r)
  PROVE  PassesAlone' /\ OneOpenRisk'
<1> USE DEF RiskInv
<1> DEFINE t == runner[r].tenant
           new == {[tenant |-> t, cve |-> d, run |-> runner[r].run] :
                      d \in runner[r].opens}
<1>1. /\ runner[r].pc = "check"
      /\ risks' = risks \cup new /\ raced' = raced
      /\ HandOver(r)
  BY DEF CommitRisks, At
<1>2. /\ \A q \in Runners : q # r => runner'[q] = runner[q]
      /\ runner'[r].pc = "alert" /\ runner'[r].opens = {}
  BY <1>1, HandedOver
<1>3. \A k \in new : k.tenant = t /\ k.cve \in runner[r].opens
  OBVIOUS
<1>4. \A k, l \in new : k.cve = l.cve => k = l
  OBVIOUS
<1> HIDE DEF new
<1>5. t \in Tenants
  BY DEF TypeOK, RunnerState
<1>6. OneOpenRisk'
  BY <1>1, <1>3, <1>4 DEF OneOpenRisk, PassesAlone, At
<1>7. (\A q \in Runners : ~ At(q, "check") => runner[q].opens = {})'
  BY <1>2 DEF PassesAlone, At
<1>8. (\A u \in Tenants \ raced : \A p, q \in Runners :
          /\ At(p, "check") /\ runner[p].tenant = u
          /\ At(q, "check") /\ runner[q].tenant = u
          => p = q)'
  BY <1>1, <1>2 DEF PassesAlone, At
<1>9. (\A q \in Runners : \A k \in risks :
          At(q, "check") /\ runner[q].tenant \notin raced
              /\ k.tenant = runner[q].tenant
          => k.cve \notin runner[q].opens)'
  <2> SUFFICES ASSUME NEW q \in Runners, NEW k \in risks',
                      runner'[q].pc = "check", runner'[q].tenant \notin raced',
                      k.tenant = runner'[q].tenant
               PROVE  k.cve \notin runner'[q].opens
    BY DEF At
  <2>1. q # r /\ runner'[q] = runner[q]
    BY <1>2
  <2>2. runner[q].tenant # t
    BY <1>1, <1>5, <2>1 DEF PassesAlone, At
  <2>3. k \in risks
    BY <1>1, <1>3, <2>1, <2>2
  <2> QED
    BY <1>1, <2>1, <2>3 DEF PassesAlone, At
<1> QED
  BY <1>6, <1>7, <1>8, <1>9 DEF PassesAlone

LEMMA RiskNext == RiskInv /\ [Next]_vars => RiskInv'
<1> SUFFICES ASSUME RiskInv, [Next]_vars PROVE PassesAlone' /\ OneOpenRisk'
  BY TypeNext DEF RiskInv
<1> USE DEF RiskInv
<1>0. \A q \in Runners : runner[q].pc # "check" => runner[q].opens = {}
  BY DEF PassesAlone, At
<1>1. ASSUME NEW r \in Runners, StartRun(r) \/ DiscoveryFails(r) \/ EndRun(r)
      PROVE  PassesAlone' /\ OneOpenRisk'
  <2>1. \A q \in Runners :
          \/ runner'[q].pc # "check" /\ runner'[q].opens = {}
          \/ runner'[q] = runner[q]
    <3>1. CASE StartRun(r)
      BY <3>1 DEF StartRun, Waiting, TypeOK
    <3>2. CASE DiscoveryFails(r)
      BY <1>0, <3>2 DEF DiscoveryFails, TypeOK, RunnerState, At
    <3>3. CASE EndRun(r)
      <4>1. runner'[r] = Waiting \/ runner'[r] = [Waiting EXCEPT !.pc = "done"]
        BY <3>3 DEF EndRun, TypeOK
      <4>2. \A q \in Runners : q # r => runner'[q] = runner[q]
        BY <3>3 DEF EndRun, TypeOK
      <4> QED
        BY <4>1, <4>2 DEF Waiting
    <3> QED
      BY <1>1, <3>1, <3>2, <3>3
  <2> QED
    BY <1>1, <2>1, RiskQuiet DEF StartRun, DiscoveryFails, EndRun, rows, history
<1>2. ASSUME NEW r \in Runners, NEW t \in Tenants, NEW b \in SUBSET Metrics,
             PipelineFails(r, t) \/ PipelineOk(r, t, b)
      PROVE  PassesAlone' /\ OneOpenRisk'
  <2>1. \A q \in Runners :
          \/ runner'[q].pc # "check" /\ runner'[q].opens = {}
          \/ runner'[q] = runner[q]
    BY <1>0, <1>2 DEF PipelineFails, PipelineOk, TypeOK, RunnerState, At
  <2> QED
    BY <1>2, <2>1, RiskQuiet DEF PipelineFails, PipelineOk, rows, history
<1>3. ASSUME NEW r \in Runners, SkipCerberus(r) \/ CerberusFails(r)
      PROVE  PassesAlone' /\ OneOpenRisk'
  <2>1. HandOver(r) /\ risks' = risks /\ raced' = raced
    BY <1>3 DEF SkipCerberus, CerberusFails, rows
  <2> QED
    BY <2>1, HandedOver, RiskQuiet
<1>4. ASSUME NEW r \in Runners, NEW m \in Metrics, SkipAlert(r, m) \/ Page(r, m)
      PROVE  PassesAlone' /\ OneOpenRisk'
  <2>1. \A q \in Runners :
          \/ runner'[q].pc # "check" /\ runner'[q].opens = {}
          \/ runner'[q] = runner[q]
    <3>1. CASE SkipAlert(r, m)
      BY <1>0, <3>1 DEF SkipAlert, TypeOK, RunnerState, At
    <3>2. CASE Page(r, m)
      BY <1>0, <3>2 DEF Page, TypeOK, RunnerState, At
    <3> QED
      BY <1>4, <3>1, <3>2
  <2> QED
    BY <1>4, <2>1, RiskQuiet DEF SkipAlert, Page, rows, history
<1>5. ASSUME NEW r \in Runners, CommitAlerts(r) \/ AlertingFails(r)
      PROVE  PassesAlone' /\ OneOpenRisk'
  <2>1. \A q \in Runners :
          \/ runner'[q].pc # "check" /\ runner'[q].opens = {}
          \/ runner'[q] = runner[q]
    <3>1. NextTenant(r) /\ runner[r].pc = "alert"
      BY <1>5 DEF CommitAlerts, AlertingFails, At
    <3> QED
      BY <1>0, <3>1 DEF NextTenant, TypeOK, RunnerState
  <2> QED
    BY <1>5, <2>1, RiskQuiet DEF CommitAlerts, AlertingFails, rows, history
<1>6. CASE Restart
  BY <1>6, RiskQuiet DEF Restart, Waiting
<1>7. CASE UNCHANGED vars
  BY <1>7, RiskQuiet DEF vars, rows, history
<1> QED
  BY <1>1, <1>2, <1>3, <1>4, <1>5, <1>6, <1>7, RiskFetch, RiskCheck, RiskCommit
     DEF Next, Advance, Cerberus, ProcessMetrics

LEMMA OneMeansCardinality == OneOpenRisk => RiskOpenedOnce
<1> SUFFICES ASSUME OneOpenRisk, NEW t \in Tenants \ raced, NEW c \in Cves
             PROVE  Cardinality(OpenRisks(t, c)) <= 1
  BY DEF RiskOpenedOnce
<1>1. CASE OpenRisks(t, c) = {}
  BY <1>1, FS_EmptySet
<1>2. ASSUME NEW k \in OpenRisks(t, c)
      PROVE  Cardinality(OpenRisks(t, c)) <= 1
  <2>1. OpenRisks(t, c) = {k}
    BY <1>2 DEF OneOpenRisk, OpenRisks
  <2> QED
    BY <2>1, FS_Singleton
<1> QED
  BY <1>1, <1>2

(* Two open risks for one CVE of one tenant, after which scalar_one_or_none*)
(* raises in run_cerberus_pipeline for ever, are only ever opened by two   *)
(* passes that overlapped in that tenant.                                  *)
THEOREM RiskIsOpenedOnce == Spec => []RiskOpenedOnce
<1>1. Init => RiskInv
  BY TypeInit, RiskInit DEF RiskInv
<1>2. RiskInv => RiskOpenedOnce
  BY OneMeansCardinality DEF RiskInv
<1> QED
  BY <1>1, <1>2, RiskNext, PTL DEF Spec

-----------------------------------------------------------------------------
(* Alerts and pages                                                        *)

LEMMA AlertInit == Init => AlertInv /\ PagedInv
  BY DEF Init, AlertInv, PagedInv, Waiting, At

(* A step of one task at its alert engine, where it stays.                 *)
Engaged(q) ==
    /\ runner'[q].pc = "alert"
    /\ runner'[q].tenant = runner[q].tenant
    /\ runner'[q].run = runner[q].run

(* A step that hands nothing over and takes nothing from an alert engine.  *)
LEMMA AlertQuiet ==
  ASSUME AlertInv,
         handled' = handled, alerts' = alerts, failed' = failed,
         \A q \in Runners : At(q, "alert") =>
            /\ Engaged(q)
            /\ runner[q].queue \cup runner[q].drafts
                 \subseteq runner'[q].queue \cup runner'[q].drafts
  PROVE  AlertInv'
<1> SUFFICES ASSUME NEW b \in handled
             PROVE  b \in alerts \/ Pending(b)' \/ EngineFailed(b) \/ Silenced(b)
  BY DEF AlertInv, EngineFailed, Silenced
<1>1. Pending(b) => Pending(b)'
  BY DEF Pending, Engaged, At
<1> QED
  BY <1>1 DEF AlertInv

LEMMA AlertHandOver ==
  ASSUME TypeOK, AlertInv, NEW r \in Runners, ~ At(r, "alert"), HandOver(r),
         alerts' = alerts, failed' = failed
  PROVE  AlertInv'
<1> DEFINE new == {[tenant |-> runner[r].tenant, run |-> runner[r].run,
                    metric |-> m] : m \in runner[r].breached}
<1>1. handled' = handled \cup new
  BY DEF HandOver
<1>2. ASSUME NEW b \in new PROVE Pending(b)'
  <2>1. /\ b.tenant = runner[r].tenant /\ b.run = runner[r].run
        /\ b.metric \in runner[r].breached
    OBVIOUS
  <2> QED
    BY <2>1, HandedOver DEF Pending, At
<1>3. ASSUME NEW b \in handled, Pending(b) PROVE Pending(b)'
  <2>1. \A q \in Runners : At(q, "alert") => runner'[q] = runner[q]
    BY HandedOver
  <2> QED
    BY <1>3, <2>1 DEF Pending, At
<1> HIDE DEF new
<1> QED
  BY <1>1, <1>2, <1>3 DEF AlertInv, EngineFailed, Silenced

LEMMA AlertSkip ==
  ASSUME TypeOK, AlertInv, NEW r \in Runners, NEW m \in Metrics, SkipAlert(r, m)
  PROVE  AlertInv'
<1>1. /\ handled' = handled /\ alerts' = alerts /\ failed' = failed
      /\ runner' = [runner EXCEPT ![r].queue = @ \ {m}]
      /\ runner[r].pc = "alert"
  BY DEF SkipAlert, rows, history, At
<1>2. \A q \in Runners :
        /\ runner'[q].pc = runner[q].pc
        /\ runner'[q].tenant = runner[q].tenant
        /\ runner'[q].run = runner[q].run
        /\ runner'[q].drafts = runner[q].drafts
        /\ q # r => runner'[q].queue = runner[q].queue
  BY <1>1 DEF TypeOK, RunnerState
<1>3. runner'[r].queue = runner[r].queue \ {m}
  BY <1>1 DEF TypeOK, RunnerState
<1> SUFFICES ASSUME NEW b \in handled
             PROVE  b \in alerts \/ Pending(b)' \/ EngineFailed(b) \/ Silenced(b)
  BY <1>1 DEF AlertInv, EngineFailed, Silenced
<1>4. ASSUME NEW q \in Runners, At(q, "alert"),
             runner[q].tenant = b.tenant, runner[q].run = b.run,
             b.metric \in runner[q].queue \cup runner[q].drafts
      PROVE  b \in alerts \/ Pending(b)' \/ Silenced(b)
  <2>1. CASE q # r \/ b.metric # m
    BY <1>2, <1>3, <1>4, <2>1 DEF Pending, At
  <2>2. CASE q = r /\ b.metric = m
    <3>1. PICK a \in alerts : a.run = runner[r].run /\ a.metric = m
      BY DEF SkipAlert, AlreadyAlerted
    <3>2. a \in Breach /\ b \in Breach
      BY DEF TypeOK
    <3>3. a.tenant = b.tenant => a = b
      BY <1>4, <2>2, <3>1, <3>2 DEF Breach
    <3> QED
      BY <1>4, <2>2, <3>1, <3>3 DEF Silenced
  <2> QED
    BY <2>1, <2>2
<1> QED
  BY <1>4 DEF AlertInv, Pending

(* After a tenant is done its task is not at the alert engine.             *)
LEMMA WentOn ==
  ASSUME TypeOK, NEW r \in Runners, NextTenant(r)
  PROVE  /\ \A q \in Runners : q # r => runner'[q] = runner[q]
         /\ runner'[r].pc = "next" /\ runner'[r].drafts = {}
  BY DEF NextTenant, TypeOK, RunnerState

LEMMA AlertCommit ==
  ASSUME TypeOK, AlertInv, NEW r \in Runners, CommitAlerts(r)
  PROVE  AlertInv'
<1> DEFINE new == {[tenant |-> runner[r].tenant, run |-> runner[r].run,
                    metric |-> m] : m \in runner[r].drafts}
<1>1. /\ alerts' = alerts \cup new /\ handled' = handled /\ failed' = failed
      /\ runner[r].queue = {} /\ NextTenant(r)
  BY DEF CommitAlerts, history, At
<1> SUFFICES ASSUME NEW b \in handled
             PROVE  b \in alerts' \/ Pending(b)' \/ EngineFailed(b) \/ Silenced(b)'
  BY <1>1 DEF AlertInv, EngineFailed
<1>2. ASSUME NEW q \in Runners, At(q, "alert"),
             runner[q].tenant = b.tenant, runner[q].run = b.run,
             b.metric \in runner[q].queue \cup runner[q].drafts
      PROVE  b \in alerts' \/ Pending(b)'
  <2>1. CASE q # r
    BY <1>1, <1>2, <2>1, WentOn DEF Pending, At
  <2>2. CASE q = r
    <3>1. b \in Breach
      BY DEF TypeOK
    <3>2. b = [tenant |-> b.tenant, run |-> b.run, metric |-> b.metric]
      BY <3>1 DEF Breach
    <3>3. b \in new
      BY <1>1, <1>2, <2>2, <3>2
    <3> QED
      BY <1>1, <3>3
  <2> QED
    BY <2>1, <2>2
<1>3. Silenced(b) => Silenced(b)'
  BY <1>1 DEF Silenced
<1> QED
  BY <1>1, <1>2, <1>3 DEF AlertInv, Pending

(* Every engine at work that a step stops is recorded as failed.           *)
LEMMA AlertStop ==
  ASSUME AlertInv, handled' = handled, alerts' = alerts, failed \subseteq failed',
         \A q \in Runners : At(q, "alert") =>
            \/ runner'[q] = runner[q]
            \/ [tenant |-> runner[q].tenant, run |-> runner[q].run] \in failed'
  PROVE  AlertInv'
<1> SUFFICES ASSUME NEW b \in handled
             PROVE  b \in alerts \/ Pending(b)' \/ EngineFailed(b)' \/ Silenced(b)
  BY DEF AlertInv, Silenced
<1>1. Pending(b) => Pending(b)' \/ EngineFailed(b)'
  BY DEF Pending, EngineFailed, At
<1>2. EngineFailed(b) => EngineFailed(b)'
  BY DEF EngineFailed
<1> QED
  BY <1>1, <1>2 DEF AlertInv

(* The steps of a run before CERBERUS is done: no task is at its alert     *)
(* engine before or after unless the step leaves it alone.                 *)
Early(r) ==
    \/ StartRun(r) \/ DiscoveryFails(r) \/ EndRun(r)
    \/ \E t \in Tenants :
          PipelineFails(r, t) \/ \E b \in SUBSET Metrics : PipelineOk(r, t, b)
    \/ \E kev \in Catalogs : FetchCatalog(r, kev)
    \/ CheckCve(r)

LEMMA EarlyLeavesEngines ==
  ASSUME TypeOK, NEW r \in Runners, Early(r)
  PROVE  /\ \A q \in Runners :
               \/ runner'[q] = runner[q]
               \/ ~ At(q, "alert") /\ ~ At(q, "alert")'
         /\ alerts' = alerts /\ paged' = paged
         /\ handled' = handled /\ failed' = failed
<1>1. CASE StartRun(r)
  BY <1>1 DEF StartRun, Waiting, TypeOK, At, rows, history
<1>2. CASE DiscoveryFails(r)
  BY <1>2 DEF DiscoveryFails, TypeOK, RunnerState, At, rows, history
<1>3. CASE EndRun(r)
  <2>1. /\ runner[r].pc = "next" /\ runner'[r].pc # "alert"
        /\ \A q \in Runners : q # r => runner'[q] = runner[q]
    BY <1>3 DEF EndRun, Waiting, TypeOK, At
  <2> QED
    BY <1>3, <2>1 DEF EndRun, At, rows, history
<1>4. ASSUME NEW t \in Tenants, NEW b \in SUBSET Metrics,
             PipelineFails(r, t) \/ PipelineOk(r, t, b)
      PROVE  /\ \A q \in Runners :
                   \/ runner'[q] = runner[q]
                   \/ ~ At(q, "alert") /\ ~ At(q, "alert")'
             /\ alerts' = alerts /\ paged' = paged
             /\ handled' = handled /\ failed' = failed
  <2>1. CASE PipelineFails(r, t)
    BY <2>1 DEF PipelineFails, TypeOK, RunnerState, At, rows, history
  <2>2. CASE PipelineOk(r, t, b)
    <3>1. /\ runner[r].pc = "next" /\ runner'[r].pc = "cerberus"
          /\ \A q \in Runners : q # r => runner'[q] = runner[q]
      BY <2>2 DEF PipelineOk, TypeOK, RunnerState, At
    <3> QED
      BY <2>2, <3>1 DEF PipelineOk, At, rows, history
  <2> QED
    BY <1>4, <2>1, <2>2
<1>5. ASSUME NEW kev \in Catalogs, FetchCatalog(r, kev)
      PROVE  /\ \A q \in Runners :
                   \/ runner'[q] = runner[q]
                   \/ ~ At(q, "alert") /\ ~ At(q, "alert")'
             /\ alerts' = alerts /\ paged' = paged
             /\ handled' = handled /\ failed' = failed
  BY <1>5 DEF FetchCatalog, TypeOK, RunnerState, At, rows
<1>6. CASE CheckCve(r)
  <2> DEFINE found == OpenRisks(runner[r].tenant, Head(runner[r].kev))
             more == IF found = {}
                       THEN runner[r].opens \cup {Head(runner[r].kev)}
                       ELSE runner[r].opens
  <2>1. /\ runner[r].pc = "check"
        /\ runner' = [runner EXCEPT ![r].kev = Tail(@), ![r].opens = more]
    BY <1>6 DEF CheckCve, At
  <2> HIDE DEF found, more
  <2>2. /\ runner'[r].pc = "check"
        /\ \A q \in Runners : q # r => runner'[q] = runner[q]
    BY <2>1 DEF TypeOK, RunnerState
  <2> QED
    BY <1>6, <2>1, <2>2 DEF CheckCve, At, rows, history
<1> QED
  BY <1>1, <1>2, <1>3, <1>4, <1>5, <1>6 DEF Early

LEMMA AlertNext == TypeOK /\ AlertInv /\ [Next]_vars => AlertInv'
<1> SUFFICES ASSUME TypeOK, AlertInv, [Next]_vars PROVE AlertInv'
  OBVIOUS
<1>1. ASSUME NEW r \in Runners, Early(r) PROVE AlertInv'
  BY <1>1, EarlyLeavesEngines, AlertQuiet DEF Engaged, At
<1>2. ASSUME NEW r \in Runners,
             SkipCerberus(r) \/ CerberusFails(r) \/ CommitRisks(r)
      PROVE  AlertInv'
  <2>1. /\ HandOver(r) /\ ~ At(r, "alert")
        /\ alerts' = alerts /\ failed' = failed
    BY <1>2 DEF SkipCerberus, CerberusFails, CommitRisks, At, rows
  <2> QED
    BY <2>1, AlertHandOver
<1>3. ASSUME NEW r \in Runners, NEW m \in Metrics, Page(r, m) PROVE AlertInv'
  <2>1. /\ handled' = handled /\ alerts' = alerts /\ failed' = failed
        /\ runner' = [runner EXCEPT ![r].queue = @ \ {m},
                                    ![r].drafts = @ \cup {m}]
    BY <1>3 DEF Page, rows
  <2>2. \A q \in Runners :
          /\ runner'[q].pc = runner[q].pc
          /\ runner'[q].tenant = runner[q].tenant
          /\ runner'[q].run = runner[q].run
          /\ runner[q].queue \cup runner[q].drafts
               \subseteq runner'[q].queue \cup runner'[q].drafts
    BY <2>1 DEF TypeOK, RunnerState
  <2> QED
    BY <2>1, <2>2, AlertQuiet DEF Engaged, At
<1>4. ASSUME NEW r \in Runners, AlertingFails(r) PROVE AlertInv'
  <2>1. /\ NextTenant(r) /\ handled' = handled /\ alerts' = alerts
        /\ failed' = failed \cup
             {[tenant |-> runner[r].tenant, run |-> runner[r].run]}
    BY <1>4 DEF AlertingFails, rows
  <2> QED
    BY <2>1, WentOn, AlertStop
<1>5. CASE Restart
  BY <1>5, AlertStop DEF Restart
<1>6. CASE UNCHANGED vars
  BY <1>6, AlertQuiet DEF vars, rows, history, Engaged, At
<1> QED
  BY <1>1, <1>2, <1>3, <1>4, <1>5, <1>6, AlertSkip, AlertCommit
     DEF Next, Advance, Cerberus, ProcessMetrics, Early

(* A step that pages nobody and stores no alert, and where every task is   *)
(* left alone, has an empty alert session, or is recorded as failed.       *)
LEMMA PagedQuiet ==
  ASSUME PagedInv, paged' = paged, alerts' = alerts, failed \subseteq failed',
         \A q \in Runners :
            \/ /\ Engaged(q) /\ At(q, "alert")
               /\ runner'[q].drafts = runner[q].drafts
            \/ /\ At(q, "alert") =>
                    \/ runner[q].drafts = {}
                    \/ [tenant |-> runner[q].tenant, run |-> runner[q].run]
                          \in failed'
               /\ At(q, "alert")' => runner'[q].drafts = {}
  PROVE  PagedInv'
<1>1. ASSUME NEW b \in paged
      PROVE  b \in alerts \/ Drafted(b)' \/ EngineFailed(b)'
  <2>1. Drafted(b) => Drafted(b)' \/ EngineFailed(b)'
    BY DEF Drafted, EngineFailed, Engaged, At
  <2>2. EngineFailed(b) => EngineFailed(b)'
    BY DEF EngineFailed
  <2> QED
    BY <2>1, <2>2 DEF PagedInv
<1>2. ASSUME NEW q \in Runners, NEW m \in runner'[q].drafts, At(q, "alert")'
      PROVE  [tenant |-> runner'[q].tenant, run |-> runner'[q].run, metric |-> m]
                \in paged
  <2>1. /\ Engaged(q) /\ At(q, "alert")
        /\ runner'[q].drafts = runner[q].drafts
    BY <1>2
  <2> QED
    BY <2>1 DEF Engaged, PagedInv
<1> QED
  BY <1>1, <1>2 DEF PagedInv

LEMMA PagedPage ==
  ASSUME TypeOK, PagedInv, NEW r \in Runners, NEW m \in Metrics, Page(r, m)
  PROVE  PagedInv'
<1>0. PICK b : b = [tenant |-> runner[r].tenant, run |-> runner[r].run,
                    metric |-> m]
  OBVIOUS
<1>1. /\ alerts' = alerts /\ failed' = failed /\ paged' = paged \cup {b}
      /\ runner[r].pc = "alert"
      /\ runner' = [runner EXCEPT ![r].queue = @ \ {m}, ![r].drafts = @ \cup {m}]
  BY <1>0 DEF Page, rows, At
<1>2. \A q \in Runners :
        /\ runner'[q].pc = runner[q].pc
        /\ runner'[q].tenant = runner[q].tenant
        /\ runner'[q].run = runner[q].run
        /\ q # r => runner'[q].drafts = runner[q].drafts
  BY <1>1 DEF TypeOK, RunnerState
<1>3. runner'[r].drafts = runner[r].drafts \cup {m}
  BY <1>1 DEF TypeOK, RunnerState
<1>4. ASSUME NEW x \in paged, Drafted(x) PROVE Drafted(x)'
  BY <1>2, <1>3, <1>4 DEF Drafted, At
<1>5. Drafted(b)'
  BY <1>0, <1>1, <1>2, <1>3 DEF Drafted, At
<1>6. ASSUME NEW q \in Runners, NEW n \in runner'[q].drafts, At(q, "alert")'
      PROVE  [tenant |-> runner'[q].tenant, run |-> runner'[q].run, metric |-> n]
                \in paged'
  <2>0. /\ runner'[q].tenant = runner[q].tenant
        /\ runner'[q].run = runner[q].run
        /\ paged \subseteq paged' /\ b \in paged'
    BY <1>1, <1>2
  <2>1. CASE q = r /\ n = m
    BY <1>0, <2>0, <2>1
  <2>2. CASE ~ (q = r /\ n = m)
    <3>1. n \in runner[q].drafts /\ At(q, "alert")
      BY <1>2, <1>3, <1>6, <2>2 DEF At
    <3> QED
      BY <2>0, <3>1 DEF PagedInv
  <2> QED
    BY <2>1, <2>2
<1> QED
  BY <1>1, <1>4, <1>5, <1>6 DEF PagedInv, EngineFailed

LEMMA PagedCommit ==
  ASSUME TypeOK, PagedInv, NEW r \in Runners, CommitAlerts(r)
  PROVE  PagedInv'
<1> DEFINE new == {[tenant |-> runner[r].tenant, run |-> runner[r].run,
                    metric |-> m] : m \in runner[r].drafts}
<1>1. /\ alerts' = alerts \cup new /\ paged' = paged /\ failed' = failed
      /\ runner[r].pc = "alert" /\ NextTenant(r)
  BY DEF CommitAlerts, history, At
<1>2. new \subseteq paged
  BY <1>1 DEF PagedInv, At
<1>3. ASSUME NEW b \in paged, Drafted(b) PROVE b \in alerts' \/ Drafted(b)'
  <2>1. PICK q \in Runners :
          /\ At(q, "alert")
          /\ runner[q].tenant = b.tenant /\ runner[q].run = b.run
          /\ b.metric \in runner[q].drafts
    BY <1>3 DEF Drafted
  <2>2. CASE q # r
    BY <1>1, <2>1, <2>2, WentOn DEF Drafted, At
  <2>3. CASE q = r
    <3>1. b \in Breach
      BY DEF TypeOK
    <3>2. b = [tenant |-> b.tenant, run |-> b.run, metric |-> b.metric]
      BY <3>1 DEF Breach
    <3>3. b \in new
      BY <2>1, <2>3, <3>2
    <3> QED
      BY <1>1, <3>3
  <2> QED
    BY <2>2, <2>3
<1>4. ASSUME NEW q \in Runners, NEW m \in runner'[q].drafts, At(q, "alert")'
      PROVE  [tenant |-> runner'[q].tenant, run |-> runner'[q].run, metric |-> m]
                \in paged
  <2>1. q # r
    BY <1>1, <1>4, WentOn DEF At
  <2>2. runner'[q] = runner[q]
    BY <1>1, <2>1, WentOn
  <2> QED
    BY <1>4, <2>2 DEF PagedInv, At
<1> HIDE DEF new
<1> QED
  BY <1>1, <1>2, <1>3, <1>4 DEF PagedInv, EngineFailed

LEMMA PagedNext == TypeOK /\ PagedInv /\ [Next]_vars => PagedInv'
<1> SUFFICES ASSUME TypeOK, PagedInv, [Next]_vars PROVE PagedInv'
  OBVIOUS
<1>1. ASSUME NEW r \in Runners, Early(r) PROVE PagedInv'
  BY <1>1, EarlyLeavesEngines, PagedQuiet DEF Engaged, At
<1>2. ASSUME NEW r \in Runners,
             SkipCerberus(r) \/ CerberusFails(r) \/ CommitRisks(r)
      PROVE  PagedInv'
  <2>1. /\ HandOver(r) /\ ~ At(r, "alert")
        /\ alerts' = alerts /\ failed' = failed /\ paged' = paged
    BY <1>2 DEF SkipCerberus, CerberusFails, CommitRisks, At, rows
  <2> QED
    BY <2>1, HandedOver, PagedQuiet DEF Engaged, At
<1>3. ASSUME NEW r \in Runners, NEW m \in Metrics, SkipAlert(r, m) PROVE PagedInv'
  <2>1. /\ alerts' = alerts /\ failed' = failed /\ paged' = paged
        /\ runner[r].pc = "alert"
        /\ runner' = [runner EXCEPT ![r].queue = @ \ {m}]
    BY <1>3 DEF SkipAlert, At, rows, history
  <2>2. /\ \A q \in Runners : q # r => runner'[q] = runner[q]
        /\ Engaged(r) /\ runner'[r].drafts = runner[r].drafts
    BY <2>1 DEF Engaged, TypeOK, RunnerState
  <2> QED
    BY <2>1, <2>2, PagedQuiet DEF Engaged, At
<1>4. ASSUME NEW r \in Runners, AlertingFails(r) PROVE PagedInv'
  <2>1. /\ NextTenant(r) /\ paged' = paged /\ alerts' = alerts
        /\ failed' = failed \cup
             {[tenant |-> runner[r].tenant, run |-> runner[r].run]}
    BY <1>4 DEF AlertingFails, rows
  <2> QED
    BY <2>1, WentOn, PagedQuiet DEF Engaged, At
<1>5. CASE Restart
  BY <1>5, PagedQuiet DEF Restart, Waiting, At
<1>6. CASE UNCHANGED vars
  BY <1>6, PagedQuiet DEF vars, rows, history, Engaged, At
<1> QED
  BY <1>1, <1>2, <1>3, <1>4, <1>5, <1>6, PagedPage, PagedCommit
     DEF Next, Advance, Cerberus, ProcessMetrics, Early

(* A breach process_metrics was called with has an alert row unless its    *)
(* engine is at work or failed, or another tenant of the run silenced it.  *)
THEOREM MissedAlertsAreExplained == Spec => []MissedAlertExplained
<1>1. Init => TypeOK /\ AlertInv
  BY TypeInit, AlertInit
<1>2. AlertInv => MissedAlertExplained
  BY DEF AlertInv, MissedAlertExplained, Pending, InEngine, Silenced
<1> QED
  BY <1>1, <1>2, TypeNext, AlertNext, PTL DEF Spec

(* Whoever process_metrics paged finds the alert row, unless its engine is *)
(* at work or failed; and no alert row is stored without a page.           *)
THEOREM PagesAreRecorded == Spec => []PagedIsRecorded
<1>1. Init => TypeOK /\ PagedInv
  BY TypeInit, AlertInit
<1>2. PagedInv => PagedIsRecorded
  BY DEF PagedInv, PagedIsRecorded, Drafted, InEngine
<1> QED
  BY <1>1, <1>2, TypeNext, PagedNext, PTL DEF Spec
================================================================================
