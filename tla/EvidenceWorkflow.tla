--------------------------- MODULE EvidenceWorkflow ---------------------------
(***************************************************************************)
(* The request handlers of one production tenant that file evidence for a  *)
(* business row: fulfilling an evidence request, closing a finding, signing*)
(* a policy or a training course, completing a penetration test, and the   *)
(* remediation agent.  Each composes its own queries with                  *)
(* append_evidence_record, which COMMITS the session it is given: the      *)
(* evidence and the row it is about are written in two transactions, and   *)
(* whatever the session already holds is committed with the evidence.      *)
(*                                                                         *)
(* The vault is the module EvidenceVault, one appending coroutine a        *)
(* handler.  A subject stands for the primary key of the row; a policy or  *)
(* course subject is a pair of the document and the signing user.          *)
(***************************************************************************)
EXTENDS Integers, FiniteSets, Sequences

CONSTANTS
    Handlers,       \* requests being served
    Requests,       \* rows of evidence_requests
    Findings,       \* rows of audit_findings
    PenTests,       \* rows of pentest_engagements
    Documents,      \* (policy or course, user) pairs that may be signed off
    Tenant,         \* the one production tenant
    MaxStamp        \* bound of the model: evidence records ever stamped

Subjects == Requests \cup Findings \cup PenTests \cup Documents

ASSUME SubjectsAssumption == Subjects # {} /\ MaxStamp \in Nat

VARIABLES
    vault, clock, writer, lister, overlapped,   \* of EvidenceVault
    request,    \* evidence_requests: status and evidence_id
    finding,    \* audit_findings: status and evidence_id
    pentest,    \* pentest_engagements: status and report_evidence_id
    signoffs,   \* policy_attestations and training_completions
    handler,    \* local state of each request handler
    filed,      \* history: what each evidence record was filed for
    contended,  \* history: subjects two handlers once worked on at a time
    lost        \* history: handlers that failed between their two commits

vaultVars == <<vault, clock, writer, lister, overlapped>>
rowVars == <<request, finding, pentest, signoffs>>
history == <<filed, contended, lost>>
vars == <<vaultVars, rowVars, handler, history>>

Vault == INSTANCE EvidenceVault WITH
    Tenants <- {Tenant}, DemoTenants <- {}, Writers <- Handlers,
    Listers <- {}, CheckLimit <- 1, ListLimit <- 1, SeedLinks <- <<TRUE>>

None == 0      \* no evidence_id

FindingStatus == {"finding", "closed"}
PenTestStatus == {"scheduled", "completed"}
Status == FindingStatus \cup PenTestStatus

Ops == {"fulfil", "upload", "update", "pentest", "reopen", "sign", "auto"}

HandlerState ==
    [op: Ops \cup {"none"}, subject: Subjects, pc: {"idle", "append", "record"},
     evidence: Nat, seen: Status, target: Status]

Idle ==
    [op |-> "none", subject |-> CHOOSE s \in Subjects : TRUE, pc |-> "idle",
     evidence |-> None, seen |-> "finding", target |-> "finding"]

Init ==
    /\ Vault!Init
    /\ request = [r \in Requests |-> [status |-> "absent", evidence |-> None]]
    /\ finding = [f \in Findings |-> [status |-> "finding", evidence |-> None]]
    /\ pentest = [p \in PenTests |-> [status |-> "scheduled", evidence |-> None]]
    /\ signoffs = {}
    /\ handler = [h \in Handlers |-> Idle]
    /\ filed = {}
    /\ contended = {}
    /\ lost = {}

-----------------------------------------------------------------------------
(* First query of a handler: it loads its row and checks it.               *)

WorksOn(h, s) == handler[h].pc # "idle" /\ handler[h].subject = s

Start(h, op, s, pc, seen, target) ==
    /\ handler[h].pc = "idle"
    /\ handler' = [handler EXCEPT ![h] =
                     [op |-> op, subject |-> s, pc |-> pc, evidence |-> None,
                      seen |-> seen, target |-> target]]
    /\ contended' = IF \E g \in Handlers : WorksOn(g, s)
                      THEN contended \cup {s} ELSE contended
    /\ UNCHANGED <<vaultVars, rowVars, filed, lost>>

(* A fault: the evidence is not appended before the row is written.        *)
StartWithoutAppend(h, op, s) == Start(h, op, s, "record", "finding", "finding")

StartAppend(h, op, s) == Start(h, op, s, "append", "finding", "finding")

(* A fault: the 409 check of a fulfilled request is gone.                  *)
BeginFulfilAgain(h, r) ==
    request[r].status # "absent" /\ StartAppend(h, "fulfil", r)

(* fulfill_evidence_request: 404 without a row, 409 once it is fulfilled.  *)
BeginFulfil(h, r) ==
    request[r].status = "pending" /\ StartAppend(h, "fulfil", r)

(* upload_finding_evidence takes a finding in any status.                  *)
BeginUpload(h, f) ==
    Start(h, "upload", f, "append", finding[f].status, "closed")

(* update_finding accepts any status text.                                 *)
BeginUpdate(h, f, status) ==
    Start(h, "update", f, "record", finding[f].status, status)

(* update_pentest with status "completed", also on a completed one, or     *)
(* with another status; neither is refused.                                *)
BeginPenTest(h, p) ==
    Start(h, "pentest", p, "append", pentest[p].status, "completed")

BeginReopen(h, p) ==
    Start(h, "reopen", p, "record", pentest[p].status, "scheduled")

(* A fault: the 409 check of a signed document is gone.                    *)
BeginSignOffAgain(h, s) == StartAppend(h, "sign", s)

(* attest_policy and complete_training, which is the same program: 409     *)
(* "Already attested to this policy" if there is a row for the user.       *)
BeginSignOff(h, s) ==
    (\A x \in signoffs : x.subject # s) /\ StartAppend(h, "sign", s)

(* auto_remediate_gaps adds a finding and a request to its session before  *)
(* it appends the evidence; the request gets a fresh identifier.           *)
BeginAuto(h, r) ==
    /\ request[r].status = "absent"
    /\ \A g \in Handlers : ~ WorksOn(g, r)
    /\ StartAppend(h, "auto", r)

(* A fault: a request is created with a status no code knows.              *)
CreateOpenRequest(r) ==
    /\ request[r].status = "absent"
    /\ request' = [request EXCEPT ![r].status = "open"]
    /\ UNCHANGED <<vaultVars, finding, pentest, signoffs, handler, history>>

(* create_evidence_request, an INSERT with a fresh identifier.             *)
CreateRequest(r) ==
    /\ request[r].status = "absent"
    /\ \A g \in Handlers : ~ WorksOn(g, r)
    /\ request' = [request EXCEPT ![r].status = "pending"]
    /\ UNCHANGED <<vaultVars, finding, pentest, signoffs, handler, history>>

-----------------------------------------------------------------------------
(* append_evidence_record, called by a handler                             *)

ReadTip(h) ==
    /\ handler[h].pc = "append"
    /\ Vault!ReadTip(h, Tenant)
    /\ UNCHANGED <<rowVars, handler, history>>

Stamp(h) ==
    /\ Vault!Stamp(h)
    /\ UNCHANGED <<rowVars, handler, history>>

(* Only the columns whose value differs from the one that was loaded are   *)
(* in the UPDATE the session sends.                                        *)
StatusColumn(h, stored) ==
    IF handler[h].seen = handler[h].target THEN stored ELSE handler[h].target

SetPenTestStatus(h) ==
    pentest' = [pentest EXCEPT ![handler[h].subject].status = StatusColumn(h, @)]

(* The commit inside append_evidence_record: the pen test's new status and *)
(* the agent's new request were pending in the same session.  The agent is *)
(* done then; the other handlers go on with the evidence_id.               *)
CommitEvidence(h) ==
    LET s == handler[h].subject
        op == handler[h].op
    IN
    /\ Vault!Commit(h)
    /\ filed' = filed \cup {[evidence |-> writer[h].ts, op |-> op, subject |-> s]}
    /\ IF op = "pentest" THEN SetPenTestStatus(h) ELSE UNCHANGED pentest
    /\ request' = IF op = "auto"
                    THEN [request EXCEPT ![s].status = "pending"] ELSE request
    /\ handler' = [handler EXCEPT ![h] =
                     IF op = "auto" THEN Idle
                     ELSE [@ EXCEPT !.pc = "record", !.evidence = writer[h].ts]]
    /\ UNCHANGED <<finding, signoffs, contended, lost>>

-----------------------------------------------------------------------------
(* Last commit of a handler: it writes its own row.                        *)

(* A fault: the request is fulfilled, but does not name its evidence.      *)
RecordRequestStatus(h) ==
    /\ handler[h].op = "fulfil"
    /\ request' = [request EXCEPT ![handler[h].subject].status = "fulfilled"]
    /\ UNCHANGED <<finding, pentest, signoffs>>

RecordRequest(h) ==
    /\ handler[h].op = "fulfil"
    /\ request' = [request EXCEPT ![handler[h].subject] =
                     [status |-> "fulfilled", evidence |-> handler[h].evidence]]
    /\ UNCHANGED <<finding, pentest, signoffs>>

RecordFinding(h) ==
    LET f == handler[h].subject IN
    /\ handler[h].op \in {"upload", "update"}
    /\ finding' = [finding EXCEPT
                     ![f].status = StatusColumn(h, @),
                     ![f].evidence = IF handler[h].op = "upload"
                                       THEN handler[h].evidence ELSE @]
    /\ UNCHANGED <<request, pentest, signoffs>>

(* A fault: report_evidence_id is never stored.                            *)
RecordPenTestWithoutReport(h) ==
    /\ \/ handler[h].op = "pentest" /\ UNCHANGED pentest
       \/ handler[h].op = "reopen" /\ SetPenTestStatus(h)
    /\ UNCHANGED <<request, finding, signoffs>>

RecordPenTest(h) ==
    /\ \/ /\ handler[h].op = "pentest"
          /\ pentest' = [pentest EXCEPT
                           ![handler[h].subject].evidence = handler[h].evidence]
       \/ handler[h].op = "reopen" /\ SetPenTestStatus(h)
    /\ UNCHANGED <<request, finding, signoffs>>

RecordSignOff(h) ==
    /\ handler[h].op = "sign"
    /\ signoffs' = signoffs \cup
         {[subject |-> handler[h].subject, evidence |-> handler[h].evidence]}
    /\ UNCHANGED <<request, finding, pentest>>

Record(h) ==
    /\ handler[h].pc = "record"
    /\ RecordRequest(h) \/ RecordFinding(h) \/ RecordPenTest(h) \/ RecordSignOff(h)
    /\ handler' = [handler EXCEPT ![h] = Idle]
    /\ UNCHANGED <<vaultVars, history>>

(* A fault: a failing request takes its committed evidence back.           *)
FailAndUndo(h) ==
    /\ handler[h].pc # "idle"
    /\ handler' = [handler EXCEPT ![h] = Idle]
    /\ writer' = [writer EXCEPT ![h] = Vault!IdleWriter]
    /\ vault' = [vault EXCEPT ![Tenant] =
                    {r \in @ : r.ts # handler[h].evidence}]
    /\ UNCHANGED <<clock, lister, overlapped, rowVars, history>>

(* A request that fails (a database error, a restart) rolls its session    *)
(* back: what append_evidence_record has committed stays.                  *)
Fail(h) ==
    /\ handler[h].pc # "idle"
    /\ handler' = [handler EXCEPT ![h] = Idle]
    /\ writer' = [writer EXCEPT ![h] = Vault!IdleWriter]
    /\ lost' = IF handler[h].evidence = None THEN lost
                 ELSE lost \cup {[evidence |-> handler[h].evidence,
                                  op |-> handler[h].op,
                                  subject |-> handler[h].subject]}
    /\ UNCHANGED <<vault, clock, lister, overlapped, rowVars, filed, contended>>

Begin(h) ==
    \/ \E r \in Requests : BeginFulfil(h, r) \/ BeginAuto(h, r)
    \/ \E f \in Findings :
          BeginUpload(h, f) \/ \E st \in FindingStatus : BeginUpdate(h, f, st)
    \/ \E p \in PenTests : BeginPenTest(h, p) \/ BeginReopen(h, p)
    \/ \E s \in Documents : BeginSignOff(h, s)

Next ==
    \/ \E r \in Requests : CreateRequest(r)
    \/ \E h \in Handlers :
          \/ Begin(h) \/ ReadTip(h) \/ Stamp(h) \/ CommitEvidence(h)
          \/ Record(h) \/ Fail(h)

Spec == Init /\ [][Next]_vars

-----------------------------------------------------------------------------
(* Properties                                                              *)

(* The types of the business rows, the handlers and the histories.         *)
TypeOK ==
    /\ request \in [Requests -> [status: {"absent", "pending", "fulfilled"},
                                 evidence: Nat]]
    /\ finding \in [Findings -> [status: FindingStatus, evidence: Nat]]
    /\ pentest \in [PenTests -> [status: PenTestStatus, evidence: Nat]]
    /\ signoffs \subseteq [subject: Documents, evidence: Nat]
    /\ handler \in [Handlers -> HandlerState]
    /\ filed \cup lost \subseteq [evidence: Nat, op: Ops, subject: Subjects]
    /\ contended \subseteq Subjects

(* Evidence e is a committed record that was filed by op for subject s.    *)
FiledFor(e, op, s) ==
    /\ [evidence |-> e, op |-> op, subject |-> s] \in filed
    /\ \E r \in vault[Tenant] : r.ts = e

(* Every evidence_id stored in a business row names a committed vault      *)
(* record that was filed for that very row, whatever interleaves or        *)
(* crashes; and no request is fulfilled, and no sign-off stored, without.  *)
RowsAreEvidenced ==
    /\ \A r \in Requests :
          /\ request[r].status = "fulfilled" => request[r].evidence # None
          /\ request[r].evidence # None =>
                FiledFor(request[r].evidence, "fulfil", r)
    /\ \A f \in Findings :
          finding[f].evidence # None => FiledFor(finding[f].evidence, "upload", f)
    /\ \A p \in PenTests :
          pentest[p].evidence # None => FiledFor(pentest[p].evidence, "pentest", p)
    /\ \A x \in signoffs : FiledFor(x.evidence, "sign", x.subject)

AboutToRecord(e) ==
    \E h \in Handlers : handler[h].pc = "record" /\ handler[h].evidence = e

(* Evidence filed for something that happens once is not left behind: it   *)
(* is the evidence its row names, unless its handler is about to write     *)
(* that row or failed before it did, or two handlers fulfilled the request *)
(* at the same time.                                                       *)
NoOrphanEvidence ==
    \A x \in filed \ lost :
        \/ AboutToRecord(x.evidence)
        \/ /\ x.op = "fulfil" =>
                 \/ request[x.subject].evidence = x.evidence
                 \/ x.subject \in contended
           /\ x.op = "sign" =>
                 [subject |-> x.subject, evidence |-> x.evidence] \in signoffs

(* A second attestation or completion row for one user and document (the   *)
(* checks raise MultipleResultsFound on it ever after) needs two handlers  *)
(* that overlapped; a failure and a retry do not make one.                 *)
SignedOnce ==
    \A x, y \in signoffs :
        x.subject = y.subject /\ x.subject \notin contended => x = y

(* A pen test shown as completed without a report is one whose handler is  *)
(* still at work, or failed between its two commits.                       *)
CompletedHasReport ==
    \A p \in PenTests :
        pentest[p].status = "completed" /\ pentest[p].evidence = None =>
            \/ \E h \in Handlers : WorksOn(h, p) /\ handler[h].pc = "record"
            \/ \E x \in lost : x.subject = p

(* A fulfilled request keeps its evidence, unless two handlers passed the  *)
(* 409 check together.                                                     *)
FulfilledIsFinal ==
    [][\A r \in Requests :
          request[r].status = "fulfilled" /\ r \notin contended
              => request'[r] = request[r]]_vars

(* The handlers use the vault only as EvidenceVault says: every behaviour  *)
(* of theirs is one of its appends, failures and idle steps, so that what  *)
(* is proved of the vault holds for them.                                  *)
ImplementsVault == Vault!Spec

(* The chain as the evidence of all these rows leaves it: every record     *)
(* links to GENESIS_HASH or to an older record that is still there, and,   *)
(* if no two handlers ever appended at a time, to the one right before.    *)
ChainKept == Vault!LinksResolve /\ Vault!SerialChainLinear

(* "Upload evidence to transition a finding to CLOSED status" (docstring   *)
(* of upload_finding_evidence): its last commit leaves the finding closed. *)
UploadCloses ==
    [][\A h \in Handlers :
          handler[h].op = "upload" /\ handler[h].pc = "record" /\ Record(h)
              => finding'[handler[h].subject].status = "closed"]_vars
=============================================================================
