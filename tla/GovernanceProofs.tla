---------------------------- MODULE GovernanceProofs ----------------------------
(***************************************************************************)
(* Proofs about Governance.  A step of the platform is a step of one part, *)
(* so each invariant concerns one part only, and the constants of all.     *)
(***************************************************************************)
EXTENDS Governance, FiniteSetTheorems, TLAPS

-----------------------------------------------------------------------------
(* A step of the platform is, for each part, a step of it or none.         *)
LEMMA ApprovalsMove ==
    [GovernanceNext]_governanceVars
        => [Approval!ApprovalsNext]_approvals /\ UNCHANGED focus
BY DEF GovernanceNext, governanceVars, requests, outside, approvals

LEMMA LoginsMove ==
    [GovernanceNext]_governanceVars => [Login!SessionsNext]_logins
BY DEF GovernanceNext, governanceVars, requests, outside, logins

LEMMA SessionsMove ==
    [GovernanceNext]_governanceVars => [Session!TokensNext]_sessions
BY DEF GovernanceNext, governanceVars, requests, outside, sessions

LEMMA ConnectionsMove ==
    [GovernanceNext]_governanceVars => [Connections!IntegrationsNext]_connections
BY DEF GovernanceNext, governanceVars, requests, outside, connections

LEMMA EvidenceMoves ==
    [GovernanceNext]_governanceVars => [Collecting!CollectorsNext]_evidence
BY DEF GovernanceNext, governanceVars, requests, outside, evidence

-----------------------------------------------------------------------------
(* What somebody has to sign                                               *)

SignedRows == [status: Approval!Statuses, approved_by: Users \cup {Approval!NoUser},
               responses: 0..MaxVersions]
SignedRequests ==
    [op: {"idle", "approve", "implement", "update", "put", "fill", "submit", "sign",
          "reject"},
     loaded: SignedRows, new: SignedRows]

ApprovalTypes ==
    /\ document \in {"change", "treatment", "answers"}
    /\ row \in SignedRows /\ approving \in [Requests -> SignedRequests]
    /\ version \in 0..MaxVersions /\ signed \in 0..MaxVersions
    /\ implemented \in BOOLEAN /\ skipped \in BOOLEAN /\ excused \in BOOLEAN
    /\ seeded \in BOOLEAN

(* A change that is approved or implemented bears a name, and a name that  *)
(* was loaded is never taken away again.                                   *)
Named(r) == r.status \in {"approved", "implemented"} => r.approved_by # Approval!NoUser

ChangeRequest(r) ==
    /\ r.op \in {"idle", "approve", "implement"}
    /\ r.op = "approve" => /\ r.new.status = "approved" /\ r.new.approved_by \in Users
                           /\ r.loaded.status # "implemented"
    /\ r.op = "implement" => /\ r.new.status = "implemented"
                             /\ r.loaded.status = "approved"
                             /\ r.new.approved_by = r.loaded.approved_by
                             /\ r.loaded.approved_by # Approval!NoUser
    /\ r.op # "idle" /\ r.loaded.approved_by # Approval!NoUser
          => row.approved_by # Approval!NoUser

ChangeInv ==
    /\ Named(row)
    /\ implemented => row.status = "implemented" \/ excused
    /\ \A h \in Requests : ChangeRequest(approving[h])

(* A plan that is not a draft and has no name is explained by skipped or   *)
(* seeded; so are the rows that were loaded.                               *)
PlanStatuses == {"draft", "approved", "in_progress", "completed"}
Explained(r) ==
    r.status \in PlanStatuses \ {"draft"} /\ r.approved_by = Approval!NoUser
        => skipped \/ seeded

PlanRequest(r) ==
    /\ r.op \in {"idle", "update"}
    /\ r.op = "update" =>
         /\ r.new.status \in PlanStatuses /\ r.loaded.status \in PlanStatuses
         /\ IF r.new.status = "approved" /\ r.loaded.status = "draft"
              THEN r.new.approved_by \in Users
              ELSE r.new.approved_by = r.loaded.approved_by
         /\ Explained(r.loaded)
         /\ r.loaded.approved_by # Approval!NoUser => row.approved_by # Approval!NoUser
         /\ row.status # "absent"

TreatmentInv ==
    /\ ~implemented
    /\ row.status \in {"absent"} \cup PlanStatuses
    /\ row.status = "absent" => row = Approval!Absent
    /\ Explained(row)
    /\ \A h \in Requests : PlanRequest(approving[h])

(* Only signing approves answers, and it signs what it has loaded.         *)
AnswersRequest(r) ==
    /\ r.op \in {"idle", "put", "fill", "submit", "sign", "reject"}
    /\ r.loaded.status # "implemented" /\ r.new.status # "implemented"
    /\ r.op \in {"fill", "submit", "reject"} => r.new.status # "approved"
    /\ r.op = "sign" => /\ r.new.status = "approved" /\ r.new.approved_by \in Users
                        /\ r.new.responses = r.loaded.responses

AnswersInv ==
    /\ ~implemented
    /\ row.status # "implemented"
    /\ row.status = "approved" /\ ~excused
          => row.approved_by # Approval!NoUser /\ row.responses = signed
    /\ \A h \in Requests : AnswersRequest(approving[h])

ApprovalInv ==
    /\ ApprovalTypes
    /\ document = "change" => ChangeInv
    /\ document = "treatment" => TreatmentInv
    /\ document = "answers" => AnswersInv

LEMMA ApprovalInitially == GovernanceInit => ApprovalInv
<1> SUFFICES ASSUME GovernanceInit PROVE ApprovalInv
  OBVIOUS
<1>1. Approval!ApprovalsInit /\ MaxVersions \in Nat
  BY GovernanceAssumption DEF GovernanceInit
<1>2. Approval!Absent \in SignedRows
  BY <1>1 DEF Approval!Absent, SignedRows, Approval!Statuses, Approval!NoUser
<1>3. row \in SignedRows
  BY <1>1, <1>2 DEF Approval!ApprovalsInit, Approval!Absent, SignedRows,
     Approval!Statuses
<1>4. Approval!Resting \in SignedRequests
  BY <1>2 DEF Approval!Resting, SignedRequests
<1>5. approving \in [Requests -> SignedRequests]
  BY <1>1, <1>4 DEF Approval!ApprovalsInit
<1>6. version \in 0..MaxVersions /\ signed \in 0..MaxVersions
  BY <1>1 DEF Approval!ApprovalsInit
<1>7. /\ implemented \in BOOLEAN /\ skipped \in BOOLEAN /\ excused \in BOOLEAN
      /\ seeded \in BOOLEAN
  BY <1>1, Zenon DEF Approval!ApprovalsInit
<1>8. document \in {"change", "treatment", "answers"}
  BY <1>1 DEF Approval!ApprovalsInit
<1>9. ApprovalTypes
  BY <1>3, <1>5, <1>6, <1>7, <1>8, Zenon DEF ApprovalTypes
<1>10. document = "change" => ChangeInv
  BY <1>1 DEF Approval!ApprovalsInit, ChangeInv, Named, ChangeRequest,
     Approval!Resting, Approval!Absent, Approval!NoUser
<1>11. document = "treatment" => TreatmentInv
  BY <1>1 DEF Approval!ApprovalsInit, TreatmentInv, Explained, PlanStatuses,
     PlanRequest, Approval!Resting, Approval!Absent, Approval!NoUser
<1>12. document = "answers" => AnswersInv
  BY <1>1 DEF Approval!ApprovalsInit, AnswersInv, AnswersRequest, Approval!Resting,
     Approval!Absent, Approval!NoUser
<1> QED BY <1>9, <1>10, <1>11, <1>12 DEF ApprovalInv

(* What a request is after its row was loaded.                             *)
LEMMA LoadTypes ==
    ASSUME ApprovalTypes, NEW h \in Requests, NEW k, NEW op, NEW new \in SignedRows,
           Approval!Load(h, k, op, new),
           op \in {"approve", "implement", "update", "put", "fill", "submit", "sign",
                   "reject"}
    PROVE  /\ approving' \in [Requests -> SignedRequests]
           /\ approving'[h] = [op |-> op, loaded |-> row, new |-> new]
           /\ \A g \in Requests \ {h} : approving'[g] = approving[g]
<1>1. approving \in [Requests -> SignedRequests] /\ row \in SignedRows
  BY DEF ApprovalTypes
<1>2. approving' = [approving EXCEPT ![h] = [op |-> op, loaded |-> row, new |-> new]]
  BY DEF Approval!Load
<1>3. [op |-> op, loaded |-> row, new |-> new] \in SignedRequests
  BY <1>1 DEF SignedRequests
<1> QED BY <1>1, <1>2, <1>3

(* A commit writes what the request has changed, and leaves the rest.      *)
LEMMA CommitRow ==
    ASSUME ApprovalTypes, NEW h \in Requests, Approval!Commit(h)
    PROVE  LET r == approving[h] IN
           /\ row' \in SignedRows
           /\ row'.status = IF r.new.status # r.loaded.status THEN r.new.status
                                                            ELSE row.status
           /\ row'.approved_by = IF r.new.approved_by # r.loaded.approved_by
                                   THEN r.new.approved_by ELSE row.approved_by
           /\ row'.responses = IF r.new.responses # r.loaded.responses
                                 THEN r.new.responses ELSE row.responses
           /\ approving' \in [Requests -> SignedRequests]
           /\ approving'[h] = Approval!Resting
           /\ \A g \in Requests \ {h} : approving'[g] = approving[g]
<1> DEFINE r == approving[h]
<1>1. /\ r \in SignedRequests /\ row \in SignedRows
      /\ approving \in [Requests -> SignedRequests] /\ MaxVersions \in Nat
  BY GovernanceAssumption DEF ApprovalTypes
<1>2. r.new \in SignedRows /\ r.loaded \in SignedRows
  BY <1>1 DEF SignedRequests
<1>3. row' = [c \in {"status", "approved_by", "responses"} |->
                 IF r.new[c] # r.loaded[c] THEN r.new[c] ELSE row[c]]
  BY DEF Approval!Commit, Approval!Columns
<1>4. /\ row'.status = IF r.new.status # r.loaded.status THEN r.new.status
                                                         ELSE row.status
      /\ row'.approved_by = IF r.new.approved_by # r.loaded.approved_by
                              THEN r.new.approved_by ELSE row.approved_by
      /\ row'.responses = IF r.new.responses # r.loaded.responses
                            THEN r.new.responses ELSE row.responses
  BY <1>3
<1>5. row' \in SignedRows
  BY <1>1, <1>2, <1>3, <1>4 DEF SignedRows
<1>6. approving' = [approving EXCEPT ![h] = Approval!Resting]
  BY DEF Approval!Commit
<1>7. Approval!Resting \in SignedRequests
  BY <1>1 DEF Approval!Resting, Approval!Absent, SignedRequests, SignedRows,
     Approval!Statuses, Approval!NoUser
<1> QED BY <1>1, <1>4, <1>5, <1>6, <1>7

LEMMA ChangeCommits ==
    ASSUME ApprovalTypes, document = "change", ChangeInv,
           NEW h \in Requests, Approval!Commit(h)
    PROVE  ChangeInv'
<1> DEFINE r == approving[h]
<1>1. /\ row'.status = IF r.new.status # r.loaded.status THEN r.new.status
                                                         ELSE row.status
      /\ row'.approved_by = IF r.new.approved_by # r.loaded.approved_by
                              THEN r.new.approved_by ELSE row.approved_by
      /\ approving'[h] = Approval!Resting
      /\ \A g \in Requests \ {h} : approving'[g] = approving[g]
  BY CommitRow
<1>2. ChangeRequest(r) /\ r.op \in {"approve", "implement"} /\ Named(row)
  BY DEF ChangeInv, ChangeRequest, Approval!Commit
<1>3. Approval!NoUser \notin Users
  BY GovernanceAssumption DEF Approval!NoUser
<1>4. row'.approved_by # Approval!NoUser
  BY <1>1, <1>2, <1>3 DEF ChangeRequest
<1>5. Named(row')
  BY <1>4 DEF Named
<1>6. (implemented => row.status = "implemented" \/ excused)'
  <2>1. implemented' = (implemented \/ r.op = "implement")
    BY DEF Approval!Commit
  <2>2. CASE r.op = "implement"
    BY <1>1, <1>2, <2>2 DEF ChangeRequest
  <2>3. CASE r.op = "approve"
    <3>1. row = r.loaded => (excused => excused')
      BY <2>3 DEF Approval!Commit
    <3>2. row # r.loaded => excused' = TRUE
      BY DEF Approval!Commit
    <3>3. row = r.loaded => row.status # "implemented"
      BY <1>2, <2>3 DEF ChangeRequest
    <3> QED BY <2>1, <2>3, <3>1, <3>2, <3>3 DEF ChangeInv
  <2> QED BY <1>2, <2>2, <2>3
<1>7. \A g \in Requests : ChangeRequest(approving[g])'
  <2> SUFFICES ASSUME NEW g \in Requests PROVE ChangeRequest(approving[g])'
    OBVIOUS
  <2>1. CASE g = h
    BY <1>1, <2>1 DEF ChangeRequest, Approval!Resting
  <2>2. CASE g # h
    BY <1>1, <1>4, <2>2 DEF ChangeRequest, ChangeInv
  <2> QED BY <2>1, <2>2
<1> QED BY <1>5, <1>6, <1>7 DEF ChangeInv, Named

LEMMA ChangeLoads ==
    ASSUME ApprovalTypes, document = "change", ChangeInv, NEW h \in Requests, NEW op,
           NEW new \in SignedRows, Approval!Load(h, "change", op, new),
           op \in {"approve", "implement"},
           op = "approve" => /\ new.status = "approved" /\ new.approved_by \in Users
                             /\ row.status # "implemented",
           op = "implement" => /\ new.status = "implemented" /\ row.status = "approved"
                               /\ new.approved_by = row.approved_by
    PROVE  ChangeInv'
<1>1. /\ approving'[h] = [op |-> op, loaded |-> row, new |-> new]
      /\ \A g \in Requests \ {h} : approving'[g] = approving[g]
  BY LoadTypes
<1>2. UNCHANGED <<row, implemented, excused>>
  BY DEF Approval!Load, Approval!flags
<1>3. ChangeRequest(approving[h])'
  BY <1>1, <1>2 DEF ChangeRequest, ChangeInv, Named
<1>4. \A g \in Requests \ {h} : ChangeRequest(approving[g])'
  BY <1>1, <1>2 DEF ChangeRequest, ChangeInv
<1> QED BY <1>2, <1>3, <1>4 DEF ChangeInv, Named

LEMMA PlanCommits ==
    ASSUME ApprovalTypes, document = "treatment", TreatmentInv,
           NEW h \in Requests, Approval!Commit(h)
    PROVE  TreatmentInv'
<1> DEFINE r == approving[h]
<1>1. /\ row'.status = IF r.new.status # r.loaded.status THEN r.new.status
                                                         ELSE row.status
      /\ row'.approved_by = IF r.new.approved_by # r.loaded.approved_by
                              THEN r.new.approved_by ELSE row.approved_by
      /\ approving'[h] = Approval!Resting
      /\ \A g \in Requests \ {h} : approving'[g] = approving[g]
  BY CommitRow
<1>2. PlanRequest(r) /\ r.op = "update"
  BY DEF TreatmentInv, PlanRequest, Approval!Commit
<1>3. Approval!NoUser \notin Users
  BY GovernanceAssumption DEF Approval!NoUser
<1>4. row'.status \in PlanStatuses
  BY <1>1, <1>2 DEF PlanRequest, TreatmentInv, PlanStatuses
<1>5. implemented' = FALSE
  BY <1>2 DEF Approval!Commit, TreatmentInv
<1>6. skipped' = (skipped \/ (r.op = "update" /\ r.loaded.status = "draft"
                                /\ r.new.status \in {"in_progress", "completed"}))
      /\ seeded' = seeded
  BY DEF Approval!Commit
<1>7. row.approved_by # Approval!NoUser => row'.approved_by # Approval!NoUser
  BY <1>1, <1>2, <1>3 DEF PlanRequest
<1>8. Explained(row)'
  <2> SUFFICES ASSUME row'.status \in PlanStatuses \ {"draft"},
                      row'.approved_by = Approval!NoUser
               PROVE  skipped' \/ seeded'
    BY DEF Explained
  <2>1. row.approved_by = Approval!NoUser /\ r.new.approved_by = r.loaded.approved_by
        /\ r.loaded.approved_by = Approval!NoUser
    BY <1>1, <1>2, <1>3, <1>7 DEF PlanRequest
  <2>2. CASE r.new.status = r.loaded.status
    BY <1>1, <1>6, <2>1, <2>2 DEF TreatmentInv, Explained
  <2>3. CASE r.new.status # r.loaded.status
    <3>1. r.new.status \in PlanStatuses \ {"draft"}
      BY <1>1, <2>3
    <3>2. CASE r.loaded.status = "draft"
      BY <1>2, <1>3, <1>6, <2>1, <3>1, <3>2 DEF PlanRequest, PlanStatuses
    <3>3. CASE r.loaded.status # "draft"
      BY <1>2, <1>6, <2>1, <3>3 DEF PlanRequest, Explained
    <3> QED BY <3>2, <3>3
  <2> QED BY <2>2, <2>3
<1>9. \A g \in Requests : PlanRequest(approving[g])'
  <2> SUFFICES ASSUME NEW g \in Requests PROVE PlanRequest(approving[g])'
    OBVIOUS
  <2>1. CASE g = h
    BY <1>1, <2>1 DEF PlanRequest, Approval!Resting
  <2>2. CASE g # h
    BY <1>1, <1>4, <1>6, <1>7, <2>2
       DEF PlanRequest, TreatmentInv, Explained, PlanStatuses
  <2> QED BY <2>1, <2>2
<1>10. row'.status # "absent"
  BY <1>4 DEF PlanStatuses
<1> QED BY <1>4, <1>5, <1>8, <1>9, <1>10 DEF TreatmentInv

LEMMA PlanLoads ==
    ASSUME ApprovalTypes, document = "treatment", TreatmentInv, NEW h \in Requests,
           NEW new \in SignedRows, Approval!Load(h, "treatment", "update", new),
           new.status \in PlanStatuses,
           IF new.status = "approved" /\ row.status = "draft"
             THEN new.approved_by \in Users ELSE new.approved_by = row.approved_by
    PROVE  TreatmentInv'
<1>1. /\ approving'[h] = [op |-> "update", loaded |-> row, new |-> new]
      /\ \A g \in Requests \ {h} : approving'[g] = approving[g]
  BY LoadTypes
<1>2. UNCHANGED <<row, implemented, skipped, seeded>> /\ row # Approval!Absent
  BY DEF Approval!Load, Approval!flags
<1>3. row.status \in PlanStatuses /\ row.status # "absent"
  BY <1>2 DEF TreatmentInv
<1>4. PlanRequest(approving[h])'
  BY <1>1, <1>2, <1>3 DEF PlanRequest, TreatmentInv, Explained
<1>5. \A g \in Requests \ {h} : PlanRequest(approving[g])'
  BY <1>1, <1>2 DEF PlanRequest, TreatmentInv, Explained
<1> QED BY <1>2, <1>4, <1>5 DEF TreatmentInv, Explained

LEMMA AnswersCommit ==
    ASSUME ApprovalTypes, document = "answers", AnswersInv,
           NEW h \in Requests, Approval!Commit(h)
    PROVE  AnswersInv'
<1> DEFINE r == approving[h]
<1>1. /\ row'.status = IF r.new.status # r.loaded.status THEN r.new.status
                                                         ELSE row.status
      /\ row'.approved_by = IF r.new.approved_by # r.loaded.approved_by
                              THEN r.new.approved_by ELSE row.approved_by
      /\ row'.responses = IF r.new.responses # r.loaded.responses
                            THEN r.new.responses ELSE row.responses
      /\ approving'[h] = Approval!Resting
      /\ \A g \in Requests \ {h} : approving'[g] = approving[g]
  BY CommitRow
<1>2. AnswersRequest(r) /\ r.op \in {"put", "fill", "submit", "sign", "reject"}
  BY DEF AnswersInv, AnswersRequest, Approval!Commit
<1>3. Approval!NoUser \notin Users
  BY GovernanceAssumption DEF Approval!NoUser
<1>4. row'.status # "implemented" /\ ~implemented'
  BY <1>1, <1>2 DEF AnswersRequest, AnswersInv, Approval!Commit
<1>5. (row.status = "approved" /\ ~excused
          => row.approved_by # Approval!NoUser /\ row.responses = signed)'
  <2> SUFFICES ASSUME row'.status = "approved", ~excused'
               PROVE  row'.approved_by # Approval!NoUser /\ row'.responses = signed'
    OBVIOUS
  <2>1. row = r.loaded /\ r.op # "put" /\ (r.op # "sign" => ~excused)
    BY DEF Approval!Commit
  <2>2. /\ row'.status = r.new.status /\ row'.approved_by = r.new.approved_by
        /\ row'.responses = r.new.responses
    BY <1>1, <2>1
  <2>3. r.op = "sign"
    BY <1>2, <2>1, <2>2 DEF AnswersRequest
  <2>4. signed' = r.loaded.responses
    BY <2>3 DEF Approval!Commit
  <2> QED BY <1>2, <1>3, <2>2, <2>3, <2>4 DEF AnswersRequest
<1>6. \A g \in Requests : AnswersRequest(approving[g])'
  <2> SUFFICES ASSUME NEW g \in Requests PROVE AnswersRequest(approving[g])'
    OBVIOUS
  <2>1. CASE g = h
    BY <1>1, <2>1 DEF AnswersRequest, Approval!Resting, Approval!Absent
  <2>2. CASE g # h
    BY <1>1, <2>2 DEF AnswersRequest, AnswersInv
  <2> QED BY <2>1, <2>2
<1> QED BY <1>4, <1>5, <1>6 DEF AnswersInv

LEMMA AnswersLoad ==
    ASSUME ApprovalTypes, document = "answers", AnswersInv, NEW h \in Requests, NEW op,
           NEW new \in SignedRows, Approval!Load(h, "answers", op, new),
           op \in {"put", "fill", "submit", "sign", "reject"},
           new.status # "implemented",
           op \in {"fill", "submit", "reject"} => new.status # "approved",
           op = "sign" => /\ new.status = "approved" /\ new.approved_by \in Users
                          /\ new.responses = row.responses
    PROVE  AnswersInv'
<1>1. /\ approving'[h] = [op |-> op, loaded |-> row, new |-> new]
      /\ \A g \in Requests \ {h} : approving'[g] = approving[g]
  BY LoadTypes
<1>2. UNCHANGED <<row, implemented, excused, signed>>
  BY DEF Approval!Load, Approval!flags
<1>3. AnswersRequest(approving[h])'
  BY <1>1, <1>2 DEF AnswersRequest, AnswersInv
<1>4. \A g \in Requests \ {h} : AnswersRequest(approving[g])'
  BY <1>1, <1>2 DEF AnswersRequest, AnswersInv
<1> QED BY <1>2, <1>3, <1>4 DEF AnswersInv

LEMMA LoadKeepsTypes ==
    ASSUME ApprovalTypes, NEW h \in Requests, NEW k, NEW op, NEW new \in SignedRows,
           Approval!Load(h, k, op, new), version' \in 0..MaxVersions,
           op \in {"approve", "implement", "update", "put", "fill", "submit", "sign",
                   "reject"}
    PROVE  ApprovalTypes'
<1>1. approving' \in [Requests -> SignedRequests]
  BY LoadTypes
<1>2. UNCHANGED <<document, row, signed, implemented, skipped, seeded, excused>>
  BY DEF Approval!Load, Approval!flags
<1> QED BY <1>1, <1>2 DEF ApprovalTypes

LEMMA CommitKeepsTypes ==
    ASSUME ApprovalTypes, NEW h \in Requests, Approval!Commit(h)
    PROVE  ApprovalTypes'
<1>1. row' \in SignedRows /\ approving' \in [Requests -> SignedRequests]
  BY CommitRow
<1>2. UNCHANGED <<document, version, seeded>>
  BY DEF Approval!Commit
<1>3. signed' \in 0..MaxVersions
  BY DEF Approval!Commit, ApprovalTypes, SignedRequests, SignedRows
<1>4. implemented' \in BOOLEAN /\ skipped' \in BOOLEAN
  BY DEF Approval!Commit, ApprovalTypes
<1>5. excused' \in BOOLEAN
  BY DEF Approval!Commit, ApprovalTypes
<1> QED BY <1>1, <1>2, <1>3, <1>4, <1>5 DEF ApprovalTypes

LEMMA ApprovalStep == ApprovalInv /\ [Approval!ApprovalsNext]_approvals => ApprovalInv'
<1> SUFFICES ASSUME ApprovalInv, [Approval!ApprovalsNext]_approvals PROVE ApprovalInv'
  OBVIOUS
<1>0. /\ ApprovalTypes /\ row \in SignedRows /\ version \in 0..MaxVersions
      /\ MaxVersions \in Nat /\ Approval!NoUser = "none" /\ Approval!NoUser \notin Users
      /\ document \in {"change", "treatment", "answers"}
  BY GovernanceAssumption DEF ApprovalInv, ApprovalTypes, Approval!NoUser
<1> DEFINE Signing(status, user) == Approval!With(status, user)
<1>1. \A status \in Approval!Statuses, user \in Users \cup {"none"} :
        /\ Signing(status, user) \in SignedRows
        /\ Signing(status, user).status = status
        /\ Signing(status, user).approved_by = user
        /\ Signing(status, user).responses = row.responses
  BY <1>0 DEF Approval!With, SignedRows
<1> HIDE DEF Signing
<1>2. CASE Approval!Create
  <2>1. /\ row = Approval!Absent
        /\ row' = [row EXCEPT !.status = IF document = "change" THEN "pending_approval"
                                                               ELSE "draft"]
        /\ UNCHANGED <<document, approving, version, signed, implemented, skipped, seeded,
                       excused>>
    BY <1>2 DEF Approval!Create, Approval!flags
  <2>2. /\ row' \in SignedRows
        /\ row'.status = IF document = "change" THEN "pending_approval" ELSE "draft"
        /\ row'.approved_by = "none"
    BY <1>0, <2>1 DEF SignedRows, Approval!Statuses, Approval!Absent
  <2>3. ApprovalTypes'
    BY <1>0, <2>1, <2>2 DEF ApprovalTypes
  <2>4. row.status = "absent" /\ row.approved_by = "none"
    BY <1>0, <2>1 DEF Approval!Absent
  <2>5. CASE document = "change"
    BY <1>0, <2>1, <2>2, <2>3, <2>4, <2>5
       DEF ApprovalInv, ChangeInv, Named, ChangeRequest
  <2>6. CASE document = "treatment"
    <3>1. \A h \in Requests : PlanRequest(approving[h])'
      BY <1>0, <2>1, <2>2, <2>4, <2>6
         DEF ApprovalInv, TreatmentInv, PlanRequest, Explained
    <3> QED BY <1>0, <2>1, <2>2, <2>3, <2>6, <3>1
            DEF ApprovalInv, TreatmentInv, Explained, PlanStatuses
  <2>7. CASE document = "answers"
    BY <1>0, <2>1, <2>2, <2>3, <2>7 DEF ApprovalInv, AnswersInv, AnswersRequest
  <2> QED BY <1>0, <2>5, <2>6, <2>7
<1>3. ASSUME NEW h \in Requests, Approval!Commit(h) PROVE ApprovalInv'
  <2>1. ApprovalTypes' /\ document' = document
    BY <1>0, <1>3, CommitKeepsTypes DEF Approval!Commit
  <2> QED BY <1>0, <1>3, <2>1, ChangeCommits, PlanCommits, AnswersCommit DEF ApprovalInv
<1>4. ASSUME NEW h \in Requests, Approval!Abort(h) PROVE ApprovalInv'
  <2>1. /\ approving' = [approving EXCEPT ![h] = Approval!Resting]
        /\ UNCHANGED <<document, row, version, signed, implemented, skipped, seeded,
                       excused>>
    BY <1>4 DEF Approval!Abort, Approval!flags
  <2>2. Approval!Resting \in SignedRequests
    BY <1>0 DEF Approval!Resting, Approval!Absent, SignedRequests, SignedRows,
       Approval!Statuses
  <2>3. /\ approving' \in [Requests -> SignedRequests]
        /\ approving'[h] = Approval!Resting
        /\ \A g \in Requests \ {h} : approving'[g] = approving[g]
    BY <1>0, <2>1, <2>2 DEF ApprovalTypes
  <2>4. ApprovalTypes'
    BY <1>0, <2>1, <2>3 DEF ApprovalTypes
  <2>5. CASE document = "change"
    <3>1. \A g \in Requests : ChangeRequest(approving[g])'
      BY <2>1, <2>3, <2>5 DEF ApprovalInv, ChangeInv, ChangeRequest, Approval!Resting
    <3> QED BY <2>1, <2>4, <2>5, <3>1 DEF ApprovalInv, ChangeInv, Named
  <2>6. CASE document = "treatment"
    <3>1. \A g \in Requests : PlanRequest(approving[g])'
      BY <2>1, <2>3, <2>6
         DEF ApprovalInv, TreatmentInv, PlanRequest, Approval!Resting, Explained
    <3> QED BY <2>1, <2>4, <2>6, <3>1 DEF ApprovalInv, TreatmentInv, Explained
  <2>7. CASE document = "answers"
    <3>1. \A g \in Requests : AnswersRequest(approving[g])'
      BY <2>1, <2>3, <2>7 DEF ApprovalInv, AnswersInv, AnswersRequest,
         Approval!Resting, Approval!Absent
    <3> QED BY <2>1, <2>4, <2>7, <3>1 DEF ApprovalInv, AnswersInv
  <2> QED BY <1>0, <2>5, <2>6, <2>7
<1>5. ASSUME NEW h \in Requests, Approval!ImplementChange(h) PROVE ApprovalInv'
  <2> DEFINE new == Signing("implemented", row.approved_by)
  <2>1. /\ row.status = "approved" /\ Approval!Load(h, "change", "implement", new)
        /\ version' = version
    BY <1>5 DEF Approval!ImplementChange, Signing
  <2>2. row.approved_by \in Users \cup {"none"} /\ "implemented" \in Approval!Statuses
    BY <1>0 DEF SignedRows, Approval!Statuses
  <2>3. /\ new \in SignedRows /\ new.status = "implemented"
        /\ new.approved_by = row.approved_by
    BY <1>1, <2>2
  <2> HIDE DEF new
  <2>4. document = "change" /\ document' = document
    BY <2>1 DEF Approval!Load
  <2>5. ChangeInv'
    BY <1>0, <2>1, <2>3, <2>4, ChangeLoads DEF ApprovalInv
  <2>6. ApprovalTypes'
    BY <1>0, <2>1, <2>3, LoadKeepsTypes
  <2> QED BY <2>4, <2>5, <2>6 DEF ApprovalInv
<1>6. ASSUME NEW h \in Requests, NEW u \in Users, Approval!ApproveChange(h, u)
      PROVE  ApprovalInv'
  <2> DEFINE new == Signing("approved", u)
  <2>1. /\ row.status # "implemented" /\ Approval!Load(h, "change", "approve", new)
        /\ version' = version
    BY <1>6 DEF Approval!ApproveChange, Signing
  <2>2. new \in SignedRows /\ new.status = "approved" /\ new.approved_by \in Users
    BY <1>1 DEF Approval!Statuses
  <2> HIDE DEF new
  <2>3. document = "change" /\ document' = document
    BY <2>1 DEF Approval!Load
  <2>4. ChangeInv'
    BY <1>0, <2>1, <2>2, <2>3, ChangeLoads DEF ApprovalInv
  <2>5. ApprovalTypes'
    BY <1>0, <2>1, <2>2, LoadKeepsTypes
  <2> QED BY <2>3, <2>4, <2>5 DEF ApprovalInv
<1>7. ASSUME NEW h \in Requests, NEW u \in Users,
             NEW status \in {"draft", "approved", "in_progress", "completed"},
             Approval!UpdateTreatment(h, u, status)
      PROVE  ApprovalInv'
  <2> DEFINE who == IF status = "approved" /\ row.status = "draft" THEN u
                                                                  ELSE row.approved_by
             new == Signing(status, who)
  <2>1. Approval!Load(h, "treatment", "update", new) /\ version' = version
    BY <1>7 DEF Approval!UpdateTreatment, Signing
  <2>2. who \in Users \cup {"none"} /\ status \in Approval!Statuses
    BY <1>0 DEF SignedRows, Approval!Statuses
  <2>3. new \in SignedRows /\ new.status = status /\ new.approved_by = who
    BY <1>1, <2>2
  <2>4. /\ new.status \in PlanStatuses
        /\ IF new.status = "approved" /\ row.status = "draft"
             THEN new.approved_by \in Users ELSE new.approved_by = row.approved_by
    BY <2>3 DEF PlanStatuses
  <2> HIDE DEF new
  <2>5. document = "treatment" /\ document' = document
    BY <2>1 DEF Approval!Load
  <2>6. TreatmentInv'
    BY <1>0, <2>1, <2>3, <2>4, <2>5, PlanLoads DEF ApprovalInv
  <2>7. ApprovalTypes'
    BY <1>0, <2>1, <2>3, LoadKeepsTypes
  <2> QED BY <2>5, <2>6, <2>7 DEF ApprovalInv
<1>8. ASSUME NEW h \in Requests, NEW op, NEW new \in SignedRows,
             Approval!Load(h, "answers", op, new), version' \in 0..MaxVersions,
             op \in {"put", "fill", "submit", "sign", "reject"},
             op = "put" => new.status = row.status,
             op \in {"fill", "submit", "reject"} =>
                 new.status \notin {"approved", "implemented"},
             op = "sign" => /\ new.status = "approved" /\ new.approved_by \in Users
                            /\ new.responses = row.responses
      PROVE  ApprovalInv'
  <2>1. document = "answers" /\ document' = document
    BY <1>8 DEF Approval!Load
  <2>2. new.status # "implemented"
    BY <1>8, <2>1 DEF ApprovalInv, AnswersInv
  <2>3. AnswersInv'
    BY <1>0, <1>8, <2>1, <2>2, AnswersLoad DEF ApprovalInv
  <2>4. ApprovalTypes'
    BY <1>0, <1>8, LoadKeepsTypes
  <2> QED BY <2>1, <2>3, <2>4 DEF ApprovalInv
<1>9. ASSUME NEW h \in Requests, Approval!PutProfile(h) \/ Approval!AutoFill(h)
      PROVE  ApprovalInv'
  <2>1. version' = version + 1 /\ version < MaxVersions
    BY <1>9 DEF Approval!PutProfile, Approval!AutoFill, Approval!Rewrite
  <2>2. version' \in 0..MaxVersions /\ version + 1 \in 0..MaxVersions
    BY <1>0, <2>1
  <2>3. CASE Approval!PutProfile(h)
    <3> DEFINE new == [status |-> row.status, approved_by |-> row.approved_by,
                       responses |-> version + 1]
    <3>1. Approval!Load(h, "answers", "put", new)
      BY <2>3 DEF Approval!PutProfile, Approval!Rewrite
    <3>2. new \in SignedRows /\ new.status = row.status
      BY <1>0, <2>2 DEF SignedRows
    <3> HIDE DEF new
    <3> QED BY <1>8, <2>2, <3>1, <3>2
  <2>4. CASE Approval!AutoFill(h)
    <3> DEFINE new == [status |-> "draft", approved_by |-> Approval!NoUser,
                       responses |-> version + 1]
    <3>1. Approval!Load(h, "answers", "fill", new)
      BY <2>4 DEF Approval!AutoFill, Approval!Rewrite
    <3>2. new \in SignedRows /\ new.status = "draft"
      BY <2>2 DEF SignedRows, Approval!Statuses
    <3> HIDE DEF new
    <3> QED BY <1>8, <2>2, <3>1, <3>2
  <2> QED BY <1>9, <2>3, <2>4
<1>10. ASSUME NEW h \in Requests, Approval!Submit(h) PROVE ApprovalInv'
  <2> DEFINE new == Signing("pending_approval", "none")
  <2>1. Approval!Load(h, "answers", "submit", new) /\ version' = version
    BY <1>0, <1>10 DEF Approval!Submit, Signing
  <2>2. new \in SignedRows /\ new.status = "pending_approval"
    BY <1>1 DEF Approval!Statuses
  <2> HIDE DEF new
  <2> QED BY <1>0, <1>8, <2>1, <2>2
<1>11. ASSUME NEW h \in Requests, NEW u \in Users, Approval!ApproveAnswers(h, u)
       PROVE  ApprovalInv'
  <2> DEFINE new == Signing("approved", u)
  <2>1. Approval!Load(h, "answers", "sign", new) /\ version' = version
    BY <1>11 DEF Approval!ApproveAnswers, Signing
  <2>2. /\ new \in SignedRows /\ new.status = "approved" /\ new.approved_by \in Users
        /\ new.responses = row.responses
    BY <1>1 DEF Approval!Statuses
  <2> HIDE DEF new
  <2> QED BY <1>0, <1>8, <2>1, <2>2
<1>12. ASSUME NEW h \in Requests, NEW u \in Users, Approval!RejectAnswers(h, u)
       PROVE  ApprovalInv'
  <2> DEFINE new == Signing("rejected", u)
  <2>1. Approval!Load(h, "answers", "reject", new) /\ version' = version
    BY <1>12 DEF Approval!RejectAnswers, Signing
  <2>2. new \in SignedRows /\ new.status = "rejected"
    BY <1>1 DEF Approval!Statuses
  <2> HIDE DEF new
  <2> QED BY <1>0, <1>8, <2>1, <2>2
<1>13. ASSUME NEW status \in {"in_progress", "approved", "completed"},
              Approval!SeedTreatment(status)
       PROVE  ApprovalInv'
  <2>1. /\ document = "treatment" /\ row = Approval!Absent
        /\ row' = [row EXCEPT !.status = status] /\ seeded' = TRUE
        /\ UNCHANGED <<document, approving, version, signed, implemented, skipped,
                       excused>>
    BY <1>13 DEF Approval!SeedTreatment
  <2>2. row' \in SignedRows /\ row'.status = status /\ row'.approved_by = "none"
    BY <1>0, <2>1 DEF SignedRows, Approval!Statuses, Approval!Absent
  <2>3. ApprovalTypes'
    BY <1>0, <2>1, <2>2 DEF ApprovalTypes
  <2>4. row.status = "absent" /\ row.approved_by = "none"
    BY <1>0, <2>1 DEF Approval!Absent
  <2>5. \A h \in Requests : PlanRequest(approving[h])'
    BY <1>0, <2>1, <2>2, <2>4 DEF ApprovalInv, TreatmentInv, PlanRequest, Explained
  <2> QED BY <1>0, <2>1, <2>2, <2>3, <2>5
          DEF ApprovalInv, TreatmentInv, Explained, PlanStatuses
<1>14. CASE UNCHANGED approvals
  BY <1>14 DEF approvals, ApprovalInv, ApprovalTypes, ChangeInv, Named, ChangeRequest,
     TreatmentInv, Explained, PlanRequest, AnswersInv, AnswersRequest
<1> QED BY <1>2, <1>3, <1>4, <1>5, <1>6, <1>7, <1>9, <1>10, <1>11, <1>12, <1>13, <1>14
        DEF Approval!ApprovalsNext

(* SignOffKept: what bears a signature is what was signed.                 *)
THEOREM WhatIsSignedOffStays == GovernanceSpec => []SignOffKept
<1>1. GovernanceInit => ApprovalInv
  BY ApprovalInitially
<1>2. ApprovalInv /\ [GovernanceNext]_governanceVars => ApprovalInv'
  BY ApprovalStep, ApprovalsMove
<1>3. ApprovalInv => SignOffKept
  <2> SUFFICES ASSUME ApprovalInv PROVE SignOffKept
    OBVIOUS
  <2>1. document \in {"change", "treatment", "answers"}
    BY DEF ApprovalInv, ApprovalTypes
  <2>2. CASE document = "change"
    BY <2>2 DEF ApprovalInv, ChangeInv, Named, SignOffKept, Approval!SignOffKept
  <2>3. CASE document = "treatment"
    BY <2>3 DEF ApprovalInv, TreatmentInv, Explained, PlanStatuses, SignOffKept,
       Approval!SignOffKept
  <2>4. CASE document = "answers"
    BY <2>4 DEF ApprovalInv, AnswersInv, SignOffKept, Approval!SignOffKept
  <2> QED BY <2>1, <2>2, <2>3, <2>4
<1> QED BY <1>1, <1>2, <1>3, PTL DEF GovernanceSpec

-----------------------------------------------------------------------------
(* Signing in: the lock                                                    *)

LoginStates == [at: {"idle", "select", "incr", "expire", "lock", "clear"},
                count: 0..MaxGuesses]

(* The next step but one of such a login is to lock the account.           *)
WillLock(l) == l.at \in {"expire", "lock"} /\ l.count >= Threshold

(* Such a login has passed the lock and may yet count a failure.           *)
MayCount(l) == l.at \in {"select", "incr"}

Locking(all) == {h \in Logins : WillLock(all[h])}
Counting(all) == {h \in Logins : MayCount(all[h])}

LoginBooleans == expires \in BOOLEAN /\ locked \in BOOLEAN

LoginTypes ==
    /\ LoginBooleans
    /\ counter \in Nat
    /\ login \in [Logins -> LoginStates]
    /\ guesses \in Nat /\ total \in 0..MaxGuesses /\ deaths \in 0..MaxDeaths
    /\ guesses <= counter /\ counter <= total
    /\ expires => counter > 0

(* While the account is not locked, whoever counts past the threshold is   *)
(* about to lock it, or has died; once it is locked, only those count who  *)
(* had passed the lock before.                                             *)
LoginInv ==
    /\ LoginTypes
    /\ \A h \in Logins : login[h].at = "lock" => login[h].count >= Threshold
    /\ ~locked => guesses <= Threshold - 1 + Cardinality(Locking(login)) + deaths
    /\ locked => guesses + Cardinality(Counting(login))
                    <= Threshold - 1 + Cardinality(Logins) + deaths

(* The sets of logins are finite and disjoint.                             *)
LEMMA LoginSets ==
    ASSUME NEW all
    PROVE  /\ IsFiniteSet(Locking(all)) /\ IsFiniteSet(Counting(all))
           /\ Cardinality(Locking(all)) \in Nat /\ Cardinality(Counting(all)) \in Nat
           /\ Cardinality(Logins) \in Nat
           /\ Cardinality(Counting(all)) <= Cardinality(Logins)
           /\ Cardinality(Locking(all)) + Cardinality(Counting(all))
                 <= Cardinality(Logins)
<1>1. IsFiniteSet(Logins)
  BY GovernanceAssumption
<1>2. Locking(all) \subseteq Logins /\ Counting(all) \subseteq Logins
  BY DEF Locking, Counting
<1>3. /\ IsFiniteSet(Locking(all)) /\ Cardinality(Locking(all)) <= Cardinality(Logins)
      /\ IsFiniteSet(Counting(all)) /\ Cardinality(Counting(all)) <= Cardinality(Logins)
  BY <1>1, <1>2, FS_Subset
<1>4. /\ Cardinality(Locking(all)) \in Nat /\ Cardinality(Counting(all)) \in Nat
      /\ Cardinality(Logins) \in Nat
  BY <1>1, <1>3, FS_CardinalityType
<1>5. Locking(all) \cap Counting(all) = {}
  BY DEF Locking, Counting, WillLock, MayCount
<1>6. Cardinality(Locking(all) \cap Counting(all)) = 0
  BY <1>5, FS_EmptySet
<1>7. Cardinality(Locking(all) \cup Counting(all))
        = Cardinality(Locking(all)) + Cardinality(Counting(all))
  <2>1. Cardinality(Locking(all) \cup Counting(all))
          = Cardinality(Locking(all)) + Cardinality(Counting(all))
              - Cardinality(Locking(all) \cap Counting(all))
    BY <1>3, FS_Union
  <2> QED BY <1>4, <1>6, <2>1
<1>8. Locking(all) \cup Counting(all) \subseteq Logins
  BY <1>2
<1>9. Cardinality(Locking(all) \cup Counting(all)) <= Cardinality(Logins)
  BY <1>1, <1>8, FS_Subset
<1> QED BY <1>3, <1>4, <1>7, <1>9

(* What the step of one login does to the sets.                            *)
LEMMA LoginMoves ==
    ASSUME login \in [Logins -> LoginStates], NEW h \in Logins, NEW e \in LoginStates,
           login' = [login EXCEPT ![h] = e]
    PROVE  /\ login' \in [Logins -> LoginStates] /\ login'[h] = e
           /\ \A g \in Logins \ {h} : login'[g] = login[g]
           /\ Cardinality(Locking(login')) =
                Cardinality(Locking(login))
                  + (IF WillLock(e) THEN IF WillLock(login[h]) THEN 0 ELSE 1
                                    ELSE IF WillLock(login[h]) THEN -1 ELSE 0)
           /\ Cardinality(Counting(login')) =
                Cardinality(Counting(login))
                  + (IF MayCount(e) THEN IF MayCount(login[h]) THEN 0 ELSE 1
                                    ELSE IF MayCount(login[h]) THEN -1 ELSE 0)
<1>1. /\ login' \in [Logins -> LoginStates] /\ login'[h] = e
      /\ \A g \in Logins \ {h} : login'[g] = login[g]
  OBVIOUS
<1>2. /\ IsFiniteSet(Locking(login)) /\ Cardinality(Locking(login)) \in Nat
      /\ IsFiniteSet(Counting(login)) /\ Cardinality(Counting(login)) \in Nat
  BY LoginSets
<1>3. /\ (h \in Locking(login)) <=> WillLock(login[h])
      /\ (h \in Counting(login)) <=> MayCount(login[h])
  BY DEF Locking, Counting
<1>4. /\ Cardinality(Locking(login) \cup {h}) =
           IF WillLock(login[h]) THEN Cardinality(Locking(login))
                                 ELSE Cardinality(Locking(login)) + 1
      /\ Cardinality(Counting(login) \cup {h}) =
           IF MayCount(login[h]) THEN Cardinality(Counting(login))
                                 ELSE Cardinality(Counting(login)) + 1
  BY <1>2, <1>3, FS_AddElement
<1>5. /\ Cardinality(Locking(login) \ {h}) =
           IF WillLock(login[h]) THEN Cardinality(Locking(login)) - 1
                                 ELSE Cardinality(Locking(login))
      /\ Cardinality(Counting(login) \ {h}) =
           IF MayCount(login[h]) THEN Cardinality(Counting(login)) - 1
                                 ELSE Cardinality(Counting(login))
  BY <1>2, <1>3, FS_RemoveElement
<1>6. /\ WillLock(e) => Locking(login') = Locking(login) \cup {h}
      /\ ~WillLock(e) => Locking(login') = Locking(login) \ {h}
  BY <1>1 DEF Locking
<1>7. /\ MayCount(e) => Counting(login') = Counting(login) \cup {h}
      /\ ~MayCount(e) => Counting(login') = Counting(login) \ {h}
  BY <1>1 DEF Counting
<1>8. Cardinality(Locking(login')) =
        Cardinality(Locking(login))
          + (IF WillLock(e) THEN IF WillLock(login[h]) THEN 0 ELSE 1
                            ELSE IF WillLock(login[h]) THEN -1 ELSE 0)
  <2>1. CASE WillLock(e)
    <3>1. Cardinality(Locking(login')) = Cardinality(Locking(login) \cup {h})
      BY <1>6, <2>1
    <3>2. WillLock(login[h]) => Cardinality(Locking(login')) = Cardinality(Locking(login))
      BY <1>4, <3>1
    <3>3. ~WillLock(login[h]) => Cardinality(Locking(login')) = Cardinality(Locking(login)) + 1
      BY <1>4, <3>1
    <3> QED BY <1>2, <2>1, <3>2, <3>3
  <2>2. CASE ~WillLock(e)
    <3>1. Cardinality(Locking(login')) = Cardinality(Locking(login) \ {h})
      BY <1>6, <2>2
    <3>2. WillLock(login[h]) => Cardinality(Locking(login')) = Cardinality(Locking(login)) - 1
      BY <1>5, <3>1
    <3>3. ~WillLock(login[h]) => Cardinality(Locking(login')) = Cardinality(Locking(login))
      BY <1>5, <3>1
    <3> QED BY <1>2, <2>2, <3>2, <3>3
  <2> QED BY <2>1, <2>2
<1>9. Cardinality(Counting(login')) =
        Cardinality(Counting(login))
          + (IF MayCount(e) THEN IF MayCount(login[h]) THEN 0 ELSE 1
                            ELSE IF MayCount(login[h]) THEN -1 ELSE 0)
  <2>1. CASE MayCount(e)
    <3>1. Cardinality(Counting(login')) = Cardinality(Counting(login) \cup {h})
      BY <1>7, <2>1
    <3>2. MayCount(login[h]) => Cardinality(Counting(login')) = Cardinality(Counting(login))
      BY <1>4, <3>1
    <3>3. ~MayCount(login[h]) => Cardinality(Counting(login')) = Cardinality(Counting(login)) + 1
      BY <1>4, <3>1
    <3> QED BY <1>2, <2>1, <3>2, <3>3
  <2>2. CASE ~MayCount(e)
    <3>1. Cardinality(Counting(login')) = Cardinality(Counting(login) \ {h})
      BY <1>7, <2>2
    <3>2. MayCount(login[h]) => Cardinality(Counting(login')) = Cardinality(Counting(login)) - 1
      BY <1>5, <3>1
    <3>3. ~MayCount(login[h]) => Cardinality(Counting(login')) = Cardinality(Counting(login))
      BY <1>5, <3>1
    <3> QED BY <1>2, <2>2, <3>2, <3>3
  <2> QED BY <2>1, <2>2
<1> QED BY <1>1, <1>8, <1>9

LEMMA LoginInitially == GovernanceInit => LoginInv
<1> SUFFICES ASSUME GovernanceInit PROVE LoginInv
  OBVIOUS
<1>1. /\ counter = 0 /\ locked = FALSE /\ expires = FALSE
      /\ login = [h \in Logins |-> [at |-> "idle", count |-> 0]]
      /\ guesses = 0 /\ total = 0 /\ deaths = 0
  BY DEF GovernanceInit, Login!SessionsInit, Login!NoLogin
<1>2. /\ Threshold \in Nat \ {0} /\ MaxGuesses \in Nat /\ MaxDeaths \in Nat
  BY GovernanceAssumption
<1>3. LoginTypes
  <2>1. LoginBooleans
    BY <1>1, Zenon DEF LoginBooleans
  <2>2. login \in [Logins -> LoginStates]
    BY <1>1, <1>2 DEF LoginStates
  <2> QED BY <1>1, <1>2, <2>1, <2>2 DEF LoginTypes
<1>4. \A h \in Logins : login[h].at = "lock" => login[h].count >= Threshold
  BY <1>1
<1>5. Cardinality(Locking(login)) \in Nat
  BY LoginSets
<1>6. guesses <= Threshold - 1 + Cardinality(Locking(login)) + deaths
  BY <1>1, <1>2, <1>5
<1> QED BY <1>1, <1>3, <1>4, <1>6 DEF LoginInv

LEMMA LoginStep == LoginInv /\ [Login!SessionsNext]_logins => LoginInv'
<1> SUFFICES ASSUME LoginInv, [Login!SessionsNext]_logins PROVE LoginInv'
  OBVIOUS
<1> DEFINE L == Cardinality(Locking(login))
           C == Cardinality(Counting(login))
           All == Cardinality(Logins)
<1>1. /\ counter \in Nat /\ guesses \in Nat /\ total \in Nat /\ deaths \in Nat
      /\ total <= MaxGuesses /\ deaths <= MaxDeaths
      /\ guesses <= counter /\ counter <= total
      /\ LoginBooleans /\ (expires => counter > 0)
      /\ login \in [Logins -> LoginStates]
  BY GovernanceAssumption DEF LoginInv, LoginTypes
<1>2. /\ Threshold \in Nat \ {0} /\ MaxGuesses \in Nat /\ MaxDeaths \in Nat
  BY GovernanceAssumption
<1>3. /\ ~locked => guesses <= Threshold - 1 + L + deaths
      /\ locked => guesses + C <= Threshold - 1 + All + deaths
  BY DEF LoginInv
<1>4. \A h \in Logins : login[h].at = "lock" => login[h].count >= Threshold
  BY DEF LoginInv
<1>5. /\ L \in Nat /\ C \in Nat /\ All \in Nat /\ C <= All /\ L + C <= All
  BY LoginSets
<1>6. \A h \in Logins : /\ login[h] \in LoginStates /\ login[h].count \in 0..MaxGuesses
                        /\ login[h].count \in Nat
  BY <1>1, <1>2 DEF LoginStates
<1> HIDE DEF L, C, All
(* A login goes to e, and the keys stay as they are.                       *)
<1>7. ASSUME NEW h \in Logins, NEW e \in LoginStates,
             login' = [login EXCEPT ![h] = e],
             UNCHANGED <<counter, expires, locked, guesses, total>>,
             deaths' \in 0..MaxDeaths,
             e.at = "lock" => e.count >= Threshold,
             ~locked /\ WillLock(login[h]) /\ ~WillLock(e) => deaths' = deaths + 1,
             ~(~locked /\ WillLock(login[h]) /\ ~WillLock(e)) => deaths' >= deaths,
             locked /\ MayCount(e) => MayCount(login[h])
      PROVE  LoginInv'
  <2>1. /\ login' \in [Logins -> LoginStates] /\ login'[h] = e
        /\ \A g \in Logins \ {h} : login'[g] = login[g]
        /\ Cardinality(Locking(login')) =
             L + (IF WillLock(e) THEN IF WillLock(login[h]) THEN 0 ELSE 1
                                 ELSE IF WillLock(login[h]) THEN -1 ELSE 0)
        /\ Cardinality(Counting(login')) =
             C + (IF MayCount(e) THEN IF MayCount(login[h]) THEN 0 ELSE 1
                                 ELSE IF MayCount(login[h]) THEN -1 ELSE 0)
    BY <1>1, <1>7, LoginMoves DEF L, C
  <2>2. LoginTypes'
    BY <1>1, <1>7, <2>1 DEF LoginTypes, LoginBooleans
  <2>3. \A g \in Logins : login'[g].at = "lock" => login'[g].count >= Threshold
    BY <1>4, <1>7, <2>1
  <2>4. deaths' \in Nat
    BY <1>2, <1>7
  <2>5. ~locked => guesses <= Threshold - 1 + Cardinality(Locking(login')) + deaths'
    BY <1>1, <1>2, <1>3, <1>5, <1>7, <2>1, <2>4
  <2>6. locked => guesses + Cardinality(Counting(login'))
                     <= Threshold - 1 + All + deaths'
    BY <1>1, <1>2, <1>3, <1>5, <1>7, <2>1, <2>4
  <2> QED BY <1>7, <2>2, <2>3, <2>5, <2>6 DEF LoginInv, All
<1>8. ASSUME NEW h \in Logins, Login!CheckLock(h) PROVE LoginInv'
  <2> DEFINE e == [login[h] EXCEPT !.at = "select"]
  <2>1. /\ login[h].at = "idle" /\ ~locked
        /\ login' = [login EXCEPT ![h] = e]
        /\ UNCHANGED <<counter, expires, locked, guesses, total, deaths>>
    BY <1>8 DEF Login!CheckLock, Login!To
  <2>2. e \in LoginStates /\ e.at = "select"
    BY <1>6 DEF LoginStates
  <2>3. ~WillLock(login[h])
    BY <2>1 DEF WillLock
  <2> HIDE DEF e
  <2>4. deaths' \in 0..MaxDeaths /\ deaths' >= deaths
    BY <1>1, <1>2, <2>1
  <2> QED BY <1>7, <2>1, <2>2, <2>3, <2>4
<1>9. ASSUME NEW h \in Logins, Login!WrongPassword(h) \/ Login!RightPassword(h)
      PROVE  LoginInv'
  <2> PICK step \in {"incr", "clear"} :
        /\ login[h].at = "select"
        /\ login' = [login EXCEPT ![h] = [login[h] EXCEPT !.at = step]]
        /\ UNCHANGED <<counter, expires, locked, guesses, total, deaths>>
    BY <1>9 DEF Login!WrongPassword, Login!RightPassword, Login!To
  <2> DEFINE e == [login[h] EXCEPT !.at = step]
  <2>1. e \in LoginStates /\ e.at = step
    BY <1>6 DEF LoginStates
  <2>2. ~WillLock(login[h]) /\ MayCount(login[h])
    BY DEF WillLock, MayCount
  <2> HIDE DEF e
  <2>3. login' = [login EXCEPT ![h] = e]
    BY DEF e
  <2>4. deaths' \in 0..MaxDeaths /\ deaths' >= deaths
    BY <1>1, <1>2
  <2> QED BY <1>7, <2>1, <2>2, <2>3, <2>4
<1>10. ASSUME NEW h \in Logins, Login!Increment(h) PROVE LoginInv'
  <2> DEFINE e == [at |-> "expire", count |-> counter + 1]
  <2>1. /\ login[h].at = "incr" /\ total < MaxGuesses
        /\ counter' = counter + 1 /\ guesses' = guesses + 1 /\ total' = total + 1
        /\ login' = [login EXCEPT ![h] = e]
        /\ UNCHANGED <<expires, locked, deaths>>
    BY <1>10 DEF Login!Increment
  <2>2. counter + 1 \in 0..MaxGuesses
    BY <1>1, <1>2, <2>1
  <2>3. e \in LoginStates /\ e.at = "expire" /\ e.count = counter + 1
    BY <2>2 DEF LoginStates
  <2> HIDE DEF e
  <2>4. /\ ~WillLock(login[h]) /\ MayCount(login[h]) /\ ~MayCount(e)
        /\ WillLock(e) <=> counter + 1 >= Threshold
    BY <2>1, <2>3 DEF WillLock, MayCount
  <2>5. /\ login' \in [Logins -> LoginStates] /\ login'[h] = e
        /\ \A g \in Logins \ {h} : login'[g] = login[g]
        /\ Cardinality(Locking(login')) =
             L + (IF WillLock(e) THEN IF WillLock(login[h]) THEN 0 ELSE 1
                                 ELSE IF WillLock(login[h]) THEN -1 ELSE 0)
        /\ Cardinality(Counting(login')) =
             C + (IF MayCount(e) THEN IF MayCount(login[h]) THEN 0 ELSE 1
                                 ELSE IF MayCount(login[h]) THEN -1 ELSE 0)
    BY <1>1, <2>1, <2>3, LoginMoves DEF L, C
  <2>6. LoginTypes'
    BY <1>1, <1>2, <2>1, <2>5 DEF LoginTypes, LoginBooleans
  <2>7. \A g \in Logins : login'[g].at = "lock" => login'[g].count >= Threshold
    BY <1>4, <2>3, <2>5
  <2>8. ~locked => guesses' <= Threshold - 1 + Cardinality(Locking(login')) + deaths
    BY <1>1, <1>2, <1>3, <1>5, <2>1, <2>4, <2>5
  <2>9. locked => guesses' + Cardinality(Counting(login'))
                     <= Threshold - 1 + All + deaths
    BY <1>1, <1>2, <1>3, <1>5, <2>1, <2>4, <2>5
  <2> QED BY <2>1, <2>6, <2>7, <2>8, <2>9 DEF LoginInv, All
<1>11. ASSUME NEW h \in Logins, Login!Expire(h) PROVE LoginInv'
  <2> DEFINE e == IF login[h].count >= Threshold THEN [login[h] EXCEPT !.at = "lock"]
                                                 ELSE [at |-> "idle", count |-> 0]
  <2>1. /\ login[h].at = "expire"
        /\ login' = [login EXCEPT ![h] = e]
        /\ UNCHANGED <<counter, locked, guesses, total, deaths>>
        /\ expires' = IF login[h].count = 1 /\ counter > 0 THEN TRUE ELSE expires
    BY <1>11 DEF Login!Expire, Login!MustLock, Login!NoLogin
  <2>2. /\ e \in LoginStates /\ e.at # "expire"
        /\ login[h].count >= Threshold => e.at = "lock" /\ e.count = login[h].count
        /\ ~(login[h].count >= Threshold) => e.at = "idle"
    BY <1>2, <1>6 DEF LoginStates
  <2> HIDE DEF e
  <2>3. /\ WillLock(login[h]) <=> WillLock(e)
        /\ ~MayCount(login[h]) /\ ~MayCount(e)
    BY <2>1, <2>2 DEF WillLock, MayCount
  <2>5. /\ login' \in [Logins -> LoginStates] /\ login'[h] = e
        /\ \A g \in Logins \ {h} : login'[g] = login[g]
        /\ Cardinality(Locking(login')) =
             L + (IF WillLock(e) THEN IF WillLock(login[h]) THEN 0 ELSE 1
                                 ELSE IF WillLock(login[h]) THEN -1 ELSE 0)
        /\ Cardinality(Counting(login')) =
             C + (IF MayCount(e) THEN IF MayCount(login[h]) THEN 0 ELSE 1
                                 ELSE IF MayCount(login[h]) THEN -1 ELSE 0)
    BY <1>1, <2>1, <2>2, LoginMoves DEF L, C
  <2>4. LoginBooleans'
    BY <1>1, <2>1, Zenon DEF LoginBooleans
  <2>6. expires' => counter > 0
    BY <1>1, <2>1
  <2>7. LoginTypes'
    BY <1>1, <2>1, <2>4, <2>5, <2>6 DEF LoginTypes
  <2>8. \A g \in Logins : login'[g].at = "lock" => login'[g].count >= Threshold
    BY <1>4, <2>2, <2>5
  <2>9. Cardinality(Locking(login')) = L /\ Cardinality(Counting(login')) = C
    BY <1>5, <2>3, <2>5
  <2> QED BY <1>3, <2>1, <2>7, <2>8, <2>9 DEF LoginInv, All
<1>12. ASSUME NEW h \in Logins, Login!Lock(h) PROVE LoginInv'
  <2> DEFINE e == [at |-> "idle", count |-> 0]
  <2>1. /\ login[h].at = "lock" /\ locked' = TRUE
        /\ login' = [login EXCEPT ![h] = e]
        /\ UNCHANGED <<counter, expires, guesses, total, deaths>>
    BY <1>12 DEF Login!Lock, Login!NoLogin
  <2>2. e \in LoginStates /\ e.at = "idle"
    BY <1>2 DEF LoginStates
  <2> HIDE DEF e
  <2>3. /\ ~MayCount(login[h]) /\ ~MayCount(e)
    BY <2>1, <2>2 DEF MayCount
  <2>5. /\ login' \in [Logins -> LoginStates] /\ login'[h] = e
        /\ \A g \in Logins \ {h} : login'[g] = login[g]
        /\ Cardinality(Counting(login')) =
             C + (IF MayCount(e) THEN IF MayCount(login[h]) THEN 0 ELSE 1
                                 ELSE IF MayCount(login[h]) THEN -1 ELSE 0)
    BY <1>1, <2>1, <2>2, LoginMoves DEF C
  <2>6. Cardinality(Counting(login')) = C
    BY <1>5, <2>3, <2>5
  <2>4. LoginBooleans'
    BY <1>1, <2>1, Zenon DEF LoginBooleans
  <2>7. LoginTypes'
    BY <1>1, <2>1, <2>4, <2>5 DEF LoginTypes
  <2>8. \A g \in Logins : login'[g].at = "lock" => login'[g].count >= Threshold
    BY <1>4, <2>2, <2>5
  <2>9. guesses + C <= Threshold - 1 + All + deaths
    BY <1>1, <1>2, <1>3, <1>5
  <2> QED BY <2>1, <2>6, <2>7, <2>8, <2>9 DEF LoginInv, All
(* Whatever starts the count afresh.                                       *)
<1>13. ASSUME guesses' = 0, LoginTypes',
              \A g \in Logins : login'[g].at = "lock" => login'[g].count >= Threshold
       PROVE  LoginInv'
  <2>1. /\ Cardinality(Locking(login')) \in Nat /\ Cardinality(Counting(login')) \in Nat
        /\ Cardinality(Counting(login')) <= All
    BY LoginSets DEF All
  <2>2. deaths' \in Nat
    BY <1>2, <1>13 DEF LoginTypes
  <2>3. /\ guesses' <= Threshold - 1 + Cardinality(Locking(login')) + deaths'
        /\ guesses' + Cardinality(Counting(login')) <= Threshold - 1 + All + deaths'
    BY <1>2, <1>5, <1>13, <2>1, <2>2
  <2> QED BY <1>13, <2>3 DEF LoginInv, All
<1>14. ASSUME NEW h \in Logins, Login!Clear(h) PROVE LoginInv'
  <2> DEFINE e == [at |-> "idle", count |-> 0]
  <2>1. /\ counter' = 0 /\ expires' = FALSE /\ locked' = FALSE /\ guesses' = 0
        /\ login' = [login EXCEPT ![h] = e] /\ UNCHANGED <<total, deaths>>
    BY <1>14 DEF Login!Clear, Login!NoLogin
  <2>2. e \in LoginStates /\ e.at = "idle"
    BY <1>2 DEF LoginStates
  <2> HIDE DEF e
  <2>3. /\ login' \in [Logins -> LoginStates] /\ login'[h] = e
        /\ \A g \in Logins \ {h} : login'[g] = login[g]
    BY <1>1, <2>1, <2>2
  <2>4. LoginBooleans'
    BY <2>1, Zenon DEF LoginBooleans
  <2>5. LoginTypes'
    BY <1>1, <2>1, <2>3, <2>4 DEF LoginTypes
  <2> QED BY <1>4, <1>13, <2>1, <2>2, <2>3, <2>5
<1>15. CASE Login!CounterExpires
  <2>1. /\ counter' = 0 /\ expires' = FALSE /\ guesses' = 0
        /\ UNCHANGED <<locked, login, total, deaths>>
    BY <1>15 DEF Login!CounterExpires
  <2>2. LoginBooleans'
    BY <1>1, <2>1, Zenon DEF LoginBooleans
  <2>3. LoginTypes'
    BY <1>1, <2>1, <2>2 DEF LoginTypes
  <2> QED BY <1>4, <1>13, <2>1, <2>3
<1>16. CASE Login!LockExpires
  <2>1. /\ locked' = FALSE /\ guesses' = 0
        /\ UNCHANGED <<counter, expires, login, total, deaths>>
    BY <1>16 DEF Login!LockExpires
  <2>2. LoginBooleans'
    BY <1>1, <2>1, Zenon DEF LoginBooleans
  <2>3. LoginTypes'
    BY <1>1, <2>1, <2>2 DEF LoginTypes
  <2> QED BY <1>4, <1>13, <2>1, <2>3
<1>17. ASSUME NEW h \in Logins, Login!Die(h) PROVE LoginInv'
  <2> DEFINE e == [at |-> "idle", count |-> 0]
  <2>1. /\ deaths < MaxDeaths /\ deaths' = deaths + 1
        /\ login' = [login EXCEPT ![h] = e]
        /\ UNCHANGED <<counter, expires, locked, guesses, total>>
    BY <1>17 DEF Login!Die, Login!NoLogin
  <2>2. e \in LoginStates /\ e.at = "idle"
    BY <1>2 DEF LoginStates
  <2> HIDE DEF e
  <2>3. ~MayCount(e) /\ deaths' \in 0..MaxDeaths /\ deaths' >= deaths
    BY <1>1, <1>2, <2>1, <2>2 DEF MayCount
  <2> QED BY <1>7, <2>1, <2>2, <2>3
<1>18. CASE UNCHANGED logins
  <2>1. UNCHANGED <<counter, expires, locked, login, guesses, total, deaths>>
    BY <1>18 DEF logins
  <2> QED BY <2>1 DEF LoginInv, LoginTypes, LoginBooleans
<1> QED BY <1>8, <1>9, <1>10, <1>11, <1>12, <1>14, <1>15, <1>16, <1>17, <1>18
        DEF Login!SessionsNext

LEMMA LoginsBounded == LoginInv => Login!GuessesBounded
<1> SUFFICES ASSUME LoginInv PROVE Login!GuessesBounded
  OBVIOUS
<1>1. /\ guesses \in Nat /\ deaths \in Nat /\ Threshold \in Nat \ {0}
      /\ locked \in BOOLEAN
  BY GovernanceAssumption DEF LoginInv, LoginTypes, LoginBooleans
<1>2. /\ Cardinality(Locking(login)) \in Nat /\ Cardinality(Counting(login)) \in Nat
      /\ Cardinality(Logins) \in Nat
      /\ Cardinality(Locking(login)) + Cardinality(Counting(login))
            <= Cardinality(Logins)
  BY LoginSets
<1>3. /\ ~locked => guesses <= Threshold - 1 + Cardinality(Locking(login)) + deaths
      /\ locked => guesses + Cardinality(Counting(login))
                      <= Threshold - 1 + Cardinality(Logins) + deaths
  BY DEF LoginInv
<1>4. guesses <= Threshold - 1 + Cardinality(Logins) + deaths
  BY <1>1, <1>2, <1>3
<1>5. Login!Cardinality(Logins) = Cardinality(Logins)
  BY DEF Login!Cardinality, Cardinality
<1> QED BY <1>4, <1>5 DEF Login!GuessesBounded

-----------------------------------------------------------------------------
(* Signing in: what was ended, and what is handed out                      *)

Asks == [op: {"idle", "callback", "exchange", "refresh", "use", "logout", "link"},
         at: {"", "delete", "taken", "account", "body"},
         after: SUBSET Session!Doors]

SessionTypes ==
    /\ using \in [Requests -> Asks]
    /\ issued \in Nat /\ exchanged \in Nat
    /\ ended \subseteq Session!Doors

(* Where a request can be in its handler.                                  *)
Shaped(r) ==
    \/ r.op = "idle" /\ r.at = ""
    \/ r.op = "callback" /\ r.at \in {"delete", "taken", "account"}
    \/ r.op = "exchange" /\ r.at \in {"delete", "taken"}
    \/ r.op \in {"refresh", "use", "link"} /\ r.at = "account"
    \/ r.op = "logout" /\ r.at = "body"

(* The requests that ask for the tokens of the exchange code, and those    *)
(* that will store them under it.                                          *)
Exchanges(r) == r.op = "exchange"
Storing(r) == r.op = "callback" /\ r.at = "account"

(* A request remembers what had been ended when it began, and was let in   *)
(* by nothing that had.  It stores the exchange code before anybody has    *)
(* asked for it; and whoever finds it has not yet deleted it.              *)
RequestInv(r) ==
    /\ Shaped(r)
    /\ r.after \subseteq ended
    /\ r.op = "refresh" => ("session" \in r.after => forgotten) /\ issued # 0
    /\ r.op = "link" => "link" \notin r.after
    /\ r.op = "callback" => grant # "unborn"
    /\ ~redis => r.at # "delete"
    /\ Storing(r) => grant = "used" /\ "code" \notin store /\ exchanged = 0
    /\ Exchanges(r) => /\ grant = "used"
                       /\ "code" \in store => r.at = "delete"
                       /\ ~overlapped => exchanged = 0

(* One callback stores the code; one request asks for it, or they overlap. *)
Apart(g, h) ==
    /\ Storing(using[g]) => ~Exchanges(using[h])
    /\ Storing(using[g]) /\ Storing(using[h]) => g = h
    /\ ~overlapped /\ Exchanges(using[g]) /\ Exchanges(using[h]) => g = h

(* The refresh token of a session that was logged out is revoked, if the   *)
(* memory of the one server has not forgotten it; there is                 *)
(* no session before a token is issued, and single sign-on issues the      *)
(* first one when its code is exchanged.                                   *)
StateInv ==
    /\ grant \in {"unborn", "fresh", "used"}
    /\ late \subseteq {"session", "socket"}
    /\ "session" \in late => forgotten
    /\ forgotten => ~redis
    /\ "session" \in ended /\ ~forgotten => Session!Refresh \notin unexpired \ revoked
    /\ "account" \in ended => ~active
    /\ "link" \in ended => "link" \notin store
    /\ issued = 0 => unexpired = {} /\ "session" \notin ended
    /\ grant = "unborn" => "state" \notin store
    /\ grant # "used" => "code" \notin store /\ exchanged = 0
    /\ grant # "unborn" /\ exchanged = 0 => issued = 0
    /\ "code" \in store => exchanged = 0
    /\ ~redis => ~overlapped
    /\ ~overlapped => exchanged <= 1

SessionInv ==
    /\ SessionTypes /\ StateInv
    /\ \A h \in Requests : RequestInv(using[h])
    /\ \A g, h \in Requests : Apart(g, h)

LEMMA SessionInitially == GovernanceInit => SessionInv
<1> SUFFICES ASSUME GovernanceInit PROVE SessionInv
  OBVIOUS
<1>1. /\ store = {} /\ grant = "unborn" /\ active = TRUE
      /\ unexpired \in {{}, {0, 1}} /\ revoked = {}
      /\ using = [h \in Requests |-> Session!Resting]
      /\ issued = Session!Cardinality(unexpired \ {0})
      /\ ended = {} /\ late = {} /\ exchanged = 0 /\ overlapped = FALSE
      /\ forgotten = FALSE
  BY DEF GovernanceInit, Session!TokensInit, Session!Refresh
<1>2. Session!Resting \in Asks /\ Session!Resting.op = "idle" /\ Session!Resting.at = ""
      /\ Session!Resting.after = {}
  BY DEF Session!Resting, Asks
<1>3. issued = Cardinality(unexpired \ {0})
  BY <1>1 DEF Session!Cardinality, Cardinality
<1>4. issued \in Nat /\ (issued = 0 => unexpired = {})
  <2>1. CASE unexpired = {}
    <3>1. unexpired \ {0} = {}
      BY <2>1
    <3> QED BY <1>3, <2>1, <3>1, FS_EmptySet
  <2>2. CASE unexpired = {0, 1}
    <3>1. unexpired \ {0} = {1}
      BY <2>2
    <3>2. Cardinality({1}) = 1
      BY FS_Singleton
    <3> QED BY <1>3, <3>1, <3>2
  <2> QED BY <1>1, <2>1, <2>2
<1>5. \A h \in Requests : /\ using[h].op = "idle" /\ using[h].at = ""
                          /\ using[h].after = {}
  BY <1>1, <1>2
<1>6. SessionTypes
  BY <1>1, <1>2, <1>4 DEF SessionTypes
<1>7. ~overlapped /\ late = {} /\ exchanged <= 1 /\ ~forgotten
  BY <1>1
<1>8. StateInv
  BY <1>1, <1>4, <1>7 DEF StateInv
<1>9. \A h \in Requests : RequestInv(using[h])
  BY <1>5 DEF RequestInv, Shaped, Storing, Exchanges
<1>10. \A g, h \in Requests : Apart(g, h)
  BY <1>5 DEF Apart, Storing, Exchanges
<1> QED BY <1>6, <1>8, <1>9, <1>10 DEF SessionInv

LEMMA UsingMoves ==
    ASSUME SessionTypes, NEW h \in Requests, NEW r \in Asks, Session!Set(h, r)
    PROVE  /\ using' \in [Requests -> Asks] /\ using'[h] = r
           /\ \A g \in Requests \ {h} : using'[g] = using[g]
BY DEF SessionTypes, Session!Set

LEMMA SessionStep == SessionInv /\ [Session!TokensNext]_sessions => SessionInv'
<1> SUFFICES ASSUME SessionInv, [Session!TokensNext]_sessions PROVE SessionInv'
  OBVIOUS
<1>1. /\ SessionTypes /\ StateInv
      /\ issued \in Nat /\ exchanged \in Nat /\ ended \subseteq Session!Doors
      /\ using \in [Requests -> Asks]
  BY DEF SessionInv, SessionTypes
<1>2. \A h \in Requests : /\ using[h] \in Asks /\ using[h].after \subseteq Session!Doors
                          /\ RequestInv(using[h]) /\ \A g \in Requests : Apart(g, h) /\ Apart(h, g)
  BY <1>1 DEF SessionInv, Asks
<1>3. Session!Resting \in Asks
  BY DEF Session!Resting, Asks
<1>4. CASE Session!SsoLogin
  <2>1. /\ grant = "unborn" /\ issued = 0 /\ grant' = "fresh"
        /\ store' = store \cup {"state"}
        /\ UNCHANGED <<redis, active, unexpired, revoked, issued, using, ended, late,
                       exchanged, overlapped, forgotten>>
    BY <1>4 DEF Session!SsoLogin, Session!storeVars, Session!tokenVars, Session!historyVars
  <2>4. SessionTypes'
    BY <1>1, <2>1 DEF SessionTypes, Session!Doors
  <2>5. StateInv'
    BY <1>1, <1>2, <2>1 DEF StateInv, RequestInv, Shaped, Exchanges, Storing
  <2>6. ASSUME NEW g \in Requests PROVE RequestInv(using[g])'
    BY <1>1, <1>2, <2>1 DEF RequestInv, StateInv, Shaped, Exchanges, Storing
  <2>7. \A g, k \in Requests : Apart(g, k)'
    BY <1>2, <2>1 DEF Apart, Exchanges, Storing
  <2> QED BY <2>4, <2>5, <2>6, <2>7 DEF SessionInv
<1>5. CASE Session!Deactivate
  <2>1. /\ active' = FALSE /\ ended' = ended \cup {"account"}
        /\ UNCHANGED <<redis, store, grant, unexpired, revoked, issued, using, late,
                       exchanged, overlapped, forgotten>>
    BY <1>5 DEF Session!Deactivate, Session!storeVars, Session!tokenVars, Session!historyVars
  <2>4. SessionTypes'
    BY <1>1, <2>1 DEF SessionTypes, Session!Doors
  <2>5. StateInv'
    BY <1>1, <1>2, <2>1 DEF StateInv, RequestInv, Shaped, Exchanges, Storing
  <2>6. ASSUME NEW g \in Requests PROVE RequestInv(using[g])'
    BY <1>1, <1>2, <2>1 DEF RequestInv, StateInv, Shaped, Exchanges, Storing
  <2>7. \A g, k \in Requests : Apart(g, k)'
    BY <1>2, <2>1 DEF Apart, Exchanges, Storing
  <2> QED BY <2>4, <2>5, <2>6, <2>7 DEF SessionInv
<1>6. CASE Session!CreateLink
  <2>1. /\ "link" \notin ended /\ store' = store \cup {"link"}
        /\ UNCHANGED <<redis, grant, active, unexpired, revoked, issued, using, ended,
                       late, exchanged, overlapped, forgotten>>
    BY <1>6 DEF Session!CreateLink, Session!storeVars, Session!tokenVars, Session!historyVars
  <2>4. SessionTypes'
    BY <1>1, <2>1 DEF SessionTypes, Session!Doors
  <2>5. StateInv'
    BY <1>1, <1>2, <2>1 DEF StateInv, RequestInv, Shaped, Exchanges, Storing
  <2>6. ASSUME NEW g \in Requests PROVE RequestInv(using[g])'
    BY <1>1, <1>2, <2>1 DEF RequestInv, StateInv, Shaped, Exchanges, Storing
  <2>7. \A g, k \in Requests : Apart(g, k)'
    BY <1>2, <2>1 DEF Apart, Exchanges, Storing
  <2> QED BY <2>4, <2>5, <2>6, <2>7 DEF SessionInv
<1>7. CASE Session!RevokeLink
  <2>1. /\ store' = store \ {"link"} /\ ended' = ended \cup {"link"}
        /\ UNCHANGED <<redis, grant, active, unexpired, revoked, issued, using, late,
                       exchanged, overlapped, forgotten>>
    BY <1>7 DEF Session!RevokeLink, Session!storeVars, Session!tokenVars, Session!historyVars
  <2>4. SessionTypes'
    BY <1>1, <2>1 DEF SessionTypes, Session!Doors
  <2>5. StateInv'
    BY <1>1, <1>2, <2>1 DEF StateInv, RequestInv, Shaped, Exchanges, Storing
  <2>6. ASSUME NEW g \in Requests PROVE RequestInv(using[g])'
    BY <1>1, <1>2, <2>1 DEF RequestInv, StateInv, Shaped, Exchanges, Storing
  <2>7. \A g, k \in Requests : Apart(g, k)'
    BY <1>2, <2>1 DEF Apart, Exchanges, Storing
  <2> QED BY <2>4, <2>5, <2>6, <2>7 DEF SessionInv
<1>8. CASE Session!ForgetKey
  <2>1. /\ store' \subseteq store
        /\ UNCHANGED <<redis, grant, active, unexpired, revoked, issued, using, ended,
                       late, exchanged, overlapped, forgotten>>
    BY <1>8 DEF Session!ForgetKey, Session!storeVars, Session!tokenVars, Session!historyVars
  <2>4. SessionTypes'
    BY <1>1, <2>1 DEF SessionTypes, Session!Doors
  <2>5. StateInv'
    BY <1>1, <1>2, <2>1 DEF StateInv, RequestInv, Shaped, Exchanges, Storing
  <2>6. ASSUME NEW g \in Requests PROVE RequestInv(using[g])'
    BY <1>1, <1>2, <2>1 DEF RequestInv, StateInv, Shaped, Exchanges, Storing
  <2>7. \A g, k \in Requests : Apart(g, k)'
    BY <1>2, <2>1 DEF Apart, Exchanges, Storing
  <2> QED BY <2>4, <2>5, <2>6, <2>7 DEF SessionInv
<1>9. ASSUME NEW t, Session!Expire(t) PROVE SessionInv'
  <2>1. /\ unexpired' = unexpired \ {t} /\ revoked' = revoked \ {t}
        /\ UNCHANGED <<redis, store, grant, active, issued, using, ended, late,
                       exchanged, overlapped, forgotten>>
    BY <1>9 DEF Session!Expire, Session!storeVars, Session!tokenVars, Session!historyVars
  <2>4. SessionTypes'
    BY <1>1, <2>1 DEF SessionTypes, Session!Doors
  <2>5. StateInv'
    BY <1>1, <1>2, <2>1 DEF StateInv, RequestInv, Shaped, Exchanges, Storing
  <2>6. ASSUME NEW g \in Requests PROVE RequestInv(using[g])'
    BY <1>1, <1>2, <2>1 DEF RequestInv, StateInv, Shaped, Exchanges, Storing
  <2>7. \A g, k \in Requests : Apart(g, k)'
    BY <1>2, <2>1 DEF Apart, Exchanges, Storing
  <2> QED BY <2>4, <2>5, <2>6, <2>7 DEF SessionInv
<1>10. ASSUME NEW h \in Requests, NEW op \in {"callback", "exchange"}, Session!Take(h, op)
      PROVE  SessionInv'
  <2>1. /\ using[h].op = "idle"
        /\ op = "callback" => "state" \in store /\ Session!Key(op) = "state"
        /\ op = "exchange" => "code" \in store /\ Session!Key(op) = "code"
        /\ Session!Set(h, [op |-> op, at |-> IF redis THEN "delete" ELSE "taken",
                            after |-> ended])
        /\ store' = IF redis THEN store ELSE store \ {Session!Key(op)}
        /\ overlapped' = \/ overlapped
                          \/ /\ op = "exchange"
                             /\ \E g \in Requests : using[g].op = op
                                                    /\ using[g].at = "delete"
        /\ UNCHANGED <<redis, grant, active, unexpired, revoked, issued, ended, late,
                       exchanged, forgotten>>
    BY <1>10 DEF Session!Take, Session!Enter, Session!At, Session!Key, Session!storeVars, Session!tokenVars, Session!historyVars
  <2> DEFINE r == [op |-> op, at |-> IF redis THEN "delete" ELSE "taken", after |-> ended]
  <2>2. r \in Asks /\ r.op = op /\ r.at = (IF redis THEN "delete" ELSE "taken") /\ r.after = ended
    BY <1>1, <1>2, <1>3, <2>1 DEF Asks
  <2> HIDE DEF r
  <2>3. /\ using' \in [Requests -> Asks]
        /\ using'[h].op = op /\ using'[h].at = (IF redis THEN "delete" ELSE "taken") /\ using'[h].after = ended
        /\ \A g \in Requests \ {h} : using'[g] = using[g]
    BY <1>1, <2>1, <2>2, UsingMoves DEF r
  <2>4. SessionTypes'
    BY <1>1, <2>1, <2>3 DEF SessionTypes, Session!Doors
  <2>5. StateInv'
    <3>1. store' \subseteq store
      BY <2>1
    <3>2. ~redis => ~overlapped'
      BY <1>1, <1>2, <2>1 DEF RequestInv, StateInv
    <3>3. ~overlapped' => ~overlapped
      BY <2>1
    <3> QED BY <1>1, <2>1, <3>1, <3>2, <3>3 DEF StateInv
  <2>6. RequestInv(using[h])'
    BY <1>1, <1>2, <2>1, <2>3 DEF RequestInv, StateInv, Shaped, Exchanges, Storing
  <2>7. ASSUME NEW g \in Requests, g # h PROVE RequestInv(using[g])'
    <3>1. RequestInv(using[g]) /\ using'[g] = using[g] /\ Apart(g, h) /\ Apart(h, g)
      BY <1>2, <2>3, <2>7
    <3>2. store' \subseteq store /\ (~overlapped' => ~overlapped)
      BY <2>1
    <3>3. CASE Exchanges(using[g]) /\ "code" \in store'
      <4>1. using[g].at = "delete"
        BY <3>1, <3>2, <3>3 DEF RequestInv
      <4> QED BY <1>1, <2>1, <3>1, <3>2, <4>1 DEF RequestInv, Shaped, Exchanges, Storing
    <3>4. CASE ~ (Exchanges(using[g]) /\ "code" \in store')
      BY <1>1, <2>1, <3>1, <3>2, <3>4 DEF RequestInv, Shaped, Exchanges, Storing
    <3> QED BY <3>3, <3>4
  <2>8. \A g, k \in Requests : Apart(g, k)'
    BY <1>1, <1>2, <2>1, <2>3 DEF Apart, RequestInv, StateInv, Shaped, Exchanges, Storing
  <2> QED BY <2>4, <2>5, <2>6, <2>7, <2>8 DEF SessionInv
<1>11. ASSUME NEW h \in Requests, Session!Delete(h) PROVE SessionInv'
  <2>1. /\ using[h].at = "delete" 
        /\ store' = store \ {IF using[h].op = "callback" THEN "state" ELSE "code"}
        /\ Session!Set(h, [using[h] EXCEPT !.at = "taken"])
        /\ UNCHANGED <<redis, grant, active, unexpired, revoked, issued, ended, late,
                       exchanged, overlapped, forgotten>>
    BY <1>11 DEF Session!Delete, Session!Next1, Session!Key, Session!storeVars, Session!tokenVars, Session!historyVars
  <2> DEFINE r == [using[h] EXCEPT !.at = "taken"]
  <2>2. r \in Asks /\ r.op = using[h].op /\ r.at = "taken" /\ r.after = using[h].after
    BY <1>1, <1>2, <1>3, <2>1 DEF Asks
  <2> HIDE DEF r
  <2>3. /\ using' \in [Requests -> Asks]
        /\ using'[h].op = using[h].op /\ using'[h].at = "taken" /\ using'[h].after = using[h].after
        /\ \A g \in Requests \ {h} : using'[g] = using[g]
    BY <1>1, <2>1, <2>2, UsingMoves DEF r
  <2>4. SessionTypes'
    BY <1>1, <2>1, <2>3 DEF SessionTypes, Session!Doors
  <2>5. StateInv'
    BY <1>1, <1>2, <2>1, <2>3 DEF StateInv, RequestInv, Shaped, Exchanges, Storing
  <2>6. RequestInv(using[h])'
    BY <1>1, <1>2, <2>1, <2>3 DEF RequestInv, StateInv, Shaped, Exchanges, Storing
  <2>7. ASSUME NEW g \in Requests, g # h PROVE RequestInv(using[g])'
    <3>1. RequestInv(using[g]) /\ using'[g] = using[g] /\ Apart(g, h) /\ Apart(h, g)
      BY <1>2, <2>3, <2>7
    <3> QED BY <1>1, <1>2, <2>1, <3>1 DEF RequestInv, StateInv, Shaped, Exchanges, Storing, Apart
  <2>8. \A g, k \in Requests : Apart(g, k)'
    BY <1>1, <1>2, <2>1, <2>3 DEF Apart, RequestInv, StateInv, Shaped, Exchanges, Storing
  <2> QED BY <2>4, <2>5, <2>6, <2>7, <2>8 DEF SessionInv
<1>12. ASSUME NEW h \in Requests, Session!StoreTokens(h) PROVE SessionInv'
  <2>1. /\ using[h].op = "callback" /\ using[h].at = "account"
        /\ store' = IF active THEN store \cup {"code"} ELSE store
        /\ Session!Set(h, Session!Resting)
        /\ UNCHANGED <<redis, grant, active, unexpired, revoked, issued, ended, late,
                       exchanged, overlapped, forgotten>>
    BY <1>12 DEF Session!StoreTokens, Session!Rest, Session!At, Session!storeVars, Session!tokenVars, Session!historyVars
  <2> DEFINE r == Session!Resting
  <2>2. r \in Asks /\ r.op = "idle" /\ r.at = "" /\ r.after = {}
    BY <1>1, <1>2, <1>3, <2>1 DEF Asks, Session!Resting
  <2> HIDE DEF r
  <2>3. /\ using' \in [Requests -> Asks]
        /\ using'[h].op = "idle" /\ using'[h].at = "" /\ using'[h].after = {}
        /\ \A g \in Requests \ {h} : using'[g] = using[g]
    BY <1>1, <2>1, <2>2, UsingMoves DEF r
  <2>4. SessionTypes'
    BY <1>1, <2>1, <2>3 DEF SessionTypes, Session!Doors
  <2>5. StateInv'
    BY <1>1, <1>2, <2>1, <2>3 DEF StateInv, RequestInv, Shaped, Exchanges, Storing
  <2>6. RequestInv(using[h])'
    BY <1>1, <1>2, <2>1, <2>3 DEF RequestInv, StateInv, Shaped, Exchanges, Storing
  <2>7. ASSUME NEW g \in Requests, g # h PROVE RequestInv(using[g])'
    <3>1. RequestInv(using[g]) /\ using'[g] = using[g] /\ Apart(g, h) /\ Apart(h, g)
      BY <1>2, <2>3, <2>7
    <3>2. ~Storing(using[g]) /\ ~Exchanges(using[g])
      BY <2>1, <2>7, <3>1 DEF Apart, Storing
    <3> QED BY <2>1, <3>1, <3>2 DEF RequestInv, Shaped, Exchanges, Storing
  <2>8. \A g, k \in Requests : Apart(g, k)'
    BY <1>1, <1>2, <2>1, <2>3 DEF Apart, RequestInv, StateInv, Shaped, Exchanges, Storing
  <2> QED BY <2>4, <2>5, <2>6, <2>7, <2>8 DEF SessionInv
<1>13. ASSUME NEW h \in Requests, Session!HandOut(h) PROVE SessionInv'
  <2>1. /\ using[h].op = "exchange" /\ using[h].at = "taken"
        /\ exchanged' = exchanged + 1
        /\ exchanged = 0 => /\ issued' = issued + 1
                            /\ unexpired' = unexpired \cup {0, issued + 1}
        /\ exchanged # 0 => UNCHANGED <<issued, unexpired>>
        /\ Session!Set(h, Session!Resting)
        /\ UNCHANGED <<redis, store, grant, active, revoked, ended, late, overlapped, forgotten>>
    BY <1>13 DEF Session!HandOut, Session!Rest, Session!At, Session!Refresh, Session!storeVars, Session!tokenVars, Session!historyVars
  <2> DEFINE r == Session!Resting
  <2>2. r \in Asks /\ r.op = "idle" /\ r.at = "" /\ r.after = {}
    BY <1>1, <1>2, <1>3, <2>1 DEF Asks, Session!Resting
  <2> HIDE DEF r
  <2>3. /\ using' \in [Requests -> Asks]
        /\ using'[h].op = "idle" /\ using'[h].at = "" /\ using'[h].after = {}
        /\ \A g \in Requests \ {h} : using'[g] = using[g]
    BY <1>1, <2>1, <2>2, UsingMoves DEF r
  <2>9. issued' \in Nat /\ exchanged' \in Nat /\ (issued # 0 => issued' # 0)
    BY <1>1, <2>1
  <2>4. SessionTypes'
    BY <1>1, <2>1, <2>3, <2>9 DEF SessionTypes, Session!Doors
  <2>5. StateInv'
    <3>1. RequestInv(using[h]) /\ StateInv
      BY <1>1, <1>2
    <3>2. "code" \notin store /\ grant = "used" /\ (~overlapped => exchanged = 0)
      BY <2>1, <3>1 DEF RequestInv, Exchanges
    <3>3. exchanged' # 0 /\ (~overlapped => exchanged' <= 1)
      BY <1>1, <2>1, <3>2
    <3>4. CASE exchanged = 0
      <4>1. issued = 0 /\ "session" \notin ended /\ issued' # 0
        BY <1>1, <2>1, <3>1, <3>2, <3>4 DEF StateInv
      <4> QED BY <2>1, <3>1, <3>2, <3>3, <4>1 DEF StateInv
    <3>5. CASE exchanged # 0
      BY <2>1, <3>1, <3>2, <3>3, <3>5 DEF StateInv
    <3> QED BY <3>4, <3>5
  <2>6. RequestInv(using[h])'
    BY <1>1, <1>2, <2>1, <2>3 DEF RequestInv, StateInv, Shaped, Exchanges, Storing, Session!Refresh
  <2>7. ASSUME NEW g \in Requests, g # h PROVE RequestInv(using[g])'
    <3>1. RequestInv(using[g]) /\ using'[g] = using[g] /\ Apart(g, h) /\ Apart(h, g)
      BY <1>2, <2>3, <2>7
    <3>2. ~Storing(using[g]) /\ (Exchanges(using[g]) => overlapped)
      BY <2>1, <2>7, <3>1 DEF Apart, Exchanges
    <3> QED BY <2>1, <2>9, <3>1, <3>2 DEF RequestInv, Shaped, Exchanges, Storing
  <2>8. \A g, k \in Requests : Apart(g, k)'
    BY <1>1, <1>2, <2>1, <2>3 DEF Apart, RequestInv, StateInv, Shaped, Exchanges, Storing
  <2> QED BY <2>4, <2>5, <2>6, <2>7, <2>8 DEF SessionInv
<1>14. ASSUME NEW h \in Requests, Session!BeginRefresh(h) PROVE SessionInv'
  <2>1. /\ Session!Refresh \in unexpired \ revoked /\ using[h].op = "idle"
        /\ Session!Set(h, [op |-> "refresh", at |-> "account", after |-> ended])
        /\ UNCHANGED <<redis, store, grant, active, unexpired, revoked, issued, ended,
                       late, exchanged, overlapped, forgotten>>
    BY <1>14 DEF Session!BeginRefresh, Session!Decodes, Session!Enter, Session!storeVars, Session!tokenVars, Session!historyVars
  <2> DEFINE r == [op |-> "refresh", at |-> "account", after |-> ended]
  <2>2. r \in Asks /\ r.op = "refresh" /\ r.at = "account" /\ r.after = ended
    BY <1>1, <1>2, <1>3, <2>1 DEF Asks
  <2> HIDE DEF r
  <2>3. /\ using' \in [Requests -> Asks]
        /\ using'[h].op = "refresh" /\ using'[h].at = "account" /\ using'[h].after = ended
        /\ \A g \in Requests \ {h} : using'[g] = using[g]
    BY <1>1, <2>1, <2>2, UsingMoves DEF r
  <2>4. SessionTypes'
    BY <1>1, <2>1, <2>3 DEF SessionTypes, Session!Doors
  <2>5. StateInv'
    BY <1>1, <1>2, <2>1, <2>3 DEF StateInv, RequestInv, Shaped, Exchanges, Storing
  <2>6. RequestInv(using[h])'
    BY <1>1, <1>2, <2>1, <2>3 DEF RequestInv, StateInv, Shaped, Exchanges, Storing
  <2>7. ASSUME NEW g \in Requests, g # h PROVE RequestInv(using[g])'
    <3>1. RequestInv(using[g]) /\ using'[g] = using[g] /\ Apart(g, h) /\ Apart(h, g)
      BY <1>2, <2>3, <2>7
    <3> QED BY <1>1, <1>2, <2>1, <3>1 DEF RequestInv, StateInv, Shaped, Exchanges, Storing, Apart
  <2>8. \A g, k \in Requests : Apart(g, k)'
    BY <1>1, <1>2, <2>1, <2>3 DEF Apart, RequestInv, StateInv, Shaped, Exchanges, Storing
  <2> QED BY <2>4, <2>5, <2>6, <2>7, <2>8 DEF SessionInv
<1>15. ASSUME NEW h \in Requests, Session!EndRefresh(h) PROVE SessionInv'
  <2>1. /\ using[h].op = "refresh" /\ using[h].at = "account"
        /\ active => /\ issued' = issued + 1
                     /\ unexpired' = unexpired \cup {issued + 1}
        /\ ~active => UNCHANGED <<issued, unexpired>>
        /\ late' = IF active THEN late \cup ({"session", "account"} \cap using[h].after)
                             ELSE late
        /\ Session!Set(h, Session!Resting)
        /\ UNCHANGED <<redis, store, grant, active, revoked, ended, exchanged,
                       overlapped, forgotten>>
    BY <1>15 DEF Session!EndRefresh, Session!Issue, Session!Pass, Session!Rest, Session!At, Session!storeVars, Session!tokenVars, Session!historyVars
  <2> DEFINE r == Session!Resting
  <2>2. r \in Asks /\ r.op = "idle" /\ r.at = "" /\ r.after = {}
    BY <1>1, <1>2, <1>3, <2>1 DEF Asks, Session!Resting
  <2> HIDE DEF r
  <2>3. /\ using' \in [Requests -> Asks]
        /\ using'[h].op = "idle" /\ using'[h].at = "" /\ using'[h].after = {}
        /\ \A g \in Requests \ {h} : using'[g] = using[g]
    BY <1>1, <2>1, <2>2, UsingMoves DEF r
  <2>9. issued' \in Nat /\ exchanged' \in Nat /\ (issued # 0 => issued' # 0)
    BY <1>1, <2>1
  <2>4. SessionTypes'
    BY <1>1, <2>1, <2>3, <2>9 DEF SessionTypes, Session!Doors
  <2>5. StateInv'
    BY <1>1, <1>2, <2>1, <2>9, <2>3 DEF StateInv, RequestInv, Shaped, Exchanges, Storing, Session!Refresh
  <2>6. RequestInv(using[h])'
    BY <1>1, <1>2, <2>1, <2>3 DEF RequestInv, StateInv, Shaped, Exchanges, Storing, Session!Refresh
  <2>7. ASSUME NEW g \in Requests, g # h PROVE RequestInv(using[g])'
    <3>1. RequestInv(using[g]) /\ using'[g] = using[g] /\ Apart(g, h) /\ Apart(h, g)
      BY <1>2, <2>3, <2>7
    <3> QED BY <1>1, <1>2, <2>1, <2>9, <3>1 DEF RequestInv, StateInv, Shaped, Exchanges, Storing, Apart
  <2>8. \A g, k \in Requests : Apart(g, k)'
    BY <1>1, <1>2, <2>1, <2>3 DEF Apart, RequestInv, StateInv, Shaped, Exchanges, Storing
  <2> QED BY <2>4, <2>5, <2>6, <2>7, <2>8 DEF SessionInv
<1>16. ASSUME NEW h \in Requests, NEW t, Session!BeginUse(h, t) PROVE SessionInv'
  <2>1. /\ using[h].op = "idle"
        /\ Session!Set(h, [op |-> "use", at |-> "account", after |-> ended])
        /\ UNCHANGED <<redis, store, grant, active, unexpired, revoked, issued, ended,
                       late, exchanged, overlapped, forgotten>>
    BY <1>16 DEF Session!BeginUse, Session!Enter, Session!storeVars, Session!tokenVars, Session!historyVars
  <2> DEFINE r == [op |-> "use", at |-> "account", after |-> ended]
  <2>2. r \in Asks /\ r.op = "use" /\ r.at = "account" /\ r.after = ended
    BY <1>1, <1>2, <1>3, <2>1 DEF Asks
  <2> HIDE DEF r
  <2>3. /\ using' \in [Requests -> Asks]
        /\ using'[h].op = "use" /\ using'[h].at = "account" /\ using'[h].after = ended
        /\ \A g \in Requests \ {h} : using'[g] = using[g]
    BY <1>1, <2>1, <2>2, UsingMoves DEF r
  <2>4. SessionTypes'
    BY <1>1, <2>1, <2>3 DEF SessionTypes, Session!Doors
  <2>5. StateInv'
    BY <1>1, <1>2, <2>1, <2>3 DEF StateInv, RequestInv, Shaped, Exchanges, Storing
  <2>6. RequestInv(using[h])'
    BY <1>1, <1>2, <2>1, <2>3 DEF RequestInv, StateInv, Shaped, Exchanges, Storing
  <2>7. ASSUME NEW g \in Requests, g # h PROVE RequestInv(using[g])'
    <3>1. RequestInv(using[g]) /\ using'[g] = using[g] /\ Apart(g, h) /\ Apart(h, g)
      BY <1>2, <2>3, <2>7
    <3> QED BY <1>1, <1>2, <2>1, <3>1 DEF RequestInv, StateInv, Shaped, Exchanges, Storing, Apart
  <2>8. \A g, k \in Requests : Apart(g, k)'
    BY <1>1, <1>2, <2>1, <2>3 DEF Apart, RequestInv, StateInv, Shaped, Exchanges, Storing
  <2> QED BY <2>4, <2>5, <2>6, <2>7, <2>8 DEF SessionInv
<1>17. ASSUME NEW h \in Requests, Session!EndUse(h) PROVE SessionInv'
  <2>1. /\ using[h].op = "use" /\ using[h].at = "account"
        /\ late' = IF active THEN late \cup ({"account"} \cap using[h].after) ELSE late
        /\ Session!Set(h, Session!Resting)
        /\ UNCHANGED <<redis, store, grant, active, unexpired, revoked, issued, ended,
                       exchanged, overlapped, forgotten>>
    BY <1>17 DEF Session!EndUse, Session!Pass, Session!Rest, Session!At, Session!storeVars, Session!tokenVars, Session!historyVars
  <2> DEFINE r == Session!Resting
  <2>2. r \in Asks /\ r.op = "idle" /\ r.at = "" /\ r.after = {}
    BY <1>1, <1>2, <1>3, <2>1 DEF Asks, Session!Resting
  <2> HIDE DEF r
  <2>3. /\ using' \in [Requests -> Asks]
        /\ using'[h].op = "idle" /\ using'[h].at = "" /\ using'[h].after = {}
        /\ \A g \in Requests \ {h} : using'[g] = using[g]
    BY <1>1, <2>1, <2>2, UsingMoves DEF r
  <2>4. SessionTypes'
    BY <1>1, <2>1, <2>3 DEF SessionTypes, Session!Doors
  <2>5. StateInv'
    BY <1>1, <1>2, <2>1, <2>3 DEF StateInv, RequestInv, Shaped, Exchanges, Storing
  <2>6. RequestInv(using[h])'
    BY <1>1, <1>2, <2>1, <2>3 DEF RequestInv, StateInv, Shaped, Exchanges, Storing
  <2>7. ASSUME NEW g \in Requests, g # h PROVE RequestInv(using[g])'
    <3>1. RequestInv(using[g]) /\ using'[g] = using[g] /\ Apart(g, h) /\ Apart(h, g)
      BY <1>2, <2>3, <2>7
    <3> QED BY <1>1, <1>2, <2>1, <3>1 DEF RequestInv, StateInv, Shaped, Exchanges, Storing, Apart
  <2>8. \A g, k \in Requests : Apart(g, k)'
    BY <1>1, <1>2, <2>1, <2>3 DEF Apart, RequestInv, StateInv, Shaped, Exchanges, Storing
  <2> QED BY <2>4, <2>5, <2>6, <2>7, <2>8 DEF SessionInv
<1>18. ASSUME NEW h \in Requests, NEW t, Session!BeginLogout(h, t) PROVE SessionInv'
  <2>1. /\ using[h].op = "idle" /\ revoked' = revoked \cup {t}
        /\ Session!Set(h, [op |-> "logout", at |-> "body", after |-> ended])
        /\ UNCHANGED <<redis, store, grant, active, unexpired, issued, ended, late,
                       exchanged, overlapped, forgotten>>
    BY <1>18 DEF Session!BeginLogout, Session!Enter, Session!storeVars, Session!tokenVars, Session!historyVars
  <2> DEFINE r == [op |-> "logout", at |-> "body", after |-> ended]
  <2>2. r \in Asks /\ r.op = "logout" /\ r.at = "body" /\ r.after = ended
    BY <1>1, <1>2, <1>3, <2>1 DEF Asks
  <2> HIDE DEF r
  <2>3. /\ using' \in [Requests -> Asks]
        /\ using'[h].op = "logout" /\ using'[h].at = "body" /\ using'[h].after = ended
        /\ \A g \in Requests \ {h} : using'[g] = using[g]
    BY <1>1, <2>1, <2>2, UsingMoves DEF r
  <2>4. SessionTypes'
    BY <1>1, <2>1, <2>3 DEF SessionTypes, Session!Doors
  <2>5. StateInv'
    BY <1>1, <1>2, <2>1, <2>3 DEF StateInv, RequestInv, Shaped, Exchanges, Storing
  <2>6. RequestInv(using[h])'
    BY <1>1, <1>2, <2>1, <2>3 DEF RequestInv, StateInv, Shaped, Exchanges, Storing
  <2>7. ASSUME NEW g \in Requests, g # h PROVE RequestInv(using[g])'
    <3>1. RequestInv(using[g]) /\ using'[g] = using[g] /\ Apart(g, h) /\ Apart(h, g)
      BY <1>2, <2>3, <2>7
    <3> QED BY <1>1, <1>2, <2>1, <3>1 DEF RequestInv, StateInv, Shaped, Exchanges, Storing, Apart
  <2>8. \A g, k \in Requests : Apart(g, k)'
    BY <1>1, <1>2, <2>1, <2>3 DEF Apart, RequestInv, StateInv, Shaped, Exchanges, Storing
  <2> QED BY <2>4, <2>5, <2>6, <2>7, <2>8 DEF SessionInv
<1>19. ASSUME NEW h \in Requests, Session!EndLogout(h) PROVE SessionInv'
  <2>1. /\ using[h].op = "logout" /\ using[h].at = "body"
        /\ \/ revoked' = revoked /\ ended' = ended
           \/ /\ Session!Refresh \in unexpired
              /\ revoked' = revoked \cup {Session!Refresh}
              /\ ended' = ended \cup {"session"}
        /\ Session!Set(h, Session!Resting)
        /\ UNCHANGED <<redis, store, grant, active, unexpired, issued, late, exchanged,
                       overlapped, forgotten>>
    BY <1>19 DEF Session!EndLogout, Session!Rest, Session!At, Session!storeVars, Session!tokenVars, Session!historyVars
  <2> DEFINE r == Session!Resting
  <2>2. r \in Asks /\ r.op = "idle" /\ r.at = "" /\ r.after = {}
    BY <1>1, <1>2, <1>3, <2>1 DEF Asks, Session!Resting
  <2> HIDE DEF r
  <2>3. /\ using' \in [Requests -> Asks]
        /\ using'[h].op = "idle" /\ using'[h].at = "" /\ using'[h].after = {}
        /\ \A g \in Requests \ {h} : using'[g] = using[g]
    BY <1>1, <2>1, <2>2, UsingMoves DEF r
  <2>4. SessionTypes'
    BY <1>1, <2>1, <2>3 DEF SessionTypes, Session!Doors
  <2>5. StateInv'
    BY <1>1, <1>2, <2>1, <2>3 DEF StateInv, RequestInv, Shaped, Exchanges, Storing
  <2>6. RequestInv(using[h])'
    BY <1>1, <1>2, <2>1, <2>3 DEF RequestInv, StateInv, Shaped, Exchanges, Storing
  <2>7. ASSUME NEW g \in Requests, g # h PROVE RequestInv(using[g])'
    <3>1. RequestInv(using[g]) /\ using'[g] = using[g] /\ Apart(g, h) /\ Apart(h, g)
      BY <1>2, <2>3, <2>7
    <3> QED BY <1>1, <1>2, <2>1, <3>1 DEF RequestInv, StateInv, Shaped, Exchanges, Storing, Apart
  <2>8. \A g, k \in Requests : Apart(g, k)'
    BY <1>1, <1>2, <2>1, <2>3 DEF Apart, RequestInv, StateInv, Shaped, Exchanges, Storing
  <2> QED BY <2>4, <2>5, <2>6, <2>7, <2>8 DEF SessionInv
<1>20. ASSUME NEW h \in Requests, Session!BeginLinkLogin(h) PROVE SessionInv'
  <2>1. /\ "link" \in store /\ using[h].op = "idle"
        /\ Session!Set(h, [op |-> "link", at |-> "account", after |-> ended])
        /\ UNCHANGED <<redis, store, grant, active, unexpired, revoked, issued, ended,
                       late, exchanged, overlapped, forgotten>>
    BY <1>20 DEF Session!BeginLinkLogin, Session!Enter, Session!storeVars, Session!tokenVars, Session!historyVars
  <2> DEFINE r == [op |-> "link", at |-> "account", after |-> ended]
  <2>2. r \in Asks /\ r.op = "link" /\ r.at = "account" /\ r.after = ended
    BY <1>1, <1>2, <1>3, <2>1 DEF Asks
  <2> HIDE DEF r
  <2>3. /\ using' \in [Requests -> Asks]
        /\ using'[h].op = "link" /\ using'[h].at = "account" /\ using'[h].after = ended
        /\ \A g \in Requests \ {h} : using'[g] = using[g]
    BY <1>1, <2>1, <2>2, UsingMoves DEF r
  <2>4. SessionTypes'
    BY <1>1, <2>1, <2>3 DEF SessionTypes, Session!Doors
  <2>5. StateInv'
    BY <1>1, <1>2, <2>1, <2>3 DEF StateInv, RequestInv, Shaped, Exchanges, Storing
  <2>6. RequestInv(using[h])'
    BY <1>1, <1>2, <2>1, <2>3 DEF RequestInv, StateInv, Shaped, Exchanges, Storing
  <2>7. ASSUME NEW g \in Requests, g # h PROVE RequestInv(using[g])'
    <3>1. RequestInv(using[g]) /\ using'[g] = using[g] /\ Apart(g, h) /\ Apart(h, g)
      BY <1>2, <2>3, <2>7
    <3> QED BY <1>1, <1>2, <2>1, <3>1 DEF RequestInv, StateInv, Shaped, Exchanges, Storing, Apart
  <2>8. \A g, k \in Requests : Apart(g, k)'
    BY <1>1, <1>2, <2>1, <2>3 DEF Apart, RequestInv, StateInv, Shaped, Exchanges, Storing
  <2> QED BY <2>4, <2>5, <2>6, <2>7, <2>8 DEF SessionInv
<1>21. ASSUME NEW h \in Requests, Session!EndLinkLogin(h) PROVE SessionInv'
  <2>1. /\ using[h].op = "link" /\ using[h].at = "account"
        /\ late' = late \cup ({"link"} \cap using[h].after)
        /\ Session!Set(h, Session!Resting)
        /\ UNCHANGED <<redis, store, grant, active, unexpired, revoked, issued, ended,
                       exchanged, overlapped, forgotten>>
    BY <1>21 DEF Session!EndLinkLogin, Session!Pass, Session!Rest, Session!At, Session!storeVars, Session!tokenVars, Session!historyVars
  <2> DEFINE r == Session!Resting
  <2>2. r \in Asks /\ r.op = "idle" /\ r.at = "" /\ r.after = {}
    BY <1>1, <1>2, <1>3, <2>1 DEF Asks, Session!Resting
  <2> HIDE DEF r
  <2>3. /\ using' \in [Requests -> Asks]
        /\ using'[h].op = "idle" /\ using'[h].at = "" /\ using'[h].after = {}
        /\ \A g \in Requests \ {h} : using'[g] = using[g]
    BY <1>1, <2>1, <2>2, UsingMoves DEF r
  <2>4. SessionTypes'
    BY <1>1, <2>1, <2>3 DEF SessionTypes, Session!Doors
  <2>5. StateInv'
    BY <1>1, <1>2, <2>1, <2>3 DEF StateInv, RequestInv, Shaped, Exchanges, Storing
  <2>6. RequestInv(using[h])'
    BY <1>1, <1>2, <2>1, <2>3 DEF RequestInv, StateInv, Shaped, Exchanges, Storing
  <2>7. ASSUME NEW g \in Requests, g # h PROVE RequestInv(using[g])'
    <3>1. RequestInv(using[g]) /\ using'[g] = using[g] /\ Apart(g, h) /\ Apart(h, g)
      BY <1>2, <2>3, <2>7
    <3> QED BY <1>1, <1>2, <2>1, <3>1 DEF RequestInv, StateInv, Shaped, Exchanges, Storing, Apart
  <2>8. \A g, k \in Requests : Apart(g, k)'
    BY <1>1, <1>2, <2>1, <2>3 DEF Apart, RequestInv, StateInv, Shaped, Exchanges, Storing
  <2> QED BY <2>4, <2>5, <2>6, <2>7, <2>8 DEF SessionInv
<1>22. ASSUME NEW h \in Requests, Session!AskProvider(h) PROVE SessionInv'
  <2>1. /\ using[h].op = "callback" /\ using[h].at = "taken"
        /\ \/ /\ grant = "fresh" /\ grant' = "used"
              /\ Session!Set(h, [using[h] EXCEPT !.at = "account"])
           \/ grant' = grant /\ Session!Set(h, Session!Resting)
        /\ UNCHANGED <<redis, store, active, unexpired, revoked, issued, ended, late,
                       exchanged, overlapped, forgotten>>
    BY <1>22 DEF Session!AskProvider, Session!Next1, Session!Rest, Session!At, Session!storeVars, Session!tokenVars, Session!historyVars
  <2> DEFINE r == IF grant' = grant THEN Session!Resting ELSE [using[h] EXCEPT !.at = "account"]
  <2>2. r \in Asks /\ r.op = (IF grant' = grant THEN "idle" ELSE "callback") /\ r.at = (IF grant' = grant THEN "" ELSE "account") /\ r.after = (IF grant' = grant THEN {} ELSE using[h].after)
    BY <1>1, <1>2, <1>3, <2>1 DEF Asks, Session!Resting
  <2> HIDE DEF r
  <2>3. /\ using' \in [Requests -> Asks]
        /\ using'[h].op = (IF grant' = grant THEN "idle" ELSE "callback") /\ using'[h].at = (IF grant' = grant THEN "" ELSE "account") /\ using'[h].after = (IF grant' = grant THEN {} ELSE using[h].after)
        /\ \A g \in Requests \ {h} : using'[g] = using[g]
    BY <1>1, <2>1, <2>2, UsingMoves DEF r
  <2>4. SessionTypes'
    BY <1>1, <2>1, <2>3 DEF SessionTypes, Session!Doors
  <2>5. StateInv'
    BY <1>1, <1>2, <2>1, <2>3 DEF StateInv, RequestInv, Shaped, Exchanges, Storing
  <2>6. RequestInv(using[h])'
    BY <1>1, <1>2, <2>1, <2>3 DEF RequestInv, StateInv, Shaped, Exchanges, Storing
  <2>7. ASSUME NEW g \in Requests, g # h PROVE RequestInv(using[g])'
    <3>1. RequestInv(using[g]) /\ using'[g] = using[g] /\ Apart(g, h) /\ Apart(h, g)
      BY <1>2, <2>3, <2>7
    <3> QED BY <1>1, <1>2, <2>1, <3>1 DEF RequestInv, StateInv, Shaped, Exchanges, Storing, Apart
  <2>8. \A g, k \in Requests : Apart(g, k)'
    BY <1>1, <1>2, <2>1, <2>3 DEF Apart, RequestInv, StateInv, Shaped, Exchanges, Storing
  <2> QED BY <2>4, <2>5, <2>6, <2>7, <2>8 DEF SessionInv
<1>23. ASSUME NEW t, Session!OpenSocket(t) PROVE SessionInv'
  <2>1. /\ late' \subseteq late \cup {"socket"}
        /\ UNCHANGED <<redis, store, grant, active, unexpired, revoked, issued, using,
                       ended, exchanged, overlapped, forgotten>>
    BY <1>23 DEF Session!OpenSocket, Session!storeVars, Session!tokenVars
  <2>2. SessionTypes' /\ \A g, k \in Requests : Apart(g, k)'
    BY <1>1, <1>2, <2>1 DEF SessionTypes, Apart, Exchanges, Storing
  <2>3. StateInv'
    BY <1>1, <2>1 DEF StateInv
  <2>4. ASSUME NEW g \in Requests PROVE RequestInv(using[g])'
    BY <1>1, <1>2, <2>1 DEF RequestInv, Shaped, Exchanges, Storing
  <2> QED BY <2>2, <2>3, <2>4 DEF SessionInv
<1>24. ASSUME NEW t, Session!EvictRevoked(t) PROVE SessionInv'
  <2>1. /\ ~redis /\ revoked' = revoked \ {t}
        /\ forgotten' = (forgotten \/ Session!Refresh \in {t})
        /\ UNCHANGED <<redis, store, grant, active, unexpired, issued, using, ended, late,
                       exchanged, overlapped>>
    BY <1>24 DEF Session!EvictRevoked, Session!Forget, Session!storeVars,
       Session!historyVars
  <2>2. SessionTypes' /\ \A g, k \in Requests : Apart(g, k)'
    BY <1>1, <1>2, <2>1 DEF SessionTypes, Apart, Exchanges, Storing
  <2>3. StateInv'
    BY <1>1, <2>1 DEF StateInv
  <2>4. ASSUME NEW g \in Requests PROVE RequestInv(using[g])'
    BY <1>1, <1>2, <2>1 DEF RequestInv, StateInv, Shaped, Exchanges, Storing
  <2> QED BY <2>2, <2>3, <2>4 DEF SessionInv
<1>25. ASSUME NEW dead \in SUBSET Requests, Session!Restart(dead) PROVE SessionInv'
  <2>1. /\ using' = [h \in Requests |-> IF h \in dead THEN Session!Resting ELSE using[h]]
        /\ \/ redis /\ UNCHANGED <<store, revoked, forgotten>>
           \/ /\ ~redis /\ dead = Requests /\ store' = {} /\ revoked' = revoked \ revoked
              /\ forgotten' = (forgotten \/ Session!Refresh \in revoked)
        /\ UNCHANGED <<redis, grant, active, unexpired, issued, ended, late, exchanged,
                       overlapped>>
    BY <1>1, <1>25 DEF Session!Restart, Session!Forget, Session!historyVars, StateInv
  <2>2. /\ store' \subseteq store /\ (forgotten => forgotten')
        /\ \A g \in Requests :
              \/ using'[g] = Session!Resting
              \/ /\ using'[g] = using[g] /\ redis
                 /\ UNCHANGED <<store, revoked, forgotten>>
    <3>1. CASE redis /\ UNCHANGED <<store, revoked, forgotten>>
      BY <2>1, <3>1
    <3>2. CASE ~redis /\ dead = Requests /\ store' = {}
               /\ forgotten' = (forgotten \/ Session!Refresh \in revoked)
      BY <2>1, <3>2
    <3> QED BY <2>1, <3>1, <3>2
  <2>3. /\ Session!Resting.op = "idle" /\ Session!Resting.at = ""
        /\ Session!Resting.after = {}
    BY DEF Session!Resting
  <2>4. SessionTypes'
    BY <1>1, <1>3, <2>1 DEF SessionTypes
  <2>5. StateInv'
    BY <1>1, <2>1, <2>2 DEF StateInv
  <2>6. ASSUME NEW g \in Requests PROVE RequestInv(using[g])'
    <3>1. CASE using'[g] = Session!Resting
      BY <2>3, <3>1 DEF RequestInv, Shaped, Exchanges, Storing
    <3>2. CASE using'[g] = using[g] /\ redis /\ UNCHANGED <<store, revoked, forgotten>>
      BY <1>2, <2>1, <3>2 DEF RequestInv, Shaped, Exchanges, Storing
    <3> QED BY <2>2, <3>1, <3>2
  <2>7. \A g, k \in Requests : Apart(g, k)'
    BY <1>2, <2>1, <2>2, <2>3 DEF Apart, Exchanges, Storing
  <2> QED BY <2>4, <2>5, <2>6, <2>7 DEF SessionInv
<1>26. CASE UNCHANGED sessions
  BY <1>26 DEF sessions, SessionInv, SessionTypes, StateInv, RequestInv, Shaped, Apart,
     Exchanges, Storing
<1> QED BY <1>4, <1>5, <1>6, <1>7, <1>8, <1>9, <1>10, <1>11, <1>12, <1>13, <1>14, <1>15, <1>16, <1>17, <1>18, <1>19, <1>20, <1>21, <1>22, <1>23, <1>24, <1>25, <1>26
        DEF Session!TokensNext, Session!Callback, Session!Exchange

(* SignInKept: the lock bounds the wrong guesses, what was ended lets      *)
(* nobody in, and a sign-in is handed out once.                            *)
THEOREM SigningInIsSafe == GovernanceSpec => []SignInKept
<1>1. GovernanceInit => LoginInv /\ SessionInv
  BY LoginInitially, SessionInitially
<1>2. LoginInv /\ [GovernanceNext]_governanceVars => LoginInv'
  BY LoginStep, LoginsMove
<1>3. SessionInv /\ [GovernanceNext]_governanceVars => SessionInv'
  BY SessionStep, SessionsMove
<1>4. LoginInv /\ SessionInv => SignInKept
  <2> SUFFICES ASSUME LoginInv, SessionInv PROVE SignInKept
    OBVIOUS
  <2>1. Login!GuessesBounded
    BY LoginsBounded
  <2>2. Session!RevocationHolds
    BY DEF SessionInv, StateInv, Session!RevocationHolds
  <2>3. exchanged \in Nat /\ (~overlapped => exchanged <= 1) /\ (~redis => ~overlapped)
    BY DEF SessionInv, StateInv, SessionTypes
  <2>4. Session!HandedOutOnce
    BY <2>3 DEF Session!HandedOutOnce
  <2> QED BY <2>1, <2>2, <2>4 DEF SignInKept
<1> QED BY <1>1, <1>2, <1>3, <1>4, PTL DEF GovernanceSpec

-----------------------------------------------------------------------------
(* Connecting integrations                                                 *)

SettingsRows == [map: [Providers -> Connections!Entries], siem: Siems \cup {"none"}]
SettingsOps == {"idle", "save", "connect", "disconnect", "verify", "exchange"}
SettingsRequests ==
    [op: SettingsOps, provider: Providers, writes: SUBSET {"map", "siem"},
     new: SettingsRows]

Has(s) == {p \in Providers : s.map[p] # "none"}

ConnectionTypes ==
    /\ settings \in SettingsRows
    /\ live \subseteq OauthProviders /\ pending \subseteq live
    /\ connecting \in [Requests -> SettingsRequests]
    /\ known \subseteq Providers

(* The map a request will write has all known connections, but the one it  *)
(* removes; a request that connects writes the map.                        *)
KeepsKnown(r) ==
    /\ r.op = "connect" => "map" \in r.writes /\ r.provider \in Has(r.new)
    /\ r.op \in {"connect", "verify"} /\ "map" \in r.writes => known \subseteq Has(r.new)
    /\ r.op = "disconnect" /\ "map" \in r.writes
          => known \ {r.provider} \subseteq Has(r.new)

ConnectionInv ==
    /\ ConnectionTypes
    /\ known \subseteq Has(settings)
    /\ \A h \in Requests : KeepsKnown(connecting[h])

LEMMA RestingConnection ==
    /\ Connections!Empty \in SettingsRows
    /\ Connections!Resting \in SettingsRequests
    /\ Connections!Resting.op = "idle" /\ Connections!Resting.new = Connections!Empty
<1>1. AwsProvider \in Providers
  BY GovernanceAssumption
<1>2. Connections!Empty \in SettingsRows
  BY DEF Connections!Empty, Connections!NoSiem, SettingsRows, Connections!Entries
<1> QED BY <1>1, <1>2 DEF Connections!Resting, SettingsRequests, SettingsOps

LEMMA ConnectionInitially == GovernanceInit => ConnectionInv
<1> SUFFICES ASSUME GovernanceInit PROVE ConnectionInv
  OBVIOUS
<1>1. /\ live \in SUBSET (OauthProviders \ {AwsProvider}) /\ settings = Connections!Empty
      /\ pending = {} /\ connecting = [h \in Requests |-> Connections!Resting]
      /\ known = {}
  BY DEF GovernanceInit, Connections!IntegrationsInit
<1>2. connecting \in [Requests -> SettingsRequests]
  BY <1>1, RestingConnection
<1>3. ConnectionTypes
  BY <1>1, <1>2, RestingConnection DEF ConnectionTypes
<1>4. \A h \in Requests : KeepsKnown(connecting[h])
  BY <1>1, RestingConnection DEF KeepsKnown
<1> QED BY <1>1, <1>3, <1>4 DEF ConnectionInv

(* One request changes, and the row does not.                              *)
LEMMA ConnectionMoves ==
    ASSUME ConnectionInv, NEW h \in Requests, NEW r \in SettingsRequests,
           connecting' = [connecting EXCEPT ![h] = r],
           UNCHANGED <<live, settings, known>>, pending' \subseteq live,
           KeepsKnown(r)
    PROVE  ConnectionInv'
<1>1. /\ connecting' \in [Requests -> SettingsRequests] /\ connecting'[h] = r
      /\ \A g \in Requests \ {h} : connecting'[g] = connecting[g]
  BY DEF ConnectionInv, ConnectionTypes
<1>2. ConnectionTypes'
  BY <1>1 DEF ConnectionInv, ConnectionTypes
<1>3. ASSUME NEW g \in Requests PROVE KeepsKnown(connecting[g])'
  <2>1. KeepsKnown(connecting[g])
    BY DEF ConnectionInv
  <2>2. CASE g = h
    BY <1>1, <2>2 DEF KeepsKnown
  <2>3. CASE g # h
    BY <1>1, <2>1, <2>3 DEF KeepsKnown
  <2> QED BY <2>2, <2>3
<1>4. (known \subseteq Has(settings))'
  BY DEF ConnectionInv, Has
<1> QED BY <1>2, <1>3, <1>4 DEF ConnectionInv

(* Loading keeps the invariant when the new map has what is known.         *)
LEMMA LoadKeeps ==
    ASSUME ConnectionInv, NEW h \in Requests,
           NEW op \in {"save", "connect", "disconnect", "verify"},
           NEW p \in Providers, NEW new \in SettingsRows,
           NEW writes \in SUBSET {"map", "siem"},
           connecting' = [connecting EXCEPT ![h] =
                            Connections!Loaded(op, p, new, writes)],
           UNCHANGED <<live, settings, known>>, pending' \subseteq live,
           op = "connect" => "map" \in writes /\ p \in Has(new),
           op \in {"connect", "verify"} /\ "map" \in writes => known \subseteq Has(new),
           op = "disconnect" => known \ {p} \subseteq Has(new)
    PROVE  ConnectionInv'
<1> DEFINE r == Connections!Loaded(op, p, new, writes)
           n == [c \in {"map", "siem"} |-> IF c \in writes THEN new[c]
                                                           ELSE Connections!Empty[c]]
<1>1. r = [op |-> op, provider |-> p, writes |-> writes, new |-> n]
  BY DEF Connections!Loaded, Connections!Columns
<1>2. /\ n.map = IF "map" \in writes THEN new.map ELSE Connections!Empty.map
      /\ n.siem = IF "siem" \in writes THEN new.siem ELSE Connections!Empty.siem
  OBVIOUS
<1>3. n \in SettingsRows
  BY <1>2, RestingConnection DEF SettingsRows
<1> HIDE DEF n
<1>4. r \in SettingsRequests
  BY <1>1, <1>3 DEF SettingsRequests, SettingsOps
<1>5. /\ r.op = op /\ r.provider = p /\ r.writes = writes
      /\ "map" \in writes => Has(r.new) = Has(new)
  BY <1>1, <1>2 DEF Has
<1> HIDE DEF r
<1>6. KeepsKnown(r)
  BY <1>5 DEF KeepsKnown
<1>7. connecting' = [connecting EXCEPT ![h] = r]
  BY DEF r
<1> QED BY <1>4, <1>6, <1>7, ConnectionMoves

(* The same for a request that writes what it has changed.                 *)
LEMMA ChangeKeeps ==
    ASSUME ConnectionInv, NEW h \in Requests,
           NEW op \in {"save", "connect", "disconnect", "verify"},
           NEW p \in Providers, NEW new \in SettingsRows,
           Connections!Change(h, op, p, new),
           op = "connect" => p \in Has(new),
           op \in {"connect", "verify"} => known \subseteq Has(new),
           op = "disconnect" => known \ {p} \subseteq Has(new)
    PROVE  ConnectionInv'
<1> DEFINE writes == Connections!Changed(new) \cup IF op = "connect" THEN {"map"} ELSE {}
<1>1. /\ connecting' = [connecting EXCEPT ![h] =
                          Connections!Loaded(op, p, new, writes)]
      /\ UNCHANGED <<live, settings, known, pending>>
  BY DEF Connections!Change, Connections!Load
<1>2. writes \in SUBSET {"map", "siem"} /\ (op = "connect" => "map" \in writes)
  BY DEF Connections!Changed, Connections!Columns
<1> HIDE DEF writes
<1>3. pending' \subseteq live
  BY <1>1 DEF ConnectionInv, ConnectionTypes
<1> QED BY <1>1, <1>2, <1>3, LoadKeeps

(* The row with one entry changed.                                         *)
LEMMA WithEntry ==
    ASSUME settings \in SettingsRows, NEW p \in Providers,
           NEW entry \in Connections!Entries
    PROVE  /\ Connections!With(p, entry) \in SettingsRows
           /\ Has(settings) \ {p} \subseteq Has(Connections!With(p, entry))
           /\ entry # "none" => /\ Has(settings) \subseteq Has(Connections!With(p, entry))
                                /\ p \in Has(Connections!With(p, entry))
<1> DEFINE w == Connections!With(p, entry)
<1>1. w = [settings EXCEPT !.map = [settings.map EXCEPT ![p] = entry]]
  BY DEF Connections!With
<1>2. settings.map \in [Providers -> Connections!Entries]
  BY DEF SettingsRows
<1>3. [settings.map EXCEPT ![p] = entry] \in [Providers -> Connections!Entries]
  BY <1>2
<1>4. w \in SettingsRows /\ w.map = [settings.map EXCEPT ![p] = entry]
  BY <1>1, <1>3 DEF SettingsRows
<1> HIDE DEF w
<1>5. w.map[p] = entry /\ \A q \in Providers \ {p} : w.map[q] = settings.map[q]
  BY <1>2, <1>4
<1> QED BY <1>4, <1>5 DEF Has, w

(* A commit writes columns, and keeps what is known.                       *)
LEMMA CommitKeeps ==
    ASSUME ConnectionInv, NEW h \in Requests, Connections!Commit(h)
    PROVE  ConnectionInv'
<1> DEFINE r == connecting[h]
<1>1. /\ r \in SettingsRequests /\ KeepsKnown(r) /\ known \subseteq Has(settings)
      /\ settings \in SettingsRows /\ known \subseteq Providers
      /\ connecting \in [Requests -> SettingsRequests]
  BY DEF ConnectionInv, ConnectionTypes
<1>2. r.new \in SettingsRows /\ r.provider \in Providers
  BY <1>1 DEF SettingsRequests
<1>3. /\ r.op \in {"save", "connect", "disconnect", "verify"}
      /\ settings' = [c \in {"map", "siem"} |-> IF c \in r.writes THEN r.new[c]
                                                                 ELSE settings[c]]
      /\ connecting' = [connecting EXCEPT ![h] = Connections!Resting]
      /\ UNCHANGED <<live, pending>>
  BY DEF Connections!Commit, Connections!Columns
<1>4. /\ settings'.map = IF "map" \in r.writes THEN r.new.map ELSE settings.map
      /\ settings'.siem = IF "siem" \in r.writes THEN r.new.siem ELSE settings.siem
  BY <1>3
<1>5. settings' \in SettingsRows
  BY <1>1, <1>2, <1>3, <1>4 DEF SettingsRows
<1>6. Has(settings') = IF "map" \in r.writes THEN Has(r.new) ELSE Has(settings)
  BY <1>4 DEF Has
<1>7. /\ r.op = "connect" => known' \subseteq known \cup {r.provider}
      /\ r.op = "verify" => known' \subseteq known
      /\ r.op = "disconnect" => known' \subseteq known \ {r.provider}
      /\ r.op = "save" => /\ known' \subseteq known
                          /\ "map" \in r.writes => known' \subseteq Has(r.new)
  BY <1>1, <1>3 DEF Connections!Commit, Connections!Connected, Has
<1>8. known' \subseteq Has(settings')
  BY <1>1, <1>3, <1>6, <1>7 DEF KeepsKnown
<1>9. /\ connecting' \in [Requests -> SettingsRequests]
      /\ connecting'[h] = Connections!Resting
      /\ \A g \in Requests \ {h} : connecting'[g] = connecting[g]
  BY <1>1, <1>3, RestingConnection
<1>10. known' \subseteq Providers
  BY <1>8 DEF Has
<1>11. ConnectionTypes'
  BY <1>3, <1>5, <1>9, <1>10 DEF ConnectionInv, ConnectionTypes
<1>12. ASSUME NEW g \in Requests PROVE KeepsKnown(connecting[g])'
  <2>1. CASE g = h
    BY <1>9, <2>1, RestingConnection DEF KeepsKnown
  <2>2. CASE g # h
    <3>1. KeepsKnown(connecting[g]) /\ connecting'[g] = connecting[g]
      BY <1>9, <2>2 DEF ConnectionInv
    <3>2. CASE known' \subseteq known
      BY <3>1, <3>2 DEF KeepsKnown
    <3>3. CASE ~(known' \subseteq known)
      <4>1. \A k \in Requests \ {h} : connecting[k].op \in {"idle", "exchange"}
        BY <1>3, <3>3 DEF Connections!Commit
      <4> QED BY <2>2, <3>1, <4>1 DEF KeepsKnown
    <3> QED BY <3>2, <3>3
  <2> QED BY <2>1, <2>2
<1>13. (known \subseteq Has(settings))'
  BY <1>8 DEF Has
<1> QED BY <1>11, <1>12, <1>13 DEF ConnectionInv

LEMMA ConnectionStep ==
    ConnectionInv /\ [Connections!IntegrationsNext]_connections => ConnectionInv'
<1> SUFFICES ASSUME ConnectionInv, [Connections!IntegrationsNext]_connections
             PROVE  ConnectionInv'
  OBVIOUS
<1>1. /\ settings \in SettingsRows /\ known \subseteq Has(settings)
      /\ live \subseteq OauthProviders /\ pending \subseteq live
      /\ OauthProviders \subseteq Providers /\ AwsProvider \in Providers
      /\ connecting \in [Requests -> SettingsRequests]
  BY GovernanceAssumption DEF ConnectionInv, ConnectionTypes
<1>2. /\ {"none", "stored", "verified"} = Connections!Entries
      /\ settings.siem \in Siems \cup {"none"}
      /\ settings.map \in [Providers -> Connections!Entries]
  BY <1>1 DEF Connections!Entries, SettingsRows
<1>3. ASSUME NEW h \in Requests, Connections!SaveConfig(h) PROVE ConnectionInv'
  <2>1. CASE \E s \in Siems \cup {Connections!NoSiem} :
               Connections!Change(h, "save", AwsProvider, [settings EXCEPT !.siem = s])
    <3> PICK s \in Siems \cup {"none"} :
               Connections!Change(h, "save", AwsProvider, [settings EXCEPT !.siem = s])
      BY <2>1 DEF Connections!NoSiem
    <3>1. [settings EXCEPT !.siem = s] \in SettingsRows
      BY <1>1 DEF SettingsRows
    <3> QED BY <1>1, <3>1, ChangeKeeps
  <2>2. CASE \E P \in SUBSET Providers :
               Connections!Change(h, "save", AwsProvider,
                   [settings EXCEPT !.map = [p \in Providers |->
                       IF p \in P THEN settings.map[p] ELSE "none"]])
    <3> PICK P \in SUBSET Providers :
               Connections!Change(h, "save", AwsProvider,
                   [settings EXCEPT !.map = [p \in Providers |->
                       IF p \in P THEN settings.map[p] ELSE "none"]])
      BY <2>2
    <3>1. [p \in Providers |-> IF p \in P THEN settings.map[p] ELSE "none"]
             \in [Providers -> Connections!Entries]
      BY <1>2
    <3>2. [settings EXCEPT !.map = [p \in Providers |->
                       IF p \in P THEN settings.map[p] ELSE "none"]] \in SettingsRows
      BY <1>1, <3>1 DEF SettingsRows
    <3> QED BY <1>1, <3>2, ChangeKeeps
  <2> QED BY <1>3, <2>1, <2>2 DEF Connections!SaveConfig
<1>4. ASSUME NEW h \in Requests, NEW p \in Providers, Connections!Connect(h, p)
      PROVE  ConnectionInv'
  <2> DEFINE w == Connections!With(p, "stored")
             new == [w EXCEPT !.siem = IF p \in Siems THEN p ELSE @]
  <2>1. Connections!Change(h, "connect", p, new)
    BY <1>4 DEF Connections!Connect
  <2>2. /\ w \in SettingsRows /\ Has(settings) \subseteq Has(w) /\ p \in Has(w)
    BY <1>1, <1>2, WithEntry
  <2> HIDE DEF w
  <2>3. new \in SettingsRows /\ new.map = w.map
    BY <2>2 DEF SettingsRows
  <2>4. Has(new) = Has(w)
    BY <2>3 DEF Has
  <2> HIDE DEF new
  <2> QED BY <1>1, <2>1, <2>2, <2>3, <2>4, ChangeKeeps
<1>5. ASSUME NEW h \in Requests, NEW p \in Providers, Connections!Disconnect(h, p)
      PROVE  ConnectionInv'
  <2> DEFINE w == Connections!With(p, "none")
             new == [w EXCEPT !.siem = IF @ = p THEN Connections!NoSiem ELSE @]
  <2>1. Connections!Change(h, "disconnect", p, new)
    BY <1>5 DEF Connections!Disconnect
  <2>2. w \in SettingsRows /\ Has(settings) \ {p} \subseteq Has(w)
    BY <1>1, <1>2, WithEntry
  <2> HIDE DEF w
  <2>3. new \in SettingsRows /\ new.map = w.map
    BY <2>2 DEF SettingsRows, Connections!NoSiem
  <2>4. Has(new) = Has(w)
    BY <2>3 DEF Has
  <2> HIDE DEF new
  <2> QED BY <1>1, <2>1, <2>2, <2>3, <2>4, ChangeKeeps
<1>6. ASSUME NEW h \in Requests, NEW p \in Providers, NEW op \in {"connect", "verify"},
             NEW entry \in {"stored", "verified"},
             Connections!Change(h, op, p, Connections!With(p, entry))
      PROVE  ConnectionInv'
  <2>1. /\ Connections!With(p, entry) \in SettingsRows
        /\ Has(settings) \subseteq Has(Connections!With(p, entry))
        /\ p \in Has(Connections!With(p, entry))
    BY <1>1, <1>2, WithEntry
  <2> QED BY <1>1, <1>6, <2>1, ChangeKeeps
<1>7. ASSUME NEW h \in Requests, NEW p \in Providers, Connections!ConnectDemo(h, p)
      PROVE  ConnectionInv'
  BY <1>6, <1>7 DEF Connections!ConnectDemo
<1>8. ASSUME NEW h \in Requests, NEW p \in Providers, Connections!VerifySiem(h, p)
      PROVE  ConnectionInv'
  BY <1>6, <1>8 DEF Connections!VerifySiem
<1>9. ASSUME NEW h \in Requests, Connections!ConnectRole(h) \/ Connections!ConnectIamRole(h)
      PROVE  ConnectionInv'
  BY <1>1, <1>6, <1>9 DEF Connections!ConnectRole, Connections!ConnectIamRole
<1>10. ASSUME NEW h \in Requests, NEW p \in Providers, Connections!VerifyEntry(h, p)
       PROVE  ConnectionInv'
  <2>1. /\ connecting' = [connecting EXCEPT ![h] =
                            Connections!Loaded("verify", p, settings, {})]
        /\ UNCHANGED <<live, settings, known, pending>>
    BY <1>10 DEF Connections!VerifyEntry, Connections!Load
  <2>2. /\ pending' \subseteq live /\ {} \in SUBSET {"map", "siem"}
        /\ "verify" \in {"save", "connect", "disconnect", "verify"} /\ "map" \notin {}
    BY <1>1, <2>1
  <2> QED BY <1>1, <2>1, <2>2, LoadKeeps
<1>11. ASSUME NEW h \in Requests, NEW p \in Providers, Connections!Callback(h, p)
       PROVE  ConnectionInv'
  <2> DEFINE r == [Connections!Resting EXCEPT !.op = "exchange", !.provider = p]
  <2>1. /\ connecting' = [connecting EXCEPT ![h] = r]
        /\ pending' = pending \ {p} /\ UNCHANGED <<live, settings, known>>
    BY <1>11 DEF Connections!Callback
  <2>2. r \in SettingsRequests /\ r.op = "exchange"
    BY RestingConnection DEF SettingsRequests, SettingsOps
  <2> HIDE DEF r
  <2>3. KeepsKnown(r) /\ pending' \subseteq live
    BY <1>1, <2>1, <2>2 DEF KeepsKnown
  <2> QED BY <2>1, <2>2, <2>3, ConnectionMoves
<1>12. ASSUME NEW h \in Requests, Connections!StoreConnection(h) PROVE ConnectionInv'
  <2> DEFINE p == connecting[h].provider
  <2>1. p \in Providers
    BY <1>1 DEF SettingsRequests
  <2>2. UNCHANGED <<live, settings, pending, known>> /\ pending' \subseteq live
    BY <1>1, <1>12 DEF Connections!StoreConnection
  <2>3. CASE Connections!Allowed
    <3>1. connecting' = [connecting EXCEPT ![h] =
             Connections!Loaded("connect", p, Connections!With(p, "stored"), {"map"})]
      BY <1>12, <2>3 DEF Connections!StoreConnection
    <3>2. /\ Connections!With(p, "stored") \in SettingsRows
          /\ Has(settings) \subseteq Has(Connections!With(p, "stored"))
          /\ p \in Has(Connections!With(p, "stored"))
      BY <1>1, <1>2, <2>1, WithEntry
    <3> DEFINE new == Connections!With(p, "stored")
    <3>3. /\ {"map"} \in SUBSET {"map", "siem"} /\ "map" \in {"map"}
          /\ "connect" \in {"save", "connect", "disconnect", "verify"}
          /\ new \in SettingsRows /\ p \in Has(new) /\ known \subseteq Has(new)
          /\ connecting' = [connecting EXCEPT ![h] =
                              Connections!Loaded("connect", p, new, {"map"})]
      BY <1>1, <3>1, <3>2
    <3> HIDE DEF new, p
    <3> QED BY <2>1, <2>2, <3>3, LoadKeeps
  <2>4. CASE ~Connections!Allowed
    <3>1. connecting' = [connecting EXCEPT ![h] = Connections!Resting]
      BY <1>12, <2>4 DEF Connections!StoreConnection
    <3>2. KeepsKnown(Connections!Resting)
      BY RestingConnection DEF KeepsKnown
    <3> QED BY <2>2, <3>1, <3>2, RestingConnection, ConnectionMoves
  <2> QED BY <2>3, <2>4
<1>13. ASSUME NEW h \in Requests, Connections!Abort(h) PROVE ConnectionInv'
  <2>1. /\ connecting' = [connecting EXCEPT ![h] = Connections!Resting]
        /\ UNCHANGED <<live, settings, pending, known>>
    BY <1>13 DEF Connections!Abort
  <2>2. KeepsKnown(Connections!Resting)
    BY RestingConnection DEF KeepsKnown
  <2> QED BY <1>1, <2>1, <2>2, RestingConnection, ConnectionMoves
<1>14. ASSUME NEW p \in Providers, Connections!StartOauth(p) PROVE ConnectionInv'
  <2>1. /\ pending' \subseteq live /\ UNCHANGED <<live, settings, connecting, known>>
    BY <1>1, <1>14 DEF Connections!StartOauth
  <2> QED BY <2>1 DEF ConnectionInv, ConnectionTypes, KeepsKnown, Has
<1>15. CASE UNCHANGED connections
  <2>1. UNCHANGED <<live, settings, pending, connecting, known>>
    BY <1>15 DEF connections
  <2> QED BY <2>1 DEF ConnectionInv, ConnectionTypes, KeepsKnown, Has
<1> QED BY <1>3, <1>4, <1>5, <1>7, <1>8, <1>9, <1>10, <1>11, <1>12, <1>13, <1>14, <1>15,
           CommitKeeps
        DEF Connections!IntegrationsNext

-----------------------------------------------------------------------------
(* Probing connections                                                     *)

(* A refresh token is spent by a probe, by the provider, or by a probe     *)
(* whose answer was lost.                                                  *)
ProbeInv ==
    /\ refresh \in [Collecting!Integrations -> {"none", "good", "spent"}]
    /\ probes \in [Collecting!Integrations -> Nat]
    /\ probed \in [Collecting!Integrations -> {"not yet", "live", "dead"}]
    /\ \A i \in Collecting!Integrations :
         /\ refresh[i] = "spent" => probes[i] > 0 \/ i \in disturbed
         /\ probed[i] = "dead" /\ refresh[i] # "none" => probes[i] > 0 \/ i \in disturbed

LEMMA ProbeInitially == GovernanceInit => ProbeInv
<1> SUFFICES ASSUME GovernanceInit PROVE ProbeInv
  OBVIOUS
<1>1. /\ refresh \in [Collecting!Integrations -> {"none", "good"}]
      /\ probed = [i \in Collecting!Integrations |-> "not yet"]
      /\ probes = [i \in Collecting!Integrations |-> 0]
  BY DEF GovernanceInit, Collecting!CollectorsInit
<1> QED BY <1>1 DEF ProbeInv

LEMMA ProbeStep == ProbeInv /\ [Collecting!CollectorsNext]_evidence => ProbeInv'
<1> SUFFICES ASSUME ProbeInv, [Collecting!CollectorsNext]_evidence PROVE ProbeInv'
  OBVIOUS
<1> DEFINE I == Collecting!Integrations
<1>1. /\ refresh \in [I -> {"none", "good", "spent"}] /\ probes \in [I -> Nat]
      /\ probed \in [I -> {"not yet", "live", "dead"}]
      /\ \A i \in I :
           /\ refresh[i] = "spent" => probes[i] > 0 \/ i \in disturbed
           /\ probed[i] = "dead" /\ refresh[i] # "none" => probes[i] > 0 \/ i \in disturbed
  BY DEF ProbeInv
<1>2. connected' = connected => I' = I
  BY DEF Collecting!Integrations
<1> HIDE DEF I
<1>3. ASSUME connected' = connected, UNCHANGED <<refresh, probed, probes, disturbed>>
      PROVE  ProbeInv'
  BY <1>1, <1>2, <1>3 DEF ProbeInv, I
<1>4. CASE \/ Collecting!Skip \/ Collecting!CollectDemo \/ Collecting!CollectNothing
           \/ Collecting!AssumeNoRole \/ Collecting!CollectLive \/ Collecting!File
           \/ Collecting!FailToFile \/ Collecting!LoseCommit
  <2>1. UNCHANGED <<connected, refresh, probed, probes, disturbed>>
    BY <1>4 DEF Collecting!Skip, Collecting!CollectDemo, Collecting!CollectNothing,
       Collecting!AssumeNoRole, Collecting!CollectLive, Collecting!File,
       Collecting!FailToFile, Collecting!LoseCommit, Collecting!Return,
       Collecting!Onward, Collecting!given, Collecting!tokenVars
  <2> QED BY <1>3, <2>1
<1>5. ASSUME NEW i \in I, Collecting!ExpireAccess(i) PROVE ProbeInv'
  BY <1>3, <1>5 DEF Collecting!ExpireAccess, Collecting!given
<1>6. ASSUME NEW i \in I, Collecting!EndRefresh(i) PROVE ProbeInv'
  <2>1. /\ refresh' = [refresh EXCEPT ![i] = "spent"] /\ disturbed' = disturbed \cup {i}
        /\ UNCHANGED <<connected, probed, probes>> /\ refresh[i] = "good"
    BY <1>6 DEF Collecting!EndRefresh, Collecting!given
  <2> QED BY <1>1, <1>2, <2>1 DEF ProbeInv, I
<1>7. ASSUME NEW i \in I, Collecting!ProbeRefreshing(i) PROVE ProbeInv'
  <2>1. /\ refresh' \in {refresh, [refresh EXCEPT ![i] = "spent"]}
        /\ probes' = [probes EXCEPT ![i] = @ + 1]
        /\ probed' = [probed EXCEPT ![i] = "live"]
        /\ UNCHANGED <<connected, disturbed>>
    BY <1>7 DEF Collecting!ProbeRefreshing, Collecting!given, Collecting!Result
  <2>2. /\ probes' \in [I -> Nat] /\ probes'[i] = probes[i] + 1 /\ probes[i] \in Nat
        /\ \A j \in I \ {i} : probes'[j] = probes[j]
    <3>1. probes \in [I -> Nat] /\ i \in I
      BY <1>1, <1>7
    <3>2. probes[i] \in Nat
      BY <3>1
    <3>3. probes[i] + 1 \in Nat
      BY <3>2
    <3> QED BY <2>1, <3>1, <3>2, <3>3
  <2>5. probes'[i] > 0
    BY <2>2
  <2>3. /\ refresh' \in [I -> {"none", "good", "spent"}]
        /\ \A j \in I \ {i} : refresh'[j] = refresh[j]
    BY <1>1, <2>1
  <2>4. /\ probed' \in [I -> {"not yet", "live", "dead"}]
        /\ \A j \in I \ {i} : probed'[j] = probed[j]
    BY <1>1, <2>1
  <2> QED BY <1>1, <1>2, <2>1, <2>2, <2>3, <2>4, <2>5 DEF ProbeInv, I
<1>8. ASSUME NEW i \in I, Collecting!LoseProbe(i) PROVE ProbeInv'
  <2>1. /\ refresh' \in {refresh, [refresh EXCEPT ![i] = "spent"]}
        /\ \E result \in {"live", "dead"} : probed' = [probed EXCEPT ![i] = result]
        /\ disturbed' = disturbed \cup {i}
        /\ UNCHANGED <<connected, probes>>
    BY <1>8 DEF Collecting!LoseProbe, Collecting!given, Collecting!Result
  <2>2. /\ refresh' \in [I -> {"none", "good", "spent"}]
        /\ \A j \in I \ {i} : refresh'[j] = refresh[j]
    BY <1>1, <2>1
  <2>3. /\ probed' \in [I -> {"not yet", "live", "dead"}]
        /\ \A j \in I \ {i} : probed'[j] = probed[j]
    BY <1>1, <2>1
  <2> QED BY <1>1, <1>2, <2>1, <2>2, <2>3 DEF ProbeInv, I
<1>9. ASSUME NEW i \in I, Collecting!ProbeStored(i) PROVE ProbeInv'
  <2>1. /\ refresh[i] # "good"
        /\ \E result \in {"live", "dead"} : probed' = [probed EXCEPT ![i] = result]
        /\ UNCHANGED <<connected, refresh, probes, disturbed>>
    BY <1>9 DEF Collecting!ProbeStored, Collecting!given, Collecting!Result
  <2>2. /\ probed' \in [I -> {"not yet", "live", "dead"}]
        /\ \A j \in I \ {i} : probed'[j] = probed[j]
    BY <1>1, <2>1
  <2>3. refresh[i] \in {"none", "spent"}
    BY <1>1, <2>1
  <2> QED BY <1>1, <1>2, <2>1, <2>2, <2>3 DEF ProbeInv, I
<1>10. CASE UNCHANGED evidence
  BY <1>3, <1>10 DEF evidence
<1> QED BY <1>4, <1>5, <1>6, <1>7, <1>8, <1>9, <1>10 DEF Collecting!CollectorsNext, I

(* ConnectionKept: a connection is lost only to a request that was under   *)
(* way, and reported dead only when its refresh token has been used up.    *)
THEOREM ConnectionsAreKept == GovernanceSpec => []ConnectionKept
<1>1. GovernanceInit => ConnectionInv /\ ProbeInv
  BY ConnectionInitially, ProbeInitially
<1>2. ConnectionInv /\ [GovernanceNext]_governanceVars => ConnectionInv'
  BY ConnectionStep, ConnectionsMove
<1>3. ProbeInv /\ [GovernanceNext]_governanceVars => ProbeInv'
  BY ProbeStep, EvidenceMoves
<1>4. ConnectionInv /\ ProbeInv => ConnectionKept
  BY DEF ConnectionInv, Has, ProbeInv, ConnectionKept, Connections!ConnectionKept,
     Connections!Connected, Collecting!DeadMeansExchanged
<1> QED BY <1>1, <1>2, <1>3, <1>4, PTL DEF GovernanceSpec

-----------------------------------------------------------------------------
(* What there is to it besides: tokens exist once they have been issued,   *)
(* and as many requests hand out as found the code.                        *)
Exchanging(all) == {h \in Requests : Exchanges(all[h])}

TokenSets ==
    /\ redis \in BOOLEAN /\ active \in BOOLEAN /\ overlapped \in BOOLEAN
    /\ store \subseteq {"state", "code", "link"}
    /\ revoked \subseteq unexpired /\ forgotten \in BOOLEAN

TokenCounts ==
    /\ unexpired \subseteq Session!Access \cup {Session!Refresh}
    /\ issued \in 0..MaxTokens
    /\ exchanged + Cardinality(Exchanging(using)) <= Cardinality(Requests)

LEMMA ExchangingCounts ==
    ASSUME NEW all
    PROVE  /\ IsFiniteSet(Exchanging(all)) /\ Cardinality(Exchanging(all)) \in Nat
           /\ Cardinality(Requests) \in Nat
           /\ Cardinality(Exchanging(all)) <= Cardinality(Requests)
<1>1. IsFiniteSet(Requests) /\ Exchanging(all) \subseteq Requests
  BY GovernanceAssumption DEF Exchanging
<1> QED BY <1>1, FS_Subset, FS_CardinalityType

LEMMA TokensInitially == GovernanceInit => TokenSets /\ TokenCounts
<1> SUFFICES ASSUME GovernanceInit PROVE TokenSets /\ TokenCounts
  OBVIOUS
<1>1. /\ redis \in BOOLEAN /\ store = {} /\ active = TRUE /\ overlapped = FALSE
      /\ unexpired \in {{}, {0, 1}} /\ revoked = {} /\ exchanged = 0
      /\ issued = Session!Cardinality(unexpired \ {0}) /\ forgotten = FALSE
  BY DEF GovernanceInit, Session!TokensInit, Session!Refresh
<1>2. issued = Cardinality(unexpired \ {0})
  BY <1>1 DEF Session!Cardinality, Cardinality
<1>3. MaxTokens \in Nat \ {0}
  BY GovernanceAssumption
<1>4. issued \in 0..MaxTokens
  <2>1. CASE unexpired = {}
    <3>1. unexpired \ {0} = {}
      BY <2>1
    <3> QED BY <1>2, <1>3, <3>1, FS_EmptySet
  <2>2. CASE unexpired = {0, 1}
    <3>1. unexpired \ {0} = {1}
      BY <2>2
    <3>2. Cardinality({1}) = 1
      BY FS_Singleton
    <3> QED BY <1>2, <1>3, <3>1, <3>2
  <2> QED BY <1>1, <2>1, <2>2
<1>5. unexpired \subseteq Session!Access \cup {Session!Refresh}
  <2>1. 1 \in 1..MaxTokens
    BY <1>3
  <2> QED BY <1>1, <2>1 DEF Session!Access, Session!Refresh
<1>6. TokenCounts
  BY <1>1, <1>4, <1>5, ExchangingCounts DEF TokenCounts
<1>7. TokenSets
  BY <1>1 DEF TokenSets
<1> QED BY <1>6, <1>7

(* The sets change as each action says.                                    *)
LEMMA TokenSetsStep ==
    SessionInv /\ TokenSets /\ [Session!TokensNext]_sessions => TokenSets'
<1> SUFFICES ASSUME SessionInv, TokenSets, [Session!TokensNext]_sessions
             PROVE  TokenSets'
  OBVIOUS
<1> USE DEF TokenSets, Session!storeVars, Session!tokenVars, Session!historyVars
<1>1. CASE Session!SsoLogin \/ Session!CreateLink \/ Session!RevokeLink
           \/ Session!ForgetKey
  BY <1>1 DEF Session!SsoLogin, Session!CreateLink, Session!RevokeLink,
     Session!ForgetKey
<1>2. CASE Session!Deactivate
  BY <1>2 DEF Session!Deactivate
<1>3. ASSUME NEW t, Session!Expire(t) PROVE TokenSets'
  BY <1>3 DEF Session!Expire
<1>4. ASSUME NEW h \in Requests, NEW op, Session!Take(h, op) PROVE TokenSets'
  BY <1>4 DEF Session!Take
<1>5. ASSUME NEW h \in Requests,
             \/ Session!Delete(h) \/ Session!AskProvider(h) \/ Session!StoreTokens(h)
      PROVE  TokenSets'
  BY <1>5 DEF Session!Delete, Session!AskProvider, Session!StoreTokens
<1>6. ASSUME NEW h \in Requests, Session!HandOut(h) PROVE TokenSets'
  BY <1>6 DEF Session!HandOut
<1>7. ASSUME NEW h \in Requests, Session!EndRefresh(h) PROVE TokenSets'
  BY <1>7 DEF Session!EndRefresh, Session!Issue, Session!Pass
<1>8. ASSUME NEW h \in Requests,
             \/ Session!BeginRefresh(h) \/ Session!EndUse(h)
             \/ Session!BeginLinkLogin(h) \/ Session!EndLinkLogin(h)
      PROVE  TokenSets'
  BY <1>8 DEF Session!BeginRefresh, Session!EndUse, Session!BeginLinkLogin,
     Session!EndLinkLogin
<1>9. ASSUME NEW h \in Requests, Session!EndLogout(h) PROVE TokenSets'
  BY <1>9 DEF Session!EndLogout
<1>10. ASSUME NEW h \in Requests, NEW t \in Session!Access,
              Session!BeginUse(h, t) \/ Session!BeginLogout(h, t)
       PROVE  TokenSets'
  BY <1>10 DEF Session!BeginUse, Session!BeginLogout
<1>11. ASSUME NEW t, Session!OpenSocket(t) PROVE TokenSets'
  BY <1>11 DEF Session!OpenSocket
<1>12. ASSUME NEW t, Session!EvictRevoked(t) PROVE TokenSets'
  BY <1>12 DEF Session!EvictRevoked, Session!Forget
<1>13. ASSUME NEW dead, Session!Restart(dead) PROVE TokenSets'
  BY <1>13 DEF Session!Restart, Session!Forget
<1>14. CASE UNCHANGED sessions
  BY <1>14 DEF sessions
<1> QED BY <1>1, <1>2, <1>3, <1>4, <1>5, <1>6, <1>7, <1>8, <1>9, <1>10, <1>11, <1>12,
           <1>13, <1>14
        DEF Session!TokensNext, Session!Callback, Session!Exchange

(* A token is issued below the bound; nobody joins those who exchange      *)
(* after one has handed out.                                               *)
LEMMA TokenCountsStep ==
    SessionInv /\ TokenCounts /\ [Session!TokensNext]_sessions => TokenCounts'
<1> SUFFICES ASSUME SessionInv, TokenCounts, [Session!TokensNext]_sessions
             PROVE  TokenCounts'
  OBVIOUS
<1> DEFINE All == Session!Access \cup {Session!Refresh}
           Sum == exchanged + Cardinality(Exchanging(using))
<1>1. /\ unexpired \subseteq All /\ issued \in 0..MaxTokens
      /\ exchanged \in Nat /\ Sum <= Cardinality(Requests)
      /\ using \in [Requests -> Asks] /\ MaxTokens \in Nat
  BY GovernanceAssumption DEF TokenCounts, SessionInv, SessionTypes
<1>2. \A h \in Requests : using[h] \in Asks /\ Shaped(using[h])
  BY <1>1 DEF SessionInv, RequestInv
<1>3. Session!Resting \in Asks /\ ~ Exchanges(Session!Resting)
  BY DEF Session!Resting, Asks, Exchanges
<1>4. ASSUME unexpired' \subseteq All, issued' \in 0..MaxTokens,
             exchanged' = exchanged, Exchanging(using') \subseteq Exchanging(using)
      PROVE  TokenCounts'
  <2>1. /\ Cardinality(Exchanging(using')) <= Cardinality(Exchanging(using))
        /\ Cardinality(Exchanging(using')) \in Nat
        /\ Cardinality(Exchanging(using)) \in Nat /\ Cardinality(Requests) \in Nat
    BY <1>4, ExchangingCounts, FS_Subset
  <2>2. exchanged' + Cardinality(Exchanging(using')) <= Cardinality(Requests)
    BY <1>1, <1>4, <2>1
  <2> QED BY <1>4, <2>2 DEF TokenCounts, Session!Access, Session!Refresh
<1>5. ASSUME NEW h \in Requests, NEW r \in Asks, Session!Set(h, r),
             Exchanges(r) => Exchanges(using[h])
      PROVE  Exchanging(using') \subseteq Exchanging(using)
  BY <1>1, <1>5, UsingMoves DEF Exchanging, SessionInv
<1>6. CASE \/ Session!SsoLogin \/ Session!CreateLink \/ Session!RevokeLink
           \/ Session!ForgetKey \/ Session!Deactivate
  BY <1>1, <1>4, <1>6 DEF Session!SsoLogin, Session!CreateLink, Session!RevokeLink,
     Session!ForgetKey, Session!Deactivate, Session!tokenVars, Session!historyVars
<1>7. ASSUME NEW t, Session!Expire(t) PROVE TokenCounts'
  BY <1>1, <1>4, <1>7 DEF Session!Expire, Session!historyVars
<1>8. ASSUME NEW h \in Requests, Session!Callback(h) PROVE TokenCounts'
  <2>1. PICK r : /\ Session!Set(h, r) /\ r \in Asks /\ ~ Exchanges(r)
    <3> DEFINE r == [op |-> "callback", at |-> IF redis THEN "delete" ELSE "taken",
                     after |-> ended]
    <3>1. Session!Set(h, r)
      BY <1>8 DEF Session!Callback, Session!Take, Session!Enter
    <3>2. r \in Asks /\ ~ Exchanges(r)
      BY DEF SessionInv, SessionTypes, Asks, Exchanges
    <3> QED BY <3>1, <3>2
  <2> QED BY <1>1, <1>4, <1>5, <1>8, <2>1
          DEF Session!Callback, Session!Take, Session!tokenVars
<1>9. ASSUME NEW h \in Requests, Session!Exchange(h) PROVE TokenCounts'
  <2>1. "code" \in store /\ UNCHANGED <<unexpired, issued, exchanged>>
    BY <1>9 DEF Session!Exchange, Session!Take, Session!Key, Session!tokenVars
  <2>2. exchanged' = 0
    BY <2>1 DEF SessionInv, StateInv
  <2>3. /\ Cardinality(Exchanging(using')) \in Nat
        /\ Cardinality(Exchanging(using')) <= Cardinality(Requests)
    BY ExchangingCounts
  <2> QED BY <1>1, <2>1, <2>2, <2>3 DEF TokenCounts, Session!Access, Session!Refresh
<1>10. ASSUME NEW h \in Requests, NEW at \in {"taken", "account"}, Session!Next1(h, at)
       PROVE  Exchanging(using') \subseteq Exchanging(using)
  <2> DEFINE r == [using[h] EXCEPT !.at = at]
  <2>1. r \in Asks /\ (Exchanges(r) => Exchanges(using[h]))
    BY <1>2, <1>10 DEF Asks, Exchanges
  <2> QED BY <1>5, <1>10, <2>1 DEF Session!Next1
<1>11. ASSUME NEW h \in Requests, Session!Rest(h)
       PROVE  Exchanging(using') \subseteq Exchanging(using)
  BY <1>3, <1>5, <1>11 DEF Session!Rest
<1>12. ASSUME NEW h \in Requests,
              \/ Session!Delete(h) \/ Session!AskProvider(h) \/ Session!StoreTokens(h)
       PROVE  TokenCounts'
  <2>1. UNCHANGED <<unexpired, issued, exchanged>>
    BY <1>12 DEF Session!Delete, Session!AskProvider, Session!StoreTokens,
       Session!tokenVars, Session!historyVars
  <2>2. \/ Session!Next1(h, "taken") \/ Session!Next1(h, "account") \/ Session!Rest(h)
    BY <1>12 DEF Session!Delete, Session!AskProvider, Session!StoreTokens
  <2>3. Exchanging(using') \subseteq Exchanging(using)
    BY <1>10, <1>11, <2>2
  <2> QED BY <1>1, <1>4, <2>1, <2>3
<1>13. ASSUME NEW h \in Requests, Session!HandOut(h) PROVE TokenCounts'
  <2>1. /\ exchanged' = exchanged + 1 /\ Session!Rest(h) /\ Exchanges(using[h])
        /\ \/ /\ issued < MaxTokens /\ issued' = issued + 1
              /\ unexpired' = unexpired \cup {Session!Refresh, issued + 1}
           \/ UNCHANGED <<issued, unexpired>>
    BY <1>13 DEF Session!HandOut, Session!At, Exchanges
  <2>2. issued' \in 0..MaxTokens /\ unexpired' \subseteq All
    <3>1. CASE /\ issued < MaxTokens /\ issued' = issued + 1
               /\ unexpired' = unexpired \cup {Session!Refresh, issued + 1}
      <4>1. issued + 1 \in 1..MaxTokens /\ issued + 1 \in 0..MaxTokens
        BY <1>1, <3>1
      <4> QED BY <1>1, <3>1, <4>1 DEF Session!Access
    <3> QED BY <1>1, <2>1, <3>1
  <2>3. /\ h \in Exchanging(using) /\ Exchanging(using') = Exchanging(using) \ {h}
    BY <1>1, <1>3, <2>1, UsingMoves DEF Exchanging, SessionInv, Session!Rest
  <2>4. Cardinality(Exchanging(using')) = Cardinality(Exchanging(using)) - 1
    BY <2>3, ExchangingCounts, FS_RemoveElement
  <2>5. exchanged' + Cardinality(Exchanging(using')) <= Cardinality(Requests)
    BY <1>1, <2>1, <2>4, ExchangingCounts
  <2> QED BY <2>2, <2>5 DEF TokenCounts, Session!Access, Session!Refresh
<1>14. ASSUME NEW h \in Requests, Session!EndRefresh(h) PROVE TokenCounts'
  <2>1. /\ exchanged' = exchanged /\ Session!Rest(h)
        /\ \/ /\ issued < MaxTokens /\ issued' = issued + 1
              /\ unexpired' = unexpired \cup {issued + 1}
           \/ UNCHANGED <<issued, unexpired>>
    BY <1>14 DEF Session!EndRefresh, Session!Issue, Session!historyVars
  <2>2. issued' \in 0..MaxTokens /\ unexpired' \subseteq All
    <3>1. CASE /\ issued < MaxTokens /\ issued' = issued + 1
               /\ unexpired' = unexpired \cup {issued + 1}
      <4>1. issued + 1 \in 1..MaxTokens /\ issued + 1 \in 0..MaxTokens
        BY <1>1, <3>1
      <4> QED BY <1>1, <3>1, <4>1 DEF Session!Access
    <3> QED BY <1>1, <2>1, <3>1
  <2> QED BY <1>4, <1>11, <2>1, <2>2
<1>15. ASSUME NEW h \in Requests, NEW op \in {"refresh", "use", "logout", "link"},
              NEW at \in {"account", "body"}, Session!Enter(h, op, at)
       PROVE  Exchanging(using') \subseteq Exchanging(using)
  <2> DEFINE r == [op |-> op, at |-> at, after |-> ended]
  <2>1. r \in Asks /\ ~ Exchanges(r)
    BY DEF Asks, Exchanges, SessionInv, SessionTypes
  <2> QED BY <1>5, <1>15, <2>1 DEF Session!Enter
<1>16. ASSUME NEW h \in Requests, Session!BeginRefresh(h) \/ Session!BeginLinkLogin(h)
       PROVE  TokenCounts'
  BY <1>1, <1>4, <1>15, <1>16
     DEF Session!BeginRefresh, Session!BeginLinkLogin, Session!tokenVars, Session!historyVars
<1>17. ASSUME NEW h \in Requests,
              Session!EndUse(h) \/ Session!EndLinkLogin(h) \/ Session!EndLogout(h)
       PROVE  TokenCounts'
  BY <1>1, <1>4, <1>11, <1>17
     DEF Session!EndUse, Session!EndLinkLogin, Session!EndLogout, Session!tokenVars
<1>18. ASSUME NEW h \in Requests, NEW t \in Session!Access,
              Session!BeginUse(h, t) \/ Session!BeginLogout(h, t)
       PROVE  TokenCounts'
  BY <1>1, <1>4, <1>15, <1>18
     DEF Session!BeginUse, Session!BeginLogout, Session!tokenVars, Session!historyVars
<1>19. ASSUME NEW t, Session!OpenSocket(t) \/ Session!EvictRevoked(t)
       PROVE  TokenCounts'
  BY <1>1, <1>4, <1>19
     DEF Session!OpenSocket, Session!EvictRevoked, Session!tokenVars, Session!historyVars
<1>20. ASSUME NEW dead, Session!Restart(dead) PROVE TokenCounts'
  <2>1. /\ using' = [h \in Requests |-> IF h \in dead THEN Session!Resting ELSE using[h]]
        /\ UNCHANGED <<unexpired, issued, exchanged>>
    BY <1>20 DEF Session!Restart, Session!historyVars
  <2>2. Exchanging(using') \subseteq Exchanging(using)
    BY <1>3, <2>1 DEF Exchanging
  <2> QED BY <1>1, <1>4, <2>1, <2>2
<1>21. CASE UNCHANGED sessions
  BY <1>1, <1>4, <1>21 DEF sessions
<1> QED BY <1>6, <1>7, <1>8, <1>9, <1>12, <1>13, <1>14, <1>16, <1>17, <1>18, <1>19, <1>20,
           <1>21
        DEF Session!TokensNext

LEMMA TokensTyped == SessionInv /\ TokenSets /\ TokenCounts => Session!TokensTypeOK
<1> SUFFICES ASSUME SessionInv, TokenSets, TokenCounts PROVE Session!TokensTypeOK
  OBVIOUS
<1>1. exchanged \in 0..Session!Cardinality(Requests)
  <2>1. /\ exchanged \in Nat /\ Cardinality(Exchanging(using)) \in Nat
        /\ Cardinality(Requests) \in Nat
        /\ exchanged + Cardinality(Exchanging(using)) <= Cardinality(Requests)
    BY ExchangingCounts DEF SessionInv, SessionTypes, TokenCounts
  <2>2. exchanged \in 0..Cardinality(Requests)
    BY <2>1
  <2> QED BY <2>2 DEF Session!Cardinality, Cardinality
<1>2. late \subseteq Session!Doors /\ grant \in {"unborn", "fresh", "used"}
  BY DEF SessionInv, StateInv, Session!Doors
<1>3. issued \in 0..MaxTokens /\ unexpired \subseteq Session!Access \cup {Session!Refresh}
  BY DEF TokenCounts
<1> QED BY <1>1, <1>2, <1>3
        DEF TokenSets, SessionInv, SessionTypes, Asks, Session!TokensTypeOK

LEMMA LoginsTyped == LoginInv => Login!SessionsTypeOK
<1> SUFFICES ASSUME LoginInv PROVE Login!SessionsTypeOK
  OBVIOUS
<1>1. /\ counter \in Nat /\ guesses \in Nat /\ total \in 0..MaxGuesses
      /\ guesses <= counter /\ counter <= total /\ MaxGuesses \in Nat
  BY GovernanceAssumption DEF LoginInv, LoginTypes
<1>2. counter \in 0..MaxGuesses /\ guesses \in 0..MaxGuesses
  BY <1>1
<1> QED BY <1>2 DEF LoginInv, LoginTypes, LoginBooleans, LoginStates, Login!SessionsTypeOK

LEMMA ApprovalsTyped == ApprovalInv => Approval!ApprovalsTypeOK
BY DEF ApprovalInv, ApprovalTypes, SignedRows, SignedRequests, Approval!ApprovalsTypeOK

LEMMA ConnectionsTyped == ConnectionInv => Connections!IntegrationsTypeOK
BY DEF ConnectionInv, ConnectionTypes, SettingsRows, SettingsRequests, SettingsOps,
   Connections!IntegrationsTypeOK, Connections!Rows, Connections!Columns, Connections!NoSiem
=============================================================================
