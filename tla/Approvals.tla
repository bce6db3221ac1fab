------------------------------- MODULE Approvals -------------------------------
(***************************************************************************)
(* What somebody has to sign: a change request, a risk treatment plan, and *)
(* the answers to security questionnaires.  A behaviour works on one of    *)
(* them (kind).  Each endpoint loads the row, and its commit writes the    *)
(* columns that it has given a value other than the loaded one; the others *)
(* keep what somebody else has committed in between.                       *)
(***************************************************************************)
EXTENDS Integers

CONSTANTS
    Users,            \* administrators
    Requests,         \* concurrent requests
    MaxVersions       \* bound of the model: versions of the answers

VARIABLES
    kind,        \* the row looked at: change, treatment, answers
    row,         \* its columns
    request,     \* local state of each request
    version,     \* answers written so far
    signed,      \* history: the version loaded by the last approval
    implemented, \* history: the change was implemented
    skipped,     \* history: the plan left draft without an approval
    seeded,      \* history: the plan is one of the demonstration's
    excused      \* history: requests have overlapped, or answers were put

NoUser == "none"
Statuses == {"absent", "pending_approval", "approved", "implemented",
             "draft", "in_progress", "completed", "rejected"}
Columns == {"status", "approved_by", "responses"}

Absent == [status |-> "absent", approved_by |-> NoUser, responses |-> 0]
Resting == [op |-> "idle", loaded |-> Absent, new |-> Absent]

(* The row of the answers exists from the first access.                    *)
ApprovalsInit ==
    /\ kind \in {"change", "treatment", "answers"}
    /\ row = IF kind = "answers" THEN [Absent EXCEPT !.status = "draft"] ELSE Absent
    /\ request = [h \in Requests |-> Resting]
    /\ version = 0 /\ signed = 0
    /\ implemented = FALSE /\ skipped = FALSE /\ seeded = FALSE /\ excused = FALSE

flags == <<implemented, skipped, seeded, excused>>
approvalVars == <<kind, row, request, version, signed, flags>>

(* The handler has loaded the row, and will commit the row new.            *)
Load(h, k, op, new) ==
    /\ kind = k /\ row # Absent /\ request[h].op = "idle"
    /\ request' = [request EXCEPT ![h] = [op |-> op, loaded |-> row, new |-> new]]
    /\ UNCHANGED <<kind, row, signed, flags>>

With(status, user) == [row EXCEPT !.status = status, !.approved_by = user]

-----------------------------------------------------------------------------
(* Change requests and treatment plans                                     *)

(* create_change_request and create_treatment                              *)
Create ==
    /\ row = Absent
    /\ row' = [row EXCEPT !.status =
                 IF kind = "change" THEN "pending_approval" ELSE "draft"]
    /\ UNCHANGED <<kind, request, version, signed, flags>>

(* _ensure_demo_treatments, when a demonstration's plans are first listed: *)
(* none of them is a draft, and none names who approved it.                *)
SeedTreatment(status) ==
    /\ kind = "treatment" /\ row = Absent
    /\ row' = [row EXCEPT !.status = status] /\ seeded' = TRUE
    /\ UNCHANGED <<kind, request, version, signed, implemented, skipped, excused>>

(* approve_change_request: what is implemented is not approved again.      *)
ApproveChange(h, u) ==
    /\ row.status # "implemented"
    /\ Load(h, "change", "approve", With("approved", u)) /\ UNCHANGED version

(* A fault: the status is not looked at.                                   *)
ImplementAny(h) ==
    /\ Load(h, "change", "implement", With("implemented", row.approved_by))
    /\ UNCHANGED version

(* implement_change_request                                                *)
ImplementChange(h) ==
    /\ row.status = "approved"
    /\ Load(h, "change", "implement", With("implemented", row.approved_by))
    /\ UNCHANGED version

(* update_treatment: any status may follow any other; only the step from   *)
(* draft to approved records who approved.                                 *)
UpdateTreatment(h, u, status) ==
    /\ Load(h, "treatment", "update",
            With(status, IF status = "approved" /\ row.status = "draft"
                           THEN u ELSE row.approved_by))
    /\ UNCHANGED version

-----------------------------------------------------------------------------
(* The answers                                                             *)

Rewrite(h, op, status, user) ==
    /\ version < MaxVersions /\ version' = version + 1
    /\ Load(h, "answers", op, [status |-> status, approved_by |-> user,
                               responses |-> version + 1])

(* update_questionnaire_profile keeps the approval of the answers.         *)
PutProfile(h) == Rewrite(h, "put", row.status, row.approved_by)

(* auto_fill_questionnaire, and ai_draft_questionnaire with the language   *)
(* model at work before the commit.                                        *)
AutoFill(h) == Rewrite(h, "fill", "draft", NoUser)

Submit(h) ==
    /\ Load(h, "answers", "submit", With("pending_approval", NoUser))
    /\ UNCHANGED version

(* approve_questionnaire and reject_questionnaire: in whatever status.     *)
ApproveAnswers(h, u) ==
    /\ Load(h, "answers", "sign", With("approved", u)) /\ UNCHANGED version

RejectAnswers(h, u) ==
    /\ Load(h, "answers", "reject", With("rejected", u)) /\ UNCHANGED version

-----------------------------------------------------------------------------
(* The commit.  History: alone, when no other request has the row loaded   *)
(* and nobody has changed it since this one loaded it.                     *)
Commit(h) ==
    LET r == request[h]
        alone == row = r.loaded /\ \A g \in Requests \ {h} : request[g].op = "idle"
    IN
    /\ r.op # "idle"
    /\ row' = [c \in Columns |-> IF r.new[c] # r.loaded[c] THEN r.new[c] ELSE row[c]]
    /\ signed' = IF r.op = "sign" THEN r.loaded.responses ELSE signed
    /\ implemented' = (implemented \/ r.op = "implement")
    /\ skipped' = (skipped \/ (r.op = "update" /\ r.loaded.status = "draft"
                                /\ r.new.status \in {"in_progress", "completed"}))
    /\ excused' = (IF alone THEN (excused /\ r.op # "sign") \/ r.op = "put" ELSE TRUE)
    /\ request' = [request EXCEPT ![h] = Resting]
    /\ UNCHANGED <<kind, version, seeded>>

(* The request fails, and its session rolls back.                          *)
Abort(h) ==
    /\ request[h].op # "idle"
    /\ request' = [request EXCEPT ![h] = Resting]
    /\ UNCHANGED <<kind, row, version, signed, flags>>

ApprovalsNext ==
    \/ Create
    \/ \E status \in {"in_progress", "approved", "completed"} : SeedTreatment(status)
    \/ \E h \in Requests :
          \/ ImplementChange(h) \/ PutProfile(h) \/ AutoFill(h) \/ Submit(h)
          \/ Commit(h) \/ Abort(h)
          \/ \E u \in Users :
                \/ ApproveChange(h, u) \/ ApproveAnswers(h, u) \/ RejectAnswers(h, u)
                \/ \E status \in {"draft", "approved", "in_progress", "completed"} :
                      UpdateTreatment(h, u, status)

-----------------------------------------------------------------------------
(* Properties                                                              *)

(* The types of the row and of the requests.                               *)
ApprovalsTypeOK ==
    LET Rows == [status: Statuses, approved_by: Users \cup {NoUser},
                 responses: 0..MaxVersions] IN
    /\ row \in Rows
    /\ request \in [Requests -> [op: {"idle", "approve", "implement", "update", "put",
                                      "fill", "submit", "sign", "reject"},
                                 loaded: Rows, new: Rows]]
    /\ version \in 0..MaxVersions /\ signed \in 0..MaxVersions
    /\ {implemented, skipped, seeded, excused} \subseteq BOOLEAN

(* A change that is implemented has been approved, and stays implemented   *)
(* unless an approval overlapped; a plan is approved without a name only   *)
(* if it left draft by another way, or was never one because it came with  *)
(* the demonstration; approved answers bear a name, and are those that     *)
(* were approved, unless requests overlapped or they were put over the     *)
(* approval.                                                               *)
SignOffKept ==
    /\ row.status = "implemented" => row.approved_by # NoUser
    /\ implemented => row.status = "implemented" \/ excused
    /\ kind = "treatment" /\ row.status = "approved" /\ row.approved_by = NoUser
          => skipped \/ seeded
    /\ kind = "answers" /\ row.status = "approved" /\ ~ excused
          => row.approved_by # NoUser /\ row.responses = signed
=============================================================================
