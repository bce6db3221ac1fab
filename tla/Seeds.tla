---------------------------------- MODULE Seeds ----------------------------------
(***************************************************************************)
(* Tables that are filled with a default list when somebody first looks:   *)
(* a SELECT finds nothing, the rows are inserted, one commit.  A behaviour *)
(* works on one table of one organisation.  Rows with an identifier of     *)
(* their own can be inserted any number of times; where the key is fixed,  *)
(* a second insert is refused, and with it the request.                    *)
(***************************************************************************)
EXTENDS Integers, FiniteSets

CONSTANTS
    Requests,         \* concurrent requests
    MaxCopies         \* bound of the model: copies of the default list

VARIABLES
    table,       \* the table looked at
    copies,      \* copies of the default list in it
    own,         \* it has rows made by hand
    request,     \* local state of each request: idle, recheck, insert
    requested,   \* copies that an administrator has asked for
    overlapped,  \* history: two requests have found it empty
    refused      \* history: a request was refused for its key

(* Tables with a fixed key for every default row                           *)
Keyed == {"policies", "courses", "trust_center", "questionnaire", "tenants", "users"}
Plain == {"findings", "vendors", "devices", "business_units", "workflows", "personnel",
          "pentests", "treatments", "assessments", "remediation", "timeline", "firms"}
Tables == Keyed \cup Plain

SeedsInit ==
    /\ table \in Tables
    /\ copies = 0 /\ own = FALSE /\ requested = 0
    /\ request = [h \in Requests |-> "idle"]
    /\ overlapped = FALSE /\ refused = FALSE

seedsVars == <<table, copies, own, request, requested, overlapped, refused>>

Found(h, next) ==
    /\ request[h] = "idle"
    /\ request' = [request EXCEPT ![h] = next]
    /\ overlapped' = (overlapped \/ \E g \in Requests \ {h} : request[g] # "idle")
    /\ UNCHANGED <<table, copies, own, requested, refused>>

(* SELECT ... LIMIT 1: is there any row, of whatever origin?               *)
LookForAny(h) == copies = 0 /\ ~ own /\ Found(h, "insert")

(* SELECT for each default row: only the rows themselves count.            *)
LookForEach(h) == copies = 0 /\ Found(h, "insert")

-----------------------------------------------------------------------------
(* The look of every table                                                 *)

(* list_findings, for every organisation; then each title is looked for.   *)
ListFindings(h) ==
    table = "findings" /\ copies = 0 /\ ~ own /\ Found(h, "recheck")

RecheckTitles(h) ==
    /\ request[h] = "recheck"
    /\ request' = [request EXCEPT ![h] = IF copies = 0 THEN "insert" ELSE "idle"]
    /\ UNCHANGED <<table, copies, own, requested, overlapped, refused>>

EnsureVendors(h) == table = "vendors" /\ LookForEach(h)
SyncCourses(h) == table = "courses" /\ LookForEach(h)
EnsureTenants(h) == table = "tenants" /\ LookForEach(h)
EnsureDevices(h) == table = "devices" /\ LookForAny(h)
EnsureBusinessUnits(h) == table = "business_units" /\ LookForAny(h)
EnsureWorkflows(h) == table = "workflows" /\ LookForAny(h)
EnsurePersonnel(h) == table = "personnel" /\ LookForAny(h)
EnsurePolicies(h) == table = "policies" /\ LookForAny(h)
EnsurePentests(h) == table = "pentests" /\ LookForAny(h)
EnsureTreatments(h) == table = "treatments" /\ LookForAny(h)
EnsureAssessments(h) == table = "assessments" /\ LookForAny(h)
EnsureRemediation(h) == table = "remediation" /\ LookForAny(h)
EnsureTimeline(h) == table = "timeline" /\ LookForAny(h)
EnsureFirms(h) == table = "firms" /\ LookForAny(h)
EnsureTrustConfig(h) == table = "trust_center" /\ LookForAny(h)
EnsureProfile(h) == table = "questionnaire" /\ LookForAny(h)

(* _seed_platform at the start of each server looks for the administrator. *)
SeedUsers(h) == table = "users" /\ LookForAny(h)

-----------------------------------------------------------------------------
(* The commit: a fixed key that is there already refuses the request.      *)
Commit(h) ==
    /\ request[h] = "insert"
    /\ request' = [request EXCEPT ![h] = "idle"]
    /\ \/ /\ table \in Keyed /\ copies > 0
          /\ refused' = TRUE /\ UNCHANGED copies
       \/ /\ table \in Plain \/ copies = 0
          /\ copies < MaxCopies /\ copies' = copies + 1
          /\ UNCHANGED refused
    /\ UNCHANGED <<table, own, requested, overlapped>>

(* The request is cut off before its commit.                               *)
Abort(h) ==
    /\ request[h] # "idle" /\ request' = [request EXCEPT ![h] = "idle"]
    /\ UNCHANGED <<table, copies, own, requested, overlapped, refused>>

-----------------------------------------------------------------------------
(* Rows made by hand                                                       *)

AddOwn(t) ==
    /\ table = t /\ own' = TRUE
    /\ UNCHANGED <<table, copies, request, requested, overlapped, refused>>

CreateFinding == AddOwn("findings")
CreatePolicy == AddOwn("policies")
CreatePentest == AddOwn("pentests")
CreateBusinessUnit == AddOwn("business_units")
CreateWorkflow == AddOwn("workflows")

(* create_assessment inserts only what a look for the domain has not found.*)
CreateAssessment == copies = 0 /\ AddOwn("assessments")

(* delete_policy of the last one: the next listing seeds the list again.   *)
DeletePolicies ==
    /\ table = "policies" /\ copies > 0
    /\ copies' = 0 /\ requested' = 0 /\ own' = FALSE
    /\ UNCHANGED <<table, request, overlapped, refused>>

(* seed_policy_templates and seed_training_courses add the list under new  *)
(* identifiers every time they are called; the latter only while it finds  *)
(* no course with the identifier that it does not give.                    *)
Seed(t) ==
    /\ table = t /\ requested + copies < MaxCopies
    /\ requested' = requested + 1 /\ own' = TRUE
    /\ UNCHANGED <<table, copies, request, overlapped, refused>>

SeedTemplates == Seed("policies")
SeedCourses == copies = 0 /\ Seed("courses")

SeedsNext ==
    \/ CreateFinding \/ CreatePolicy \/ CreatePentest \/ CreateBusinessUnit
    \/ CreateWorkflow \/ CreateAssessment \/ DeletePolicies \/ SeedTemplates
    \/ SeedCourses
    \/ \E h \in Requests :
          \/ ListFindings(h) \/ RecheckTitles(h) \/ EnsureVendors(h) \/ SyncCourses(h)
          \/ EnsureTenants(h) \/ EnsureDevices(h) \/ EnsureBusinessUnits(h)
          \/ EnsureWorkflows(h) \/ EnsurePersonnel(h) \/ EnsurePolicies(h)
          \/ EnsurePentests(h) \/ EnsureTreatments(h) \/ EnsureAssessments(h)
          \/ EnsureRemediation(h) \/ EnsureTimeline(h) \/ EnsureFirms(h)
          \/ EnsureTrustConfig(h) \/ EnsureProfile(h) \/ SeedUsers(h)
          \/ Commit(h) \/ Abort(h)

-----------------------------------------------------------------------------
(* Properties                                                              *)

(* The types of the table and of the requests.                             *)
SeedsTypeOK ==
    /\ table \in Tables
    /\ copies \in 0..MaxCopies /\ requested \in 0..MaxCopies
    /\ own \in BOOLEAN /\ overlapped \in BOOLEAN /\ refused \in BOOLEAN
    /\ request \in [Requests -> {"idle", "recheck", "insert"}]

(* "Exactly once": looking seeds a table twice, or is refused, only when   *)
(* two requests have found it empty; a fixed key never has two copies.     *)
SeededOnce ==
    /\ copies > 1 \/ refused => overlapped
    /\ table \in Keyed => copies <= 1
    /\ refused => table \in Keyed
=============================================================================
