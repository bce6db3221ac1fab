--------------------------------- MODULE Ledger ---------------------------------
(***************************************************************************)
(* The activity log of all organisations: one table, whose identifiers the *)
(* database gives out.  Every changing request starts a task that writes   *)
(* its entry with a session of its own, beside the request.  An auditor    *)
(* verifies the entries of one organisation.                               *)
(***************************************************************************)
EXTENDS Integers, FiniteSets

CONSTANTS
    Tenants,          \* organisations
    MaxEntries,       \* bounds of the model: identifiers given out,
    MaxLosses         \* and entries that failed or were removed

VARIABLES
    sqlite,      \* SQLite or Postgres
    log,         \* committed entries of audit_activity_log: identifier and tenant
    writing,     \* entries inserted and not committed
    started,     \* organisations with a task that has not inserted yet
    next,        \* Postgres: the next value of the sequence
    failed,      \* history: entries whose commit has failed
    deleted      \* history: entries that somebody has removed

Ids == 1..MaxEntries
Entries == [id: Ids, tenant: Tenants]

ledgerVars == <<sqlite, log, writing, started, next, failed, deleted>>

LedgerInit ==
    /\ sqlite \in BOOLEAN
    /\ log = {} /\ writing = {} /\ started = {}
    /\ next = 1 /\ failed = {} /\ deleted = {}

(* The middleware starts the task, and the request goes on.  There may be  *)
(* several of an organisation.                                             *)
StartTask(t) ==
    /\ started' = started \cup {t}
    /\ UNCHANGED <<sqlite, log, writing, next, failed, deleted>>

(* The identifier of an insert.  Postgres takes the next value of a        *)
(* sequence; SQLite, where one transaction writes at a time, the one after *)
(* the largest in the table.                                               *)
Assigned(id) ==
    IF sqlite
      THEN /\ writing = {} /\ \A e \in log : e.id < id
           /\ id = 1 \/ \E e \in log : e.id = id - 1
      ELSE id = next

(* record_activity: the INSERT.                                            *)
Insert(t) ==
    /\ t \in started /\ started' \in {started, started \ {t}}
    /\ \E id \in Ids : Assigned(id) /\ writing' = writing \cup {[id |-> id, tenant |-> t]}
    /\ next' = IF sqlite THEN next ELSE next + 1
    /\ UNCHANGED <<sqlite, log, failed, deleted>>

(* The commit, or an exception that is logged and goes no further.         *)
EndInsert(e) ==
    /\ e \in writing /\ writing' = writing \ {e}
    /\ \/ log' = log \cup {e} /\ UNCHANGED failed
       \/ Cardinality(failed \cup deleted) < MaxLosses
          /\ failed' = failed \cup {e} /\ UNCHANGED log
    /\ UNCHANGED <<sqlite, started, next, deleted>>

(* Somebody with access to the database removes an entry.                  *)
Remove(e) ==
    /\ Cardinality(failed \cup deleted) < MaxLosses
    /\ e \in log /\ log' = log \ {e} /\ deleted' = deleted \cup {e}
    /\ UNCHANGED <<sqlite, writing, started, next, failed>>

(* A fault: every entry overwrites the verdict on those before it.         *)
VerifiedNewest(t) ==
    LET ids == {e.id : e \in {f \in log : f.tenant = t}}
    IN \A i \in ids : i - 1 \in ids \/ \E j \in ids : j # i /\ i <= j

(* get_ledger_verification: each identifier follows the one before it.     *)
Verified(t) ==
    LET ids == {e.id : e \in {f \in log : f.tenant = t}}
    IN \A i \in ids : i - 1 \in ids \/ \A j \in ids : i <= j

LedgerNext ==
    \/ \E t \in Tenants : StartTask(t) \/ Insert(t)
    \/ \E e \in Entries : EndInsert(e) \/ Remove(e)

LedgerSpec == LedgerInit /\ [][LedgerNext]_ledgerVars

-----------------------------------------------------------------------------
(* Properties                                                              *)

(* The types of the table and of the histories.                            *)
LedgerTypeOK ==
    /\ sqlite \in BOOLEAN
    /\ log \cup writing \cup failed \cup deleted \subseteq Entries
    /\ started \subseteq Tenants /\ next \in 1..MaxEntries + 1

(* "Any gap in log ID indicates log tamper/deletion": when no entry is     *)
(* being written and none has failed, an organisation that fails the       *)
(* verification has lost an entry to somebody.                             *)
GapMeansDeletion ==
    writing = {} /\ failed = {} =>
        \A t \in Tenants : Verified(t) \/ \E e \in deleted : e.tenant = t

(* How far that goes: the identifier that is missing before an entry went  *)
(* to another organisation, is being written, failed, or was removed.      *)
GapsExplained ==
    \A e \in log : e.id = 1 \/ \E f \in log \cup writing \cup failed \cup deleted :
                                    f.id = e.id - 1

(* What the verification is for: whoever removes an entry between two of   *)
(* an organisation's makes it fail for good, unless SQLite, which gives    *)
(* the largest identifier out again, has filled the gap.                   *)
RemovalShows ==
    \A g \in deleted : \A e, f \in log :
        e.tenant = g.tenant /\ f.tenant = g.tenant /\ e.id < g.id /\ g.id < f.id
            => ~ Verified(g.tenant) \/ (sqlite /\ g \in log)
=============================================================================
