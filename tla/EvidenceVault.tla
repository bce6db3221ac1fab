---------------------------- MODULE EvidenceVault ----------------------------
(***************************************************************************)
(* The compliance evidence vault of one VALENCE deployment: the table      *)
(* evidence_records, the coroutines that append to it and the requests     *)
(* that list it (db/persistence.py, api/routers/evidence.py).              *)
(*                                                                         *)
(* Every record stores the hash of its predecessor.  The code appends in   *)
(* three separately scheduled steps: it SELECTs the hash of the latest     *)
(* record, it stamps and hashes the new record when the coroutine resumes, *)
(* and the INSERT becomes visible when the commit is done.  Between these  *)
(* steps every other coroutine (or worker process) may run.                *)
(*                                                                         *)
(* Abstractions.  A time stamp is a tick of one strictly increasing clock  *)
(* (the code has microseconds).  SHA-256 is injective on the records that  *)
(* occur, and no two records carry the same stamp, so a record's hash is   *)
(* represented by its stamp; GENESIS_HASH is 0.  Of a record's data only   *)
(* the presence of a control_id matters to the code.  "overlapped" is      *)
(* history: the tenants for which two coroutines that write, appends or    *)
(* demo listings, were once at work at a time.                             *)
(***************************************************************************)
EXTENDS Integers, FiniteSets, Sequences

CONSTANTS
    Tenants,        \* tenants of the deployment
    DemoTenants,    \* those is_demo_tenant recognises
    Writers,        \* coroutines that call append_evidence_record
    Listers,        \* coroutines that call list_evidence
    CheckLimit,     \* rows ensure_demo_evidence samples (20 in the code)
    ListLimit,      \* rows a listing shows (500 in the code)
    SeedLinks,      \* per seeded demo event: does it carry a control_id?
    MaxStamp        \* bound of the model: how often the clock ticks

ASSUME TenantsAssumption == Tenants # {} /\ DemoTenants \subseteq Tenants
ASSUME LimitsAssumption ==
    /\ CheckLimit \in Nat \ {0}
    /\ ListLimit \in Nat \ {0}
    /\ MaxStamp \in Nat
    /\ SeedLinks \in Seq(BOOLEAN)
    /\ SeedLinks # <<>>

VARIABLES
    vault,      \* committed evidence_records of each tenant
    clock,      \* the last time stamp handed out
    writer,     \* local state of each append_evidence_record
    lister,     \* local state of each list_evidence
    overlapped  \* history: tenants with writes that have overlapped

vars == <<vault, clock, writer, lister, overlapped>>

Genesis == 0
Production == Tenants \ DemoTenants

Record == [ts: Nat, prev: Nat, linked: BOOLEAN]

WriterState ==
    [pc: {"idle", "stamp", "commit"}, tenant: Tenants,
     prev: Nat, ts: Nat, linked: BOOLEAN]

ListerState ==
    [pc: {"idle", "delete", "purge", "seed", "insert", "read"},
     tenant: Tenants, doomed: SUBSET Record, draft: SUBSET Record,
     shown: {"nothing", "valid", "broken"}]

(* The tenant of an idle coroutine means nothing: any fixed one will do.   *)
NoTenant == CHOOSE t \in Tenants : TRUE

IdleWriter ==
    [pc |-> "idle", tenant |-> NoTenant,
     prev |-> Genesis, ts |-> 0, linked |-> FALSE]

IdleLister ==
    [pc |-> "idle", tenant |-> NoTenant,
     doomed |-> {}, draft |-> {}, shown |-> "nothing"]

Init ==
    /\ vault = [t \in Tenants |-> {}]
    /\ clock = 0
    /\ writer = [w \in Writers |-> IdleWriter]
    /\ lister = [l \in Listers |-> IdleLister]
    /\ overlapped = {}

-----------------------------------------------------------------------------
(* append_evidence_record                                                  *)

(* A fault that ORDER BY timestamp without DESC would be.                  *)
OldestChainHashes(rows) ==
    IF rows = {} THEN {Genesis}
    ELSE {r.ts : r \in {q \in rows : \A s \in rows : q.ts <= s.ts}}

(* The hashes SELECT record_hash ... ORDER BY timestamp DESC LIMIT 1 may   *)
(* return, with the fallback to GENESIS_HASH on an empty vault.            *)
LatestChainHashes(rows) ==
    IF rows = {} THEN {Genesis}
    ELSE {r.ts : r \in {q \in rows : \A s \in rows : s.ts <= q.ts}}

(* May the record carry a control_id?  Only demo listings look at it.      *)
Links(t) == IF t \in DemoTenants THEN BOOLEAN ELSE {TRUE}

AppendsFor(w, t) == writer[w].pc # "idle" /\ writer[w].tenant = t

(* A fault: the latest hash of any tenant, the tenant filter dropped.      *)
ReadTipOfAnyTenant(w, t) ==
    /\ writer[w].pc = "idle"
    /\ \E linked \in Links(t),
          prev \in LatestChainHashes(UNION {vault[u] : u \in Tenants}) :
           writer' = [writer EXCEPT ![w] =
                        [pc |-> "stamp", tenant |-> t, prev |-> prev,
                         ts |-> 0, linked |-> linked]]
    /\ overlapped' = IF \E v \in Writers : AppendsFor(v, t)
                       THEN overlapped \cup {t} ELSE overlapped
    /\ UNCHANGED <<vault, clock, lister>>

(* A caller has fixed what it records; the query for the latest hash is    *)
(* answered.                                                               *)
ReadTip(w, t) ==
    /\ writer[w].pc = "idle"
    /\ \E linked \in Links(t), prev \in LatestChainHashes(vault[t]) :
           writer' = [writer EXCEPT ![w] =
                        [pc |-> "stamp", tenant |-> t, prev |-> prev,
                         ts |-> 0, linked |-> linked]]
    /\ overlapped' = IF \E v \in Writers : AppendsFor(v, t)
                       THEN overlapped \cup {t} ELSE overlapped
    /\ UNCHANGED <<vault, clock, lister>>

(* The coroutine resumes: datetime.now, compute_record_hash, session.add.  *)
Stamp(w) ==
    /\ writer[w].pc = "stamp"
    /\ clock < MaxStamp
    /\ clock' = clock + 1
    /\ writer' = [writer EXCEPT ![w].pc = "commit", ![w].ts = clock + 1]
    /\ UNCHANGED <<vault, lister, overlapped>>

NewRecord(w) ==
    [ts |-> writer[w].ts, prev |-> writer[w].prev,
     linked |-> writer[w].linked]

(* session.commit: the INSERT becomes visible and the call returns.        *)
Commit(w) ==
    /\ writer[w].pc = "commit"
    /\ vault' = [vault EXCEPT ![writer[w].tenant] = @ \cup {NewRecord(w)}]
    /\ writer' = [writer EXCEPT ![w] = IdleWriter]
    /\ UNCHANGED <<clock, lister, overlapped>>

-----------------------------------------------------------------------------
(* list_evidence, which first runs ensure_demo_evidence                    *)

(* SELECT ... LIMIT 20 has no ORDER BY: any CheckLimit of the tenant's     *)
(* rows, or all of them if there are fewer.                                *)
Samples(rows) ==
    {s \in SUBSET rows :
        \/ s = rows /\ Cardinality(rows) <= CheckLimit
        \/ Cardinality(s) = CheckLimit}

(* What ensure_demo_evidence does next.  Every record this program writes  *)
(* has two hashes of 64 characters, so only control_id decides.            *)
AfterSample(sample) ==
    IF sample = {} THEN "seed"
    ELSE IF \E r \in sample : r.linked THEN "read" ELSE "delete"

ListsFor(l, t) == lister[l].pc # "idle" /\ lister[l].tenant = t

(* A fault: every tenant's vault is checked and reseeded.                  *)
ListCheckEveryTenant(l, t) ==
    /\ lister[l].pc = "idle"
    /\ \E s \in Samples(vault[t]) :
          lister' = [lister EXCEPT ![l] =
                       [IdleLister EXCEPT !.pc = AfterSample(s), !.tenant = t]]
    /\ UNCHANGED <<vault, clock, writer, overlapped>>

(* The first query of a listing; nothing is checked in production.         *)
ListCheck(l, t) ==
    /\ lister[l].pc = "idle"
    /\ \E pc \in IF t \in DemoTenants
                  THEN {AfterSample(s) : s \in Samples(vault[t])}
                  ELSE {"read"} :
          lister' = [lister EXCEPT ![l] =
                       [IdleLister EXCEPT !.pc = pc, !.tenant = t]]
    /\ overlapped' = IF t \in DemoTenants /\ \E k \in Listers : ListsFor(k, t)
                       THEN overlapped \cup {t} ELSE overlapped
    /\ UNCHANGED <<vault, clock, writer>>

(* DELETE FROM evidence_records WHERE tenant_id = ...: it takes the rows   *)
(* that are committed when it runs ...                                     *)
ListDelete(l) ==
    /\ lister[l].pc = "delete"
    /\ lister' = [lister EXCEPT ![l].pc = "purge",
                                ![l].doomed = vault[lister[l].tenant]]
    /\ UNCHANGED <<vault, clock, writer, overlapped>>

(* ... and they are gone for the others when the purge commits.            *)
ListPurge(l) ==
    /\ lister[l].pc = "purge"
    /\ vault' = [vault EXCEPT ![lister[l].tenant] = @ \ lister[l].doomed]
    /\ lister' = [lister EXCEPT ![l].pc = "seed", ![l].doomed = {}]
    /\ UNCHANGED <<clock, writer, overlapped>>

(* A fault: the link of a seeded record is off by one.                     *)
SeedRecordOffByOne(i) ==
    [ts |-> clock + i, prev |-> clock + i - 2, linked |-> SeedLinks[i]]

SeedRecord(i) ==
    [ts |-> clock + i, prev |-> IF i = 1 THEN Genesis ELSE clock + i - 1,
     linked |-> SeedLinks[i]]

(* The seed loop awaits nothing: its records are stamped in one go.        *)
ListSeed(l) ==
    /\ lister[l].pc = "seed"
    /\ clock + Len(SeedLinks) <= MaxStamp
    /\ clock' = clock + Len(SeedLinks)
    /\ lister' = [lister EXCEPT
                    ![l].pc = "insert",
                    ![l].draft = {SeedRecord(i) : i \in DOMAIN SeedLinks}]
    /\ UNCHANGED <<vault, writer, overlapped>>

ListInsert(l) ==
    /\ lister[l].pc = "insert"
    /\ vault' = [vault EXCEPT ![lister[l].tenant] = @ \cup lister[l].draft]
    /\ lister' = [lister EXCEPT ![l].pc = "read", ![l].draft = {}]
    /\ UNCHANGED <<clock, writer, overlapped>>

(* The latest ListLimit records.                                           *)
Listing(rows) ==
    {r \in rows : Cardinality({s \in rows : s.ts > r.ts}) < ListLimit}

Precedes(s, r, rows) ==
    s.ts < r.ts /\ \A q \in rows : q.ts <= s.ts \/ r.ts <= q.ts

(* A fault: the first listed record must link to GENESIS_HASH.             *)
ChainValidFromGenesis(rows) ==
    /\ \A r, s \in rows : Precedes(s, r, rows) => r.prev = s.ts
    /\ \A r \in rows : (\A s \in rows : r.ts <= s.ts) => r.prev = Genesis

(* get_evidence_vault compares each listed record with the one listed      *)
(* before it; the first listed record is not compared with anything.       *)
ChainValid(rows) ==
    \A r, s \in rows : Precedes(s, r, rows) => r.prev = s.ts

ListRead(l) ==
    LET valid == ChainValid(Listing(vault[lister[l].tenant])) IN
    /\ lister[l].pc = "read"
    /\ lister' = [lister EXCEPT
                    ![l].pc = "idle",
                    ![l].shown = IF valid THEN "valid" ELSE "broken"]
    /\ UNCHANGED <<vault, clock, writer, overlapped>>

-----------------------------------------------------------------------------
(* A coroutine is lost with its open transaction: an exception such as a   *)
(* failing commit, or a restart, which loses all of them one by one.       *)
AppendFails(w) ==
    /\ writer[w].pc # "idle"
    /\ writer' = [writer EXCEPT ![w] = IdleWriter]
    /\ UNCHANGED <<vault, clock, lister, overlapped>>

ListFails(l) ==
    /\ lister[l].pc # "idle"
    /\ lister' = [lister EXCEPT ![l] = IdleLister]
    /\ UNCHANGED <<vault, clock, writer, overlapped>>

Fail == (\E w \in Writers : AppendFails(w)) \/ (\E l \in Listers : ListFails(l))

AppendEvidence(w) == (\E t \in Tenants : ReadTip(w, t)) \/ Stamp(w) \/ Commit(w)

Reseed(l) == ListDelete(l) \/ ListPurge(l) \/ ListSeed(l) \/ ListInsert(l)

List(l) == (\E t \in Tenants : ListCheck(l, t)) \/ Reseed(l) \/ ListRead(l)

Next ==
    \/ \E w \in Writers : AppendEvidence(w)
    \/ \E l \in Listers : List(l)
    \/ Fail

Spec == Init /\ [][Next]_vars

-----------------------------------------------------------------------------
(* Properties                                                              *)

(* The types of the table and of the coroutines' local state.              *)
TypeOK ==
    /\ vault \in [Tenants -> SUBSET Record]
    /\ clock \in Nat
    /\ writer \in [Writers -> WriterState]
    /\ lister \in [Listers -> ListerState]
    /\ overlapped \subseteq Tenants

Resolves(r, rows) ==
    \/ r.prev = Genesis
    \/ \E s \in rows : s.ts = r.prev /\ s.ts < r.ts

(* In a production tenant no append, however the appends interleave or     *)
(* fail, leaves a dangling link: every previous_hash is GENESIS_HASH or    *)
(* the hash of an older committed record of that tenant.                   *)
LinksResolve ==
    \A t \in Production : \A r \in vault[t] : Resolves(r, vault[t])

ChainLinear(rows) == \A r, s \in rows : s.ts < r.ts => s.ts <= r.prev

(* The chain forks only where appends overlap: a production tenant that    *)
(* never had two appends in progress has every record linked to the one    *)
(* right before it, whatever other tenants, listings and failures do.      *)
SerialChainLinear ==
    \A t \in Production \ overlapped : ChainLinear(vault[t])

(* What "valid: false" from GET /evidence means for a production tenant:   *)
(* two of its appends overlapped.  Paging, failures or a late commit alone *)
(* never make an untouched vault look tampered with.                       *)
BrokenMeansOverlap ==
    \A l \in Listers :
        lister[l].shown = "broken" /\ lister[l].tenant \in Production
            => lister[l].tenant \in overlapped

(* Evidence of a production tenant is never deleted or rewritten.          *)
ProductionAppendOnly ==
    [][\A t \in Production : vault[t] \subseteq vault'[t]]_vars

(* The vault as api/routers/evidence.py presents it: one tamper-evident    *)
(* chain per tenant, so that a broken link shows tampering.                *)
ChainNeverForks == \A t \in Production : ChainLinear(vault[t])
=============================================================================
