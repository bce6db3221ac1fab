-------------------------- MODULE EvidenceVaultProofs --------------------------
(***************************************************************************)
(* Theorems about EvidenceVault, for any set of tenants, any number of     *)
(* coroutines and any limits.                                              *)
(***************************************************************************)
EXTENDS EvidenceVault, FiniteSetTheorems, TLAPS

(* No stamp committed in production, or pending, is ahead of the clock.    *)
StampsPast ==
    /\ \A t \in Production : \A r \in vault[t] : r.ts <= clock
    /\ \A w \in Writers : writer[w].pc = "commit" => writer[w].ts <= clock

(* Only demo tenants are ever purged or seeded.                            *)
OnlyDemoReseeded ==
    \A l \in Listers :
        lister[l].tenant \in Production => lister[l].pc \in {"idle", "read"}

(* The hash a coroutine has read still belongs to a committed record, and  *)
(* that record is older than the one the coroutine is about to commit.     *)
PendingResolves ==
    \A w \in Writers :
        writer[w].pc # "idle" /\ writer[w].tenant \in Production =>
            /\ \/ writer[w].prev = Genesis
               \/ \E s \in vault[writer[w].tenant] : s.ts = writer[w].prev
            /\ writer[w].prev <= clock
            /\ writer[w].pc = "commit" => writer[w].prev < writer[w].ts

(* Strengthening of LinksResolve: the inductive invariant.                 *)
LinkInv ==
    TypeOK /\ StampsPast /\ OnlyDemoReseeded /\ PendingResolves /\ LinksResolve

(* Where appends never overlapped, at most one coroutine is appending, and *)
(* the hash it has read is still the latest one.                           *)
SerialPending ==
    \A t \in Production \ overlapped :
        /\ \A v, w \in Writers : AppendsFor(v, t) /\ AppendsFor(w, t) => v = w
        /\ \A w \in Writers : AppendsFor(w, t) =>
               \A s \in vault[t] : s.ts <= writer[w].prev

(* Strengthening of SerialChainLinear.                                     *)
ChainInv == SerialPending /\ SerialChainLinear

(* A production vault is a finite set of records with stamps from 1 on, so *)
(* that a listing is well defined and no stamp is mistaken for GENESIS.    *)
VaultsCounted ==
    /\ \A t \in Production :
          IsFiniteSet(vault[t]) /\ \A r \in vault[t] : r.ts > 0
    /\ \A w \in Writers : writer[w].pc = "commit" => writer[w].ts > 0

(* Strengthening of BrokenMeansOverlap.                                    *)
ListingInv == VaultsCounted /\ BrokenMeansOverlap

-----------------------------------------------------------------------------

(* The latest-hash query answers with a natural number.                    *)
LEMMA LatestIsNat ==
    ASSUME NEW rows \in SUBSET Record
    PROVE  LatestChainHashes(rows) \subseteq Nat
BY DEF LatestChainHashes, Record, Genesis

(* A hash it answers with is GENESIS_HASH or that of a row no other row is *)
(* newer than.                                                             *)
LEMMA LatestIsNewest ==
    ASSUME NEW rows \in SUBSET Record, NEW h \in LatestChainHashes(rows)
    PROVE  /\ h = Genesis \/ \E s \in rows : s.ts = h
           /\ \A s \in rows : s.ts <= h
BY DEF LatestChainHashes, Record, Genesis

(* The seed loop builds well-formed records.                               *)
LEMMA SeedsAreRecords ==
    ASSUME clock \in Nat
    PROVE  {SeedRecord(i) : i \in DOMAIN SeedLinks} \subseteq Record
<1>1. DOMAIN SeedLinks = 1 .. Len(SeedLinks) /\ Len(SeedLinks) \in Nat
  BY LimitsAssumption
<1>2. \A i \in DOMAIN SeedLinks : SeedLinks[i] \in BOOLEAN
  BY LimitsAssumption
<1>3. SUFFICES ASSUME NEW i \in DOMAIN SeedLinks
               PROVE  SeedRecord(i) \in Record
  OBVIOUS
<1>4. i \in Nat \ {0}
  BY <1>1
<1>5. clock + i \in Nat /\ clock + i - 1 \in Nat
  BY <1>4
<1>6. QED
  BY <1>2, <1>5 DEF SeedRecord, Record, Genesis

(* Where a listing goes after its first query: a production tenant's       *)
(* listing straight to its read.                                           *)
LEMMA CheckChooses ==
    ASSUME NEW l \in Listers, NEW t \in Tenants, ListCheck(l, t)
    PROVE  \E pc \in {"seed", "read", "delete"} :
              /\ lister' = [lister EXCEPT ![l] =
                              [IdleLister EXCEPT !.pc = pc, !.tenant = t]]
              /\ t \in Production => pc = "read"
<1>1. PICK pc \in IF t \in DemoTenants
                  THEN {AfterSample(s) : s \in Samples(vault[t])}
                  ELSE {"read"} :
          lister' = [lister EXCEPT ![l] =
                       [IdleLister EXCEPT !.pc = pc, !.tenant = t]]
  BY DEF ListCheck
<1>2. \A s : AfterSample(s) \in {"seed", "read", "delete"}
  BY DEF AfterSample
<1>3. pc \in {"seed", "read", "delete"} /\ (t \in Production => pc = "read")
  BY <1>2 DEF Production
<1>4. QED
  BY <1>1, <1>3

(* A sentinel tenant exists.                                               *)
LEMMA NoTenantIsTenant == NoTenant \in Tenants
BY TenantsAssumption DEF NoTenant

-----------------------------------------------------------------------------
(* Type correctness                                                        *)

LEMMA TypeInit == Init => TypeOK
BY NoTenantIsTenant DEF Init, TypeOK, IdleWriter, IdleLister, WriterState,
   ListerState, Genesis

LEMMA TypeNext == TypeOK /\ [Next]_vars => TypeOK'
<1> SUFFICES ASSUME TypeOK, [Next]_vars PROVE TypeOK'
  OBVIOUS
<1>1. ASSUME NEW w \in Writers, NEW t \in Tenants, ReadTip(w, t) PROVE TypeOK'
  <2>1. PICK linked \in BOOLEAN, prev \in LatestChainHashes(vault[t]) :
            writer' = [writer EXCEPT ![w] =
                         [pc |-> "stamp", tenant |-> t, prev |-> prev,
                          ts |-> 0, linked |-> linked]]
    BY <1>1 DEF ReadTip, Links
  <2>2. prev \in Nat
    BY LatestIsNat DEF TypeOK
  <2>3. writer' \in [Writers -> WriterState]
    BY <2>1, <2>2 DEF TypeOK, WriterState
  <2>4. QED
    BY <1>1, <2>3 DEF ReadTip, TypeOK
<1>2. ASSUME NEW w \in Writers, Stamp(w) PROVE TypeOK'
  <2>1. clock + 1 \in Nat /\ writer[w] \in WriterState
    BY DEF TypeOK
  <2>2. writer' \in [Writers -> WriterState]
    <3> DEFINE s == [writer[w] EXCEPT !.pc = "commit", !.ts = clock + 1]
    <3>1. s \in WriterState
      BY <2>1 DEF WriterState
    <3> QED
      BY <1>2, <3>1 DEF Stamp, TypeOK
  <2>3. QED
    BY <1>2, <2>1, <2>2 DEF Stamp, TypeOK
<1>3. ASSUME NEW w \in Writers, Commit(w) PROVE TypeOK'
  <2>1. writer[w] \in WriterState
    BY DEF TypeOK
  <2>2. NewRecord(w) \in Record
    BY <2>1 DEF NewRecord, Record, WriterState
  <2>3. IdleWriter \in WriterState
    BY NoTenantIsTenant DEF IdleWriter, WriterState, Genesis
  <2>4. writer' \in [Writers -> WriterState]
    BY <1>3, <2>3 DEF Commit, TypeOK
  <2>5. vault' \in [Tenants -> SUBSET Record]
    <3>1. vault' = [vault EXCEPT ![writer[w].tenant] = @ \cup {NewRecord(w)}]
      BY <1>3 DEF Commit
    <3>2. writer[w].tenant \in Tenants
      BY <2>1 DEF WriterState
    <3> QED
      BY <2>2, <3>1, <3>2 DEF TypeOK
  <2>6. UNCHANGED <<clock, lister, overlapped>>
    BY <1>3 DEF Commit
  <2>7. QED
    BY <2>4, <2>5, <2>6 DEF TypeOK
<1>4. ASSUME NEW l \in Listers, NEW t \in Tenants, ListCheck(l, t) PROVE TypeOK'
  <2>1. PICK pc \in {"seed", "read", "delete"} :
            /\ lister' = [lister EXCEPT ![l] =
                            [IdleLister EXCEPT !.pc = pc, !.tenant = t]]
            /\ t \in Production => pc = "read"
    BY <1>4, CheckChooses, Zenon
  <2>2. [IdleLister EXCEPT !.pc = pc, !.tenant = t] \in ListerState
    <3>1. IdleLister \in ListerState
      BY NoTenantIsTenant DEF IdleLister, ListerState
    <3> QED
      BY <3>1 DEF ListerState
  <2>3. QED
    BY <1>4, <2>1, <2>2 DEF ListCheck, TypeOK
<1>5. ASSUME NEW l \in Listers, ListDelete(l) PROVE TypeOK'
  <2> DEFINE s == [lister[l] EXCEPT !.pc = "purge",
                                   !.doomed = vault[lister[l].tenant]]
  <2>1. s \in ListerState
    BY DEF TypeOK, ListerState
  <2>2. lister' = [lister EXCEPT ![l] = s]
    BY <1>5 DEF ListDelete
  <2> QED
    BY <1>5, <2>1, <2>2 DEF ListDelete, TypeOK
<1>6. ASSUME NEW l \in Listers, ListPurge(l) PROVE TypeOK'
  <2> DEFINE s == [lister[l] EXCEPT !.pc = "seed", !.doomed = {}]
  <2>1. s \in ListerState
    BY DEF TypeOK, ListerState
  <2>2. lister' = [lister EXCEPT ![l] = s]
    BY <1>6 DEF ListPurge
  <2>3. vault' \in [Tenants -> SUBSET Record]
    BY <1>6 DEF ListPurge, TypeOK
  <2> QED
    BY <1>6, <2>1, <2>2, <2>3 DEF ListPurge, TypeOK
<1>7. ASSUME NEW l \in Listers, ListSeed(l) PROVE TypeOK'
  <2>1. clock' \in Nat
    BY <1>7, LimitsAssumption DEF ListSeed, TypeOK
  <2>2. {SeedRecord(i) : i \in DOMAIN SeedLinks} \subseteq Record
    BY SeedsAreRecords DEF TypeOK
  <2> DEFINE s == [lister[l] EXCEPT
                     !.pc = "insert",
                     !.draft = {SeedRecord(i) : i \in DOMAIN SeedLinks}]
  <2>3. s \in ListerState
    BY <2>2 DEF TypeOK, ListerState
  <2>4. lister' = [lister EXCEPT ![l] = s]
    BY <1>7 DEF ListSeed
  <2> QED
    BY <1>7, <2>1, <2>3, <2>4 DEF ListSeed, TypeOK
<1>8. ASSUME NEW l \in Listers, ListInsert(l) PROVE TypeOK'
  <2> DEFINE s == [lister[l] EXCEPT !.pc = "read", !.draft = {}]
  <2>1. s \in ListerState
    BY DEF TypeOK, ListerState
  <2>2. lister' = [lister EXCEPT ![l] = s]
    BY <1>8 DEF ListInsert
  <2>3. lister[l].draft \subseteq Record
    BY DEF TypeOK, ListerState
  <2>4. vault' \in [Tenants -> SUBSET Record]
    BY <1>8, <2>3 DEF ListInsert, TypeOK
  <2> QED
    BY <1>8, <2>1, <2>2, <2>4 DEF ListInsert, TypeOK
<1>9. ASSUME NEW l \in Listers, ListRead(l) PROVE TypeOK'
  <2>1. PICK verdict \in {"valid", "broken"} :
            lister' = [lister EXCEPT ![l].pc = "idle", ![l].shown = verdict]
    BY <1>9 DEF ListRead
  <2> DEFINE s == [lister[l] EXCEPT !.pc = "idle", !.shown = verdict]
  <2>2. s \in ListerState
    BY DEF TypeOK, ListerState
  <2>3. lister' = [lister EXCEPT ![l] = s]
    BY <2>1
  <2> QED
    BY <1>9, <2>2, <2>3 DEF ListRead, TypeOK
<1>10. ASSUME Fail PROVE TypeOK'
  <2>1. IdleWriter \in WriterState /\ IdleLister \in ListerState
    BY NoTenantIsTenant DEF IdleWriter, IdleLister, WriterState, ListerState,
       Genesis
  <2>2. QED
    BY <1>10, <2>1 DEF Fail, AppendFails, ListFails, TypeOK
<1>11. ASSUME UNCHANGED vars PROVE TypeOK'
  BY <1>11 DEF vars, TypeOK
<1>12. QED
  BY <1>1, <1>2, <1>3, <1>4, <1>5, <1>6, <1>7, <1>8, <1>9, <1>10, <1>11
     DEF Next, AppendEvidence, List, Reseed

(* Every reachable state of the vault and of its coroutines is well typed. *)
THEOREM TypeCorrect == Spec => []TypeOK
BY TypeInit, TypeNext, PTL DEF Spec

-----------------------------------------------------------------------------
(* Links resolve                                                           *)

LEMMA LinkInit == Init => LinkInv
BY TypeInit, NoTenantIsTenant DEF Init, LinkInv, StampsPast, OnlyDemoReseeded,
   PendingResolves, LinksResolve, IdleWriter, IdleLister, Production

(* Steps that leave the table, the clock and the appending coroutines      *)
(* alone, and keep production listings away from the purge.                *)
LEMMA LinkListing ==
    ASSUME LinkInv, TypeOK', UNCHANGED <<vault, clock, writer>>,
           OnlyDemoReseeded'
    PROVE  LinkInv'
BY DEF LinkInv, StampsPast, PendingResolves, LinksResolve, Resolves

LEMMA LinkReadTip ==
    ASSUME LinkInv, TypeOK', NEW w \in Writers, NEW t \in Tenants, ReadTip(w, t)
    PROVE  LinkInv'
<1>1. PICK linked \in BOOLEAN, prev \in LatestChainHashes(vault[t]) :
          writer' = [writer EXCEPT ![w] =
                       [pc |-> "stamp", tenant |-> t, prev |-> prev,
                        ts |-> 0, linked |-> linked]]
  BY DEF ReadTip, Links
<1>2. vault[t] \in SUBSET Record
  BY DEF LinkInv, TypeOK
<1>3. prev = Genesis \/ \E s \in vault[t] : s.ts = prev
  BY <1>2, LatestIsNewest
<1>4. t \in Production => prev <= clock
  BY <1>3 DEF LinkInv, TypeOK, StampsPast, Genesis
<1>5. PendingResolves'
  BY <1>1, <1>3, <1>4 DEF LinkInv, TypeOK, PendingResolves, ReadTip
<1>6. StampsPast'
  BY <1>1 DEF LinkInv, TypeOK, StampsPast, ReadTip
<1>7. QED
  BY <1>5, <1>6 DEF LinkInv, OnlyDemoReseeded, LinksResolve, Resolves, ReadTip

LEMMA LinkStamp ==
    ASSUME LinkInv, TypeOK', NEW w \in Writers, Stamp(w)
    PROVE  LinkInv'
<1>1. clock \in Nat /\ writer[w] \in WriterState
  BY DEF LinkInv, TypeOK
<1>2. StampsPast'
  <2>1. \A t \in Tenants : \A r \in vault[t] : r.ts \in Nat
    BY DEF LinkInv, TypeOK, Record
  <2>2. \A v \in Writers : writer[v].ts \in Nat
    BY DEF LinkInv, TypeOK, WriterState
  <2>3. \A t \in Production : \A r \in vault'[t] : r.ts <= clock'
    BY <1>1, <2>1 DEF LinkInv, StampsPast, Stamp, Production
  <2>4. \A v \in Writers : writer'[v].pc = "commit" => writer'[v].ts <= clock'
    <3>1. writer'[w].ts = clock + 1
      BY DEF LinkInv, TypeOK, WriterState, Stamp
    <3>2. \A v \in Writers \ {w} : writer'[v] = writer[v]
      BY DEF LinkInv, TypeOK, Stamp
    <3>3. clock' = clock + 1
      BY DEF Stamp
    <3>4. QED
      BY <1>1, <2>2, <3>1, <3>2, <3>3 DEF LinkInv, StampsPast
  <2>5. QED
    BY <2>3, <2>4 DEF StampsPast
<1>3. PendingResolves'
  <2>1. \A v \in Writers : writer[v].prev \in Nat
    BY DEF LinkInv, TypeOK, WriterState
  <2>2. SUFFICES ASSUME NEW v \in Writers, writer'[v].pc # "idle",
                        writer'[v].tenant \in Production
                 PROVE  /\ \/ writer'[v].prev = Genesis
                           \/ \E s \in vault'[writer'[v].tenant] :
                                   s.ts = writer'[v].prev
                        /\ writer'[v].prev <= clock'
                        /\ writer'[v].pc = "commit" =>
                               writer'[v].prev < writer'[v].ts
    BY DEF PendingResolves
  <2>3. /\ writer[v].pc # "idle"
        /\ writer'[v].tenant = writer[v].tenant
        /\ writer'[v].prev = writer[v].prev
        /\ v # w => writer'[v] = writer[v]
        /\ v = w => writer'[v].ts = clock + 1
    BY <2>2 DEF LinkInv, TypeOK, WriterState, Stamp
  <2>4. /\ \/ writer[v].prev = Genesis
           \/ \E s \in vault[writer[v].tenant] : s.ts = writer[v].prev
        /\ writer[v].prev <= clock
        /\ writer[v].pc = "commit" => writer[v].prev < writer[v].ts
    BY <2>2, <2>3 DEF LinkInv, PendingResolves
  <2>5. vault' = vault /\ clock' = clock + 1
    BY DEF Stamp
  <2>6. writer'[v].prev < clock + 1 /\ writer'[v].prev <= clock'
    BY <1>1, <2>1, <2>3, <2>4, <2>5
  <2>7. writer'[v].pc = "commit" => writer'[v].prev < writer'[v].ts
    <3>1. CASE v = w
      BY <2>3, <2>6, <3>1
    <3>2. CASE v # w
      BY <2>3, <2>4, <3>2
    <3>3. QED
      BY <3>1, <3>2
  <2>8. QED
    BY <2>3, <2>4, <2>5, <2>6, <2>7
<1>4. QED
  BY <1>2, <1>3 DEF LinkInv, OnlyDemoReseeded, LinksResolve, Resolves, Stamp

LEMMA LinkCommit ==
    ASSUME LinkInv, TypeOK', NEW w \in Writers, Commit(w)
    PROVE  LinkInv'
<1> DEFINE u == writer[w].tenant
<1>1. /\ writer[w] \in WriterState /\ u \in Tenants
      /\ writer[w].pc = "commit"
      /\ writer' = [writer EXCEPT ![w] = IdleWriter]
      /\ UNCHANGED <<clock, lister>>
  BY DEF LinkInv, TypeOK, WriterState, Commit
<1>2. /\ vault'[u] = vault[u] \cup {NewRecord(w)}
      /\ \A t \in Tenants \ {u} : vault'[t] = vault[t]
  BY <1>1 DEF LinkInv, TypeOK, Commit
<1>3. \A v \in Writers : writer'[v].pc # "idle" => writer'[v] = writer[v]
  BY <1>1 DEF LinkInv, TypeOK, IdleWriter
<1>4. StampsPast'
  <2>1. writer[w].ts <= clock
    BY <1>1 DEF LinkInv, StampsPast
  <2>2. \A t \in Production : \A r \in vault'[t] : r.ts <= clock
    BY <1>2, <2>1 DEF LinkInv, StampsPast, NewRecord, Production
  <2>3. \A v \in Writers : writer'[v].pc = "commit" => writer'[v].ts <= clock
    BY <1>3 DEF LinkInv, StampsPast
  <2>4. QED
    BY <1>1, <2>2, <2>3 DEF StampsPast
<1>5. OnlyDemoReseeded'
  BY <1>1 DEF LinkInv, OnlyDemoReseeded
<1>6. \A t \in Tenants : vault[t] \subseteq vault'[t]
  BY <1>2
<1>7. PendingResolves'
  BY <1>1, <1>3, <1>6 DEF LinkInv, PendingResolves, Production
<1>8. LinksResolve'
  <2>1. u \in Production => Resolves(NewRecord(w), vault[u])
    BY <1>1 DEF LinkInv, PendingResolves, Resolves, NewRecord
  <2>2. \A t \in Production : \A r \in vault'[t] : Resolves(r, vault[t])
    BY <1>2, <2>1 DEF LinkInv, LinksResolve, Production
  <2>3. QED
    BY <1>6, <2>2 DEF LinksResolve, Resolves, Production
<1>9. QED
  BY <1>4, <1>5, <1>7, <1>8 DEF LinkInv

(* Purges and seeds change the table of a demo tenant only.                *)
LEMMA ReseedSpares ==
    ASSUME LinkInv, NEW l \in Listers, Reseed(l)
    PROVE  /\ lister[l].tenant \notin Production
           /\ \A t \in Production : vault'[t] = vault[t]
           /\ UNCHANGED <<writer, overlapped>>
<1>1. lister[l].pc \in {"delete", "purge", "seed", "insert"}
  BY DEF Reseed, ListDelete, ListPurge, ListSeed, ListInsert
<1>2. lister[l].tenant \notin Production
  BY <1>1 DEF LinkInv, OnlyDemoReseeded
<1>3. \A t \in Production : vault'[t] = vault[t]
  BY <1>2 DEF LinkInv, TypeOK, Production, Reseed, ListDelete, ListPurge,
     ListSeed, ListInsert
<1>4. QED
  BY <1>2, <1>3 DEF Reseed, ListDelete, ListPurge, ListSeed, ListInsert

LEMMA LinkReseed ==
    ASSUME LinkInv, TypeOK', NEW l \in Listers, Reseed(l)
    PROVE  LinkInv'
<1>1. /\ \A t \in Production : vault'[t] = vault[t]
      /\ UNCHANGED <<writer, overlapped>>
  BY ReseedSpares
<1>2. clock \in Nat /\ clock' \in Nat /\ clock <= clock'
  BY LimitsAssumption
     DEF LinkInv, TypeOK, Reseed, ListDelete, ListPurge, ListSeed, ListInsert
<1>3. StampsPast'
  <2>1. /\ \A t \in Production : \A r \in vault[t] : r.ts \in Nat
        /\ \A v \in Writers : writer[v].ts \in Nat
    BY DEF LinkInv, TypeOK, Record, WriterState, Production
  <2>2. QED
    BY <1>1, <1>2, <2>1 DEF LinkInv, StampsPast
<1>4. OnlyDemoReseeded'
  <2>1. /\ lister'[l].tenant = lister[l].tenant
        /\ \A k \in Listers \ {l} : lister'[k] = lister[k]
    BY DEF LinkInv, TypeOK, ListerState, Reseed, ListDelete, ListPurge,
       ListSeed, ListInsert
  <2>2. lister[l].tenant \notin Production
    BY ReseedSpares
  <2>3. QED
    BY <2>1, <2>2 DEF LinkInv, OnlyDemoReseeded
<1>5. PendingResolves'
  <2>1. \A v \in Writers : writer[v].prev \in Nat
    BY DEF LinkInv, TypeOK, WriterState
  <2>2. \A v \in Writers : writer[v].prev <= clock => writer[v].prev <= clock'
    BY <1>2, <2>1
  <2>3. QED
    BY <1>1, <2>2 DEF LinkInv, PendingResolves
<1>6. LinksResolve'
  BY <1>1 DEF LinkInv, LinksResolve
<1>7. QED
  BY <1>3, <1>4, <1>5, <1>6 DEF LinkInv

LEMMA LinkNext == LinkInv /\ [Next]_vars => LinkInv'
<1> SUFFICES ASSUME LinkInv, [Next]_vars PROVE LinkInv'
  OBVIOUS
<1> USE TypeNext
<1>0. TypeOK'
  BY DEF LinkInv
<1>1. ASSUME NEW w \in Writers, AppendEvidence(w) PROVE LinkInv'
  BY <1>0, <1>1, LinkReadTip, LinkStamp, LinkCommit DEF AppendEvidence
<1>2. ASSUME NEW l \in Listers, List(l) PROVE LinkInv'
  <2>1. ASSUME NEW t \in Tenants, ListCheck(l, t) PROVE LinkInv'
    <3>1. PICK pc \in {"seed", "read", "delete"} :
              /\ lister' = [lister EXCEPT ![l] =
                              [IdleLister EXCEPT !.pc = pc, !.tenant = t]]
              /\ t \in Production => pc = "read"
      BY <2>1, CheckChooses
    <3>2. OnlyDemoReseeded'
      BY <3>1 DEF LinkInv, TypeOK, OnlyDemoReseeded, IdleLister
    <3>3. QED
      BY <1>0, <2>1, <3>2, LinkListing DEF ListCheck
  <2>2. ASSUME Reseed(l) PROVE LinkInv'
    BY <1>0, <2>2, LinkReseed
  <2>3. ASSUME ListRead(l) PROVE LinkInv'
    <3>1. OnlyDemoReseeded'
      BY <2>3 DEF LinkInv, TypeOK, ListerState, OnlyDemoReseeded, ListRead
    <3>2. QED
      BY <1>0, <2>3, <3>1, LinkListing DEF ListRead
  <2>4. QED
    BY <1>2, <2>1, <2>2, <2>3 DEF List
<1>3. ASSUME Fail PROVE LinkInv'
  <2>1. OnlyDemoReseeded'
    BY <1>3 DEF LinkInv, TypeOK, OnlyDemoReseeded, Fail, AppendFails,
       ListFails, IdleLister
  <2>2. StampsPast' /\ PendingResolves'
    BY <1>3 DEF LinkInv, TypeOK, StampsPast, PendingResolves, Fail,
       AppendFails, ListFails, IdleWriter
  <2>3. LinksResolve'
    BY <1>3 DEF LinkInv, LinksResolve, Resolves, Fail, AppendFails, ListFails
  <2>4. QED
    BY <1>0, <2>1, <2>2, <2>3 DEF LinkInv
<1>4. ASSUME UNCHANGED vars PROVE LinkInv'
  BY <1>0, <1>4 DEF vars, LinkInv, StampsPast, OnlyDemoReseeded,
     PendingResolves, LinksResolve, Resolves
<1>5. QED
  BY <1>1, <1>2, <1>3, <1>4 DEF Next

LEMMA LinkInvariant == Spec => []LinkInv
BY LinkInit, LinkNext, PTL DEF Spec

(* However appends interleave and wherever coroutines are lost, every      *)
(* record of a production tenant links to GENESIS_HASH or to an older      *)
(* committed record of the same tenant.                                    *)
THEOREM LinksAlwaysResolve == Spec => []LinksResolve
<1>1. LinkInv => LinksResolve
  BY DEF LinkInv
<1>2. QED
  BY <1>1, LinkInvariant, PTL

(* Production evidence is append-only: no step removes a committed record. *)
THEOREM ProductionIsAppendOnly == Spec => ProductionAppendOnly
<1>1. ASSUME LinkInv, [Next]_vars
      PROVE  [\A t \in Production : vault[t] \subseteq vault'[t]]_vars
  <2>1. ASSUME NEW w \in Writers, AppendEvidence(w), NEW t \in Production
        PROVE  vault[t] \subseteq vault'[t]
    BY <1>1, <2>1 DEF LinkInv, TypeOK, WriterState, AppendEvidence, ReadTip,
       Stamp, Commit, Production
  <2>2. ASSUME NEW l \in Listers, List(l), NEW t \in Production
        PROVE  vault[t] \subseteq vault'[t]
    <3>1. CASE Reseed(l)
      BY <1>1, <2>2, <3>1, ReseedSpares
    <3>2. CASE ~ Reseed(l)
      BY <2>2, <3>2 DEF List, ListCheck, ListRead
    <3>3. QED
      BY <3>1, <3>2
  <2>3. QED
    BY <1>1, <2>1, <2>2 DEF Next, Fail, AppendFails, ListFails
<1>2. QED
  BY <1>1, LinkInvariant, PTL DEF Spec, ProductionAppendOnly

-----------------------------------------------------------------------------
(* Serial appends keep one chain                                           *)

LEMMA ChainInit == Init => ChainInv
BY DEF Init, ChainInv, SerialPending, SerialChainLinear, ChainLinear,
   AppendsFor, IdleWriter, Production

(* Steps that neither touch a production vault nor the writers.            *)
LEMMA ChainElsewhere ==
    ASSUME ChainInv, UNCHANGED writer, overlapped \subseteq overlapped',
           \A t \in Production : vault'[t] = vault[t]
    PROVE  ChainInv'
BY DEF ChainInv, SerialPending, SerialChainLinear, ChainLinear, AppendsFor

(* An append starts: it reads the newest hash, and it is alone or its      *)
(* tenant is recorded as overlapped.                                       *)
LEMMA ChainReadTip ==
    ASSUME LinkInv, ChainInv, NEW w \in Writers, NEW u \in Tenants,
           ReadTip(w, u)
    PROVE  ChainInv'
<1>1. PICK linked \in BOOLEAN, prev \in LatestChainHashes(vault[u]) :
          writer' = [writer EXCEPT ![w] =
                       [pc |-> "stamp", tenant |-> u, prev |-> prev,
                        ts |-> 0, linked |-> linked]]
  BY DEF ReadTip, Links
<1>2. \A s \in vault[u] : s.ts <= prev
  BY LatestIsNewest DEF LinkInv, TypeOK
<1>3. /\ vault' = vault
      /\ writer'[w].tenant = u /\ writer'[w].prev = prev
      /\ \A v \in Writers \ {w} : writer'[v] = writer[v]
  BY <1>1 DEF LinkInv, TypeOK, ReadTip
<1>4. SerialPending'
  <2>1. SUFFICES ASSUME NEW t \in (Production \ overlapped)'
                 PROVE  /\ \A x, y \in Writers :
                              AppendsFor(x, t)' /\ AppendsFor(y, t)' => x = y
                        /\ \A x \in Writers : AppendsFor(x, t)' =>
                              \A s \in vault'[t] : s.ts <= writer'[x].prev
    BY DEF SerialPending
  <2>2. t \in Production \ overlapped
    BY <2>1 DEF ReadTip, Production
  <2>3. CASE t = u
    <3>1. \A v \in Writers : ~ AppendsFor(v, u)
      BY <2>1, <2>3 DEF ReadTip, Links
    <3>2. \A v \in Writers : AppendsFor(v, u)' => v = w
      BY <1>3, <3>1 DEF AppendsFor
    <3>3. QED
      BY <1>2, <1>3, <2>3, <3>2
  <2>4. CASE t # u
    <3>1. \A v \in Writers : AppendsFor(v, t)' =>
              v # w /\ AppendsFor(v, t) /\ writer'[v] = writer[v]
      BY <1>3, <2>4 DEF AppendsFor
    <3>2. QED
      BY <1>3, <2>2, <3>1 DEF ChainInv, SerialPending
  <2>5. QED
    BY <2>3, <2>4
<1>5. SerialChainLinear'
  BY <1>3 DEF ChainInv, SerialChainLinear, ReadTip
<1>6. QED
  BY <1>4, <1>5 DEF ChainInv

LEMMA ChainStamp ==
    ASSUME LinkInv, ChainInv, NEW w \in Writers, Stamp(w)
    PROVE  ChainInv'
<1>1. \A v \in Writers : /\ writer'[v].tenant = writer[v].tenant
                         /\ writer'[v].prev = writer[v].prev
                         /\ writer'[v].pc # "idle" => writer[v].pc # "idle"
  BY DEF LinkInv, TypeOK, WriterState, Stamp
<1>2. vault' = vault /\ overlapped' = overlapped
  BY DEF Stamp
<1>3. \A t \in Tenants : \A v \in Writers : AppendsFor(v, t)' => AppendsFor(v, t)
  BY <1>1 DEF AppendsFor
<1>4. SerialPending'
  BY <1>1, <1>2, <1>3 DEF ChainInv, SerialPending, Production
<1>5. SerialChainLinear'
  BY <1>2 DEF ChainInv, SerialChainLinear
<1>6. QED
  BY <1>4, <1>5 DEF ChainInv

(* The record committed links to what is still the newest record, and is   *)
(* newer than every record committed so far.                               *)
LEMMA ChainCommit ==
    ASSUME LinkInv, ChainInv, NEW w \in Writers, Commit(w)
    PROVE  ChainInv'
<1> DEFINE u == writer[w].tenant
           n == NewRecord(w)
<1>1. /\ writer[w] \in WriterState /\ u \in Tenants
      /\ writer[w].pc = "commit" /\ AppendsFor(w, u)
      /\ writer' = [writer EXCEPT ![w] = IdleWriter]
      /\ overlapped' = overlapped
  BY DEF LinkInv, TypeOK, WriterState, Commit, AppendsFor
<1>2. /\ vault'[u] = vault[u] \cup {n}
      /\ \A t \in Tenants \ {u} : vault'[t] = vault[t]
  BY <1>1 DEF LinkInv, TypeOK, Commit
<1>3. \A t \in Tenants : \A v \in Writers :
          AppendsFor(v, t)' => v # w /\ AppendsFor(v, t) /\ writer'[v] = writer[v]
  BY <1>1 DEF LinkInv, TypeOK, AppendsFor, IdleWriter
<1>4. SerialPending'
  <2>1. SUFFICES ASSUME NEW t \in Production \ overlapped
                 PROVE  /\ \A x, y \in Writers :
                              AppendsFor(x, t)' /\ AppendsFor(y, t)' => x = y
                        /\ \A x \in Writers : AppendsFor(x, t)' =>
                              \A s \in vault'[t] : s.ts <= writer'[x].prev
    BY <1>1 DEF SerialPending
  <2>2. \A x, y \in Writers : AppendsFor(x, t)' /\ AppendsFor(y, t)' => x = y
    BY <1>3 DEF ChainInv, SerialPending, Production
  <2>3. ASSUME NEW x \in Writers, AppendsFor(x, t)'
        PROVE  \A s \in vault'[t] : s.ts <= writer'[x].prev
    <3>1. x # w /\ AppendsFor(x, t) /\ writer'[x] = writer[x]
      BY <1>3, <2>3 DEF Production
    <3>2. t # u
      BY <1>1, <3>1 DEF ChainInv, SerialPending
    <3>3. QED
      BY <1>2, <3>1, <3>2 DEF ChainInv, SerialPending, Production
  <2>4. QED
    BY <2>2, <2>3
<1>5. SerialChainLinear'
  <2>1. SUFFICES ASSUME NEW t \in Production \ overlapped,
                        NEW r \in vault'[t], NEW s \in vault'[t], s.ts < r.ts
                 PROVE  s.ts <= r.prev
    BY <1>1 DEF SerialChainLinear, ChainLinear
  <2>2. CASE t # u
    BY <1>2, <2>1, <2>2 DEF ChainInv, SerialChainLinear, ChainLinear, Production
  <2>3. CASE t = u
    <3>1. \A q \in vault[u] : q.ts <= n.prev
      BY <1>1, <2>3 DEF ChainInv, SerialPending, NewRecord
    <3>2. n.prev < n.ts
      BY <1>1, <2>3 DEF LinkInv, PendingResolves, NewRecord
    <3>3. /\ n.ts \in Nat /\ n.prev \in Nat
          /\ \A q \in vault[u] : q.ts \in Nat
      BY <1>1 DEF LinkInv, TypeOK, Record, WriterState, NewRecord
    <3>4. CASE r = n
      <4>1. s \in vault[u]
        BY <1>2, <2>1, <2>3, <3>3, <3>4
      <4>2. QED
        BY <3>1, <3>4, <4>1
    <3>5. CASE r # n /\ s = n
      <4>1. r \in vault[u]
        BY <1>2, <2>1, <2>3, <3>5
      <4>2. r.ts <= n.prev /\ r.ts \in Nat /\ n.ts < r.ts
        BY <2>1, <3>1, <3>3, <3>5, <4>1
      <4>3. QED
        BY <3>2, <3>3, <4>2
    <3>6. CASE r # n /\ s # n
      BY <1>2, <2>1, <2>3, <3>6 DEF ChainInv, SerialChainLinear, ChainLinear
    <3>7. QED
      BY <3>4, <3>5, <3>6
  <2>4. QED
    BY <2>2, <2>3
<1>6. QED
  BY <1>4, <1>5 DEF ChainInv

LEMMA ChainNext == LinkInv /\ ChainInv /\ [Next]_vars => ChainInv'
<1> SUFFICES ASSUME LinkInv, ChainInv, [Next]_vars PROVE ChainInv'
  OBVIOUS
<1>1. ASSUME NEW w \in Writers, AppendEvidence(w) PROVE ChainInv'
  BY <1>1, ChainReadTip, ChainStamp, ChainCommit DEF AppendEvidence
<1>2. ASSUME NEW l \in Listers, List(l) PROVE ChainInv'
  <2>1. CASE Reseed(l)
    BY <2>1, ReseedSpares, ChainElsewhere
  <2>2. CASE ~ Reseed(l)
    BY <1>2, <2>2, ChainElsewhere DEF List, ListCheck, ListRead
  <2>3. QED
    BY <2>1, <2>2
<1>3. ASSUME Fail PROVE ChainInv'
  BY <1>3 DEF LinkInv, TypeOK, Fail, AppendFails, ListFails, ChainInv,
     SerialPending, SerialChainLinear, AppendsFor, IdleWriter
<1>4. ASSUME UNCHANGED vars PROVE ChainInv'
  BY <1>4, ChainElsewhere DEF vars
<1>5. QED
  BY <1>1, <1>2, <1>3, <1>4 DEF Next

(* A production tenant whose appends never overlapped has one unforked     *)
(* chain: each record links to the one committed right before it.          *)
THEOREM SerialChainIsLinear == Spec => []SerialChainLinear
<1>1. ChainInv => SerialChainLinear
  BY DEF ChainInv
<1>2. QED
  BY <1>1, ChainInit, ChainNext, LinkInvariant, PTL DEF Spec

-----------------------------------------------------------------------------
(* A broken listing shows an overlap                                       *)

(* The listed records are the newest: with one of them a listing shows all *)
(* that are as new.                                                        *)
LEMMA ListingIsUpper ==
    ASSUME NEW rows \in SUBSET Record, IsFiniteSet(rows),
           NEW s \in Listing(rows), NEW q \in rows, s.ts <= q.ts
    PROVE  q \in Listing(rows)
<1> DEFINE above(r) == {x \in rows : x.ts > r.ts}
<1>1. \A x \in rows : x.ts \in Nat
  BY DEF Record
<1>2. s \in rows /\ Cardinality(above(s)) < ListLimit
  BY DEF Listing
<1>3. above(q) \in SUBSET above(s)
  BY <1>1, <1>2
<1>4. IsFiniteSet(above(s))
  <2>1. above(s) \in SUBSET rows
    OBVIOUS
  <2>2. QED
    BY <2>1, FS_Subset
<1>5. IsFiniteSet(above(q)) /\ Cardinality(above(q)) <= Cardinality(above(s))
  BY <1>3, <1>4, FS_Subset
<1>6. Cardinality(above(q)) \in Nat /\ Cardinality(above(s)) \in Nat
  BY <1>4, <1>5, FS_CardinalityType
<1>7. Cardinality(above(q)) < ListLimit
  BY <1>2, <1>5, <1>6, LimitsAssumption
<1>8. QED
  BY <1>7 DEF Listing

(* Every window of an unforked chain whose links resolve is valid.         *)
LEMMA LinearListingIsValid ==
    ASSUME NEW rows \in SUBSET Record, IsFiniteSet(rows),
           \A r \in rows : r.ts > 0 /\ Resolves(r, rows), ChainLinear(rows)
    PROVE  ChainValid(Listing(rows))
<1>1. SUFFICES ASSUME NEW r \in Listing(rows), NEW s \in Listing(rows),
                      Precedes(s, r, Listing(rows))
               PROVE  r.prev = s.ts
  BY DEF ChainValid
<1>2. r \in rows /\ s \in rows /\ s.ts < r.ts
  BY <1>1 DEF Listing, Precedes
<1>3. s.ts <= r.prev
  BY <1>2 DEF ChainLinear
<1>4. /\ s.ts \in Nat /\ s.ts > 0 /\ r.prev \in Nat
      /\ \A x \in rows : x.ts \in Nat
  BY <1>2 DEF Record
<1>5. PICK q \in rows : q.ts = r.prev /\ q.ts < r.ts
  BY <1>2, <1>3, <1>4 DEF Resolves, Genesis
<1>6. q \in Listing(rows)
  BY <1>3, <1>5, ListingIsUpper
<1>7. q.ts <= s.ts \/ r.ts <= q.ts
  BY <1>1, <1>6 DEF Precedes
<1>8. q.ts \in Nat /\ r.ts \in Nat
  BY <1>2, <1>4
<1>9. QED
  BY <1>3, <1>4, <1>5, <1>7, <1>8

LEMMA ListingInit == Init => ListingInv
BY FS_EmptySet DEF Init, ListingInv, VaultsCounted, BrokenMeansOverlap,
   IdleWriter, IdleLister, Production

(* Steps that change neither a production vault nor the writers.           *)
LEMMA CountedElsewhere ==
    ASSUME VaultsCounted, UNCHANGED writer,
           \A t \in Production : vault'[t] = vault[t]
    PROVE  VaultsCounted'
BY DEF VaultsCounted

(* Steps that leave the listings alone; overlaps are never forgotten.      *)
LEMMA ShownElsewhere ==
    ASSUME BrokenMeansOverlap, UNCHANGED lister, overlapped \subseteq overlapped'
    PROVE  BrokenMeansOverlap'
BY DEF BrokenMeansOverlap

LEMMA CountedAppend ==
    ASSUME LinkInv, VaultsCounted, NEW w \in Writers, AppendEvidence(w)
    PROVE  VaultsCounted'
<1>1. ASSUME NEW t \in Tenants, ReadTip(w, t) PROVE VaultsCounted'
  <2>1. vault' = vault
    BY <1>1 DEF ReadTip
  <2>2. \A v \in Writers : writer'[v].pc = "commit" => writer'[v] = writer[v]
    BY <1>1 DEF ReadTip, LinkInv, TypeOK
  <2>3. QED
    BY <2>1, <2>2 DEF VaultsCounted
<1>2. ASSUME Stamp(w) PROVE VaultsCounted'
  <2>1. vault' = vault /\ clock \in Nat
    BY <1>2 DEF Stamp, LinkInv, TypeOK
  <2>2. \A v \in Writers : writer'[v] = writer[v] \/ writer'[v].ts = clock + 1
    BY <1>2 DEF Stamp, LinkInv, TypeOK, WriterState
  <2>3. QED
    BY <2>1, <2>2 DEF VaultsCounted
<1>3. ASSUME Commit(w) PROVE VaultsCounted'
  <2>1. /\ writer[w].tenant \in Tenants /\ writer[w].pc = "commit"
        /\ \A v \in Writers : writer'[v].pc = "commit" => writer'[v] = writer[v]
    BY <1>3 DEF Commit, LinkInv, TypeOK, WriterState, IdleWriter
  <2>2. \A t \in Production :
          \/ vault'[t] = vault[t]
          \/ vault'[t] = vault[t] \cup {NewRecord(w)}
    BY <1>3 DEF Commit, LinkInv, TypeOK, Production
  <2>3. NewRecord(w).ts > 0
    BY <2>1 DEF VaultsCounted, NewRecord
  <2>4. \A t \in Production :
          IsFiniteSet(vault'[t]) /\ \A r \in vault'[t] : r.ts > 0
    <3>1. SUFFICES ASSUME NEW t \in Production
                   PROVE  IsFiniteSet(vault'[t]) /\ \A r \in vault'[t] : r.ts > 0
      OBVIOUS
    <3>2. IsFiniteSet(vault[t]) /\ \A r \in vault[t] : r.ts > 0
      BY DEF VaultsCounted
    <3>3. IsFiniteSet(vault[t] \cup {NewRecord(w)})
      BY <3>2, FS_AddElement
    <3>4. QED
      BY <2>2, <2>3, <3>2, <3>3
  <2>5. QED
    BY <2>1, <2>4 DEF VaultsCounted
<1>4. QED
  BY <1>1, <1>2, <1>3 DEF AppendEvidence

(* get_evidence_vault shows "broken" for a production tenant only where    *)
(* its appends have overlapped.                                            *)
LEMMA ReadShowsOverlap ==
    ASSUME LinkInv, ChainInv, ListingInv, NEW l \in Listers, ListRead(l)
    PROVE  BrokenMeansOverlap'
<1> DEFINE t == lister[l].tenant
           valid == ChainValid(Listing(vault[t]))
<1>1. /\ lister' = [lister EXCEPT ![l].pc = "idle",
                      ![l].shown = IF valid THEN "valid" ELSE "broken"]
      /\ overlapped' = overlapped
  BY DEF ListRead
<1>2. \A k \in Listers \ {l} : lister'[k] = lister[k]
  BY <1>1 DEF LinkInv, TypeOK
<1>3. /\ lister'[l].tenant = t
      /\ lister'[l].shown = IF valid THEN "valid" ELSE "broken"
  <2>1. lister \in [Listers -> ListerState]
    BY DEF LinkInv, TypeOK
  <2> HIDE DEF valid
  <2>2. QED
    BY <1>1, <2>1 DEF ListerState
<1>4. ASSUME t \in Production, t \notin overlapped PROVE valid
  <2>1. vault[t] \in SUBSET Record /\ IsFiniteSet(vault[t])
    BY <1>4 DEF LinkInv, TypeOK, ListingInv, VaultsCounted, Production
  <2>2. \A r \in vault[t] : r.ts > 0 /\ Resolves(r, vault[t])
    BY <1>4 DEF LinkInv, LinksResolve, ListingInv, VaultsCounted
  <2>3. ChainLinear(vault[t])
    BY <1>4 DEF ChainInv, SerialChainLinear
  <2>4. QED
    BY <2>1, <2>2, <2>3, LinearListingIsValid
<1> HIDE DEF valid
<1>5. SUFFICES ASSUME NEW k \in Listers, lister'[k].shown = "broken",
                      lister'[k].tenant \in Production
               PROVE  lister'[k].tenant \in overlapped
  BY <1>1 DEF BrokenMeansOverlap
<1>6. CASE k = l
  BY <1>3, <1>4, <1>5, <1>6
<1>7. CASE k # l
  BY <1>2, <1>5, <1>7 DEF ListingInv, BrokenMeansOverlap
<1>8. QED
  BY <1>6, <1>7

LEMMA ListingNext ==
    LinkInv /\ ChainInv /\ ListingInv /\ [Next]_vars => ListingInv'
<1> SUFFICES ASSUME LinkInv, ChainInv, ListingInv, [Next]_vars
             PROVE  ListingInv'
  OBVIOUS
<1> USE DEF ListingInv
<1>1. ASSUME NEW w \in Writers, AppendEvidence(w) PROVE ListingInv'
  <2>1. UNCHANGED lister /\ overlapped \subseteq overlapped'
    BY <1>1 DEF AppendEvidence, ReadTip, Stamp, Commit
  <2>2. QED
    BY <1>1, <2>1, CountedAppend, ShownElsewhere
<1>2. ASSUME NEW l \in Listers, List(l) PROVE ListingInv'
  <2>1. ASSUME NEW t \in Tenants, ListCheck(l, t) PROVE ListingInv'
    <3>1. \A k \in Listers : lister'[k] = lister[k] \/ lister'[k].shown = "nothing"
      <4>1. PICK pc \in {"seed", "read", "delete"} :
                lister' = [lister EXCEPT ![l] =
                             [IdleLister EXCEPT !.pc = pc, !.tenant = t]]
        BY <2>1, CheckChooses
      <4>2. QED
        BY <4>1 DEF LinkInv, TypeOK, IdleLister
    <3>2. overlapped \subseteq overlapped'
      BY <2>1 DEF ListCheck
    <3>3. BrokenMeansOverlap'
      BY <3>1, <3>2 DEF BrokenMeansOverlap
    <3>4. VaultsCounted'
      BY <2>1, CountedElsewhere DEF ListCheck
    <3>5. QED
      BY <3>3, <3>4
  <2>2. ASSUME Reseed(l) PROVE ListingInv'
    <3>1. /\ \A k \in Listers : /\ lister'[k].shown = lister[k].shown
                                /\ lister'[k].tenant = lister[k].tenant
          /\ overlapped' = overlapped
      BY <2>2 DEF Reseed, ListDelete, ListPurge, ListSeed, ListInsert, LinkInv,
         TypeOK, ListerState
    <3>2. BrokenMeansOverlap'
      BY <3>1 DEF BrokenMeansOverlap
    <3>3. VaultsCounted'
      BY <2>2, ReseedSpares, CountedElsewhere
    <3>4. QED
      BY <3>2, <3>3
  <2>3. ASSUME ListRead(l) PROVE ListingInv'
    <3>1. VaultsCounted'
      BY <2>3, CountedElsewhere DEF ListRead
    <3>2. QED
      BY <2>3, <3>1, ReadShowsOverlap
  <2>4. QED
    BY <1>2, <2>1, <2>2, <2>3 DEF List
<1>3. ASSUME NEW w \in Writers, AppendFails(w) PROVE ListingInv'
  <2>1. \A v \in Writers : writer'[v].pc = "commit" => writer'[v] = writer[v]
    BY <1>3 DEF AppendFails, LinkInv, TypeOK, IdleWriter
  <2>2. VaultsCounted'
    BY <1>3, <2>1 DEF AppendFails, VaultsCounted
  <2>3. QED
    BY <1>3, <2>2, ShownElsewhere DEF AppendFails
<1>4. ASSUME NEW l \in Listers, ListFails(l) PROVE ListingInv'
  <2>1. \A k \in Listers : lister'[k] = lister[k] \/ lister'[k].shown = "nothing"
    BY <1>4 DEF ListFails, LinkInv, TypeOK, IdleLister
  <2>2. BrokenMeansOverlap'
    BY <1>4, <2>1 DEF ListFails, BrokenMeansOverlap
  <2>3. QED
    BY <1>4, <2>2, CountedElsewhere DEF ListFails
<1>5. ASSUME UNCHANGED vars PROVE ListingInv'
  BY <1>5, CountedElsewhere, ShownElsewhere DEF vars
<1>6. QED
  BY <1>1, <1>2, <1>3, <1>4, <1>5 DEF Next, Fail

(* When GET /evidence calls the vault of a production tenant broken, two   *)
(* of its appends have overlapped: the window of a listing, a failure, a   *)
(* late commit or another tenant never make an untouched vault look so.    *)
THEOREM BrokenShowsOverlap == Spec => []BrokenMeansOverlap
<1>1. ListingInv => BrokenMeansOverlap
  BY DEF ListingInv
<1>2. QED
  BY <1>1, ChainInit, ChainNext, ListingInit, ListingNext, LinkInvariant, PTL
     DEF Spec
================================================================================
