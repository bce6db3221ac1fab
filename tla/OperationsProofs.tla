---------------------------- MODULE OperationsProofs ----------------------------
(***************************************************************************)
(* More proofs about Governance: tickets, lists, defaults, the start of    *)
(* servers, and what is read from outside.  As in GovernanceProofs, each   *)
(* invariant concerns one part.                                            *)
(***************************************************************************)
EXTENDS GovernanceProofs, SequenceTheorems

-----------------------------------------------------------------------------
(* A step of the platform is, for each part, a step of it or none.         *)
LEMMA TicketsMove ==
    [GovernanceNext]_governanceVars => [Ticketing!TicketsNext]_tickets
BY DEF GovernanceNext, governanceVars, requests, outside, tickets

LEMMA ListsMove ==
    [GovernanceNext]_governanceVars => [Lists!RosterNext]_lists
BY DEF GovernanceNext, governanceVars, requests, outside, lists

LEMMA SeedsMove ==
    [GovernanceNext]_governanceVars => [Seeding!SeedsNext]_seeds
BY DEF GovernanceNext, governanceVars, requests, outside, seeds

LEMMA MetricsMove ==
    [GovernanceNext]_governanceVars => [Measuring!RunNext]_metrics
BY DEF GovernanceNext, governanceVars, requests, outside, metrics

LEMMA ServersMove ==
    [GovernanceNext]_governanceVars => [Starting!StartupNext]_servers
BY DEF GovernanceNext, governanceVars, requests, outside, servers

-----------------------------------------------------------------------------
(* Default lists                                                           *)

(* Until two requests have found the table empty, the one that has is      *)
(* alone, and it is still empty when its rows come.                        *)
SeedInv ==
    /\ table \in Seeding!Tables /\ copies \in Nat /\ raced \in BOOLEAN
    /\ seeding \in [Requests -> {"idle", "recheck", "insert"}]
    /\ table \in Seeding!Keyed => copies <= 1
    /\ refused => table \in Seeding!Keyed
    /\ ~raced => ~refused /\ copies <= 1
    /\ ~raced => \A g, h \in Requests : seeding[g] # "idle" /\ seeding[h] # "idle" => g = h
    /\ ~raced => \A h \in Requests : seeding[h] = "insert" => copies = 0

LEMMA SeedInitially == GovernanceInit => SeedInv
<1> SUFFICES ASSUME GovernanceInit PROVE SeedInv
  OBVIOUS
<1>1. table \in Seeding!Tables /\ copies = 0 /\ seeding = [h \in Requests |-> "idle"]
  BY DEF GovernanceInit, Seeding!SeedsInit
<1>2. raced \in BOOLEAN /\ ~refused
  BY DEF GovernanceInit, Seeding!SeedsInit
<1>3. /\ copies \in Nat /\ copies <= 1
      /\ seeding \in [Requests -> {"idle", "recheck", "insert"}]
      /\ \A h \in Requests : seeding[h] = "idle"
  BY <1>1
<1> QED BY <1>1, <1>2, <1>3 DEF SeedInv

(* A request that finds the table empty, or looks a second time.           *)
LEMMA SeedFound ==
    ASSUME SeedInv, NEW h \in Requests, NEW next \in {"recheck", "insert"}, copies = 0,
           Seeding!Found(h, next)
    PROVE  SeedInv'
<1>1. /\ seeding' = [seeding EXCEPT ![h] = next] /\ seeding[h] = "idle"
      /\ UNCHANGED <<table, copies, own, requested, refused>>
  BY DEF Seeding!Found
<1>2. raced' \in BOOLEAN /\ (~raced' => ~raced /\ \A g \in Requests \ {h} : seeding[g] = "idle")
  BY DEF Seeding!Found, SeedInv
<1> QED BY <1>1, <1>2 DEF SeedInv

(* A request that leaves, having inserted the list at most once.           *)
LEMMA SeedLeft ==
    ASSUME SeedInv, NEW h \in Requests, seeding' = [seeding EXCEPT ![h] = "idle"],
           UNCHANGED <<table, raced>>, copies' \in Nat,
           table \in Seeding!Keyed => copies' <= 1,
           refused' => table \in Seeding!Keyed,
           ~raced => ~refused' /\ copies' <= 1 /\ (seeding[h] = "idle" => copies' = copies),
           seeding[h] # "insert" => copies' = copies
    PROVE  SeedInv'
BY DEF SeedInv

LEMMA SeedStep == SeedInv /\ [Seeding!SeedsNext]_seeds => SeedInv'
<1> SUFFICES ASSUME SeedInv, [Seeding!SeedsNext]_seeds PROVE SeedInv'
  OBVIOUS
<1>1. CASE UNCHANGED seeds
  BY <1>1 DEF seeds, SeedInv
<1>2. ASSUME NEW t, Seeding!AddOwn(t) PROVE SeedInv'
  BY <1>2 DEF Seeding!AddOwn, SeedInv
<1>3. ASSUME NEW t, Seeding!Seed(t) PROVE SeedInv'
  BY <1>3 DEF Seeding!Seed, SeedInv
<1>4. CASE Seeding!DeletePolicies
  BY <1>4 DEF Seeding!DeletePolicies, SeedInv
<1>5. ASSUME NEW h \in Requests, Seeding!LookForAny(h) \/ Seeding!LookForEach(h)
      PROVE  SeedInv'
  BY <1>5, SeedFound DEF Seeding!LookForAny, Seeding!LookForEach
<1>6. ASSUME NEW h \in Requests, Seeding!ListFindings(h) PROVE SeedInv'
  BY <1>6, SeedFound DEF Seeding!ListFindings
<1>7. ASSUME NEW h \in Requests, Seeding!RecheckTitles(h) PROVE SeedInv'
  <2>1. CASE copies = 0
    BY <1>7, <2>1 DEF Seeding!RecheckTitles, SeedInv
  <2>2. CASE copies # 0
    BY <1>7, <2>2, SeedLeft DEF Seeding!RecheckTitles, SeedInv
  <2> QED BY <2>1, <2>2
<1>8. ASSUME NEW h \in Requests, Seeding!Commit(h) PROVE SeedInv'
  <2>1. /\ seeding[h] = "insert" /\ seeding' = [seeding EXCEPT ![h] = "idle"]
        /\ UNCHANGED <<table, own, requested, raced>>
    BY <1>8 DEF Seeding!Commit
  <2>2. CASE table \in Seeding!Keyed /\ copies > 0 /\ refused' = TRUE /\ UNCHANGED copies
    BY <2>1, <2>2, SeedLeft DEF SeedInv
  <2>3. CASE /\ table \in Seeding!Plain \/ copies = 0
             /\ copies' = copies + 1 /\ UNCHANGED refused
    <3>1. table \in Seeding!Keyed => copies = 0
      BY <2>3 DEF Seeding!Keyed, Seeding!Plain
    <3> QED BY <2>1, <2>3, <3>1, SeedLeft DEF SeedInv
  <2> QED BY <1>8, <2>2, <2>3 DEF Seeding!Commit
<1>9. ASSUME NEW h \in Requests, Seeding!Abort(h) PROVE SeedInv'
  BY <1>9, SeedLeft DEF Seeding!Abort, SeedInv
<1> USE DEF Seeding!EnsureVendors, Seeding!SyncCourses, Seeding!EnsureTenants,
      Seeding!EnsureDevices, Seeding!EnsureBusinessUnits, Seeding!EnsureWorkflows,
      Seeding!EnsurePersonnel, Seeding!EnsurePolicies, Seeding!EnsurePentests,
      Seeding!EnsureTreatments, Seeding!EnsureAssessments, Seeding!EnsureRemediation,
      Seeding!EnsureTimeline, Seeding!EnsureFirms, Seeding!EnsureTrustConfig,
      Seeding!EnsureProfile, Seeding!SeedUsers
<1>10. ASSUME \E h \in Requests :
          \/ Seeding!EnsureVendors(h) \/ Seeding!SyncCourses(h) \/ Seeding!EnsureTenants(h)
          \/ Seeding!EnsureDevices(h) \/ Seeding!EnsureBusinessUnits(h)
          \/ Seeding!EnsureWorkflows(h) \/ Seeding!EnsurePersonnel(h)
          \/ Seeding!EnsurePolicies(h) \/ Seeding!EnsurePentests(h)
          \/ Seeding!EnsureTreatments(h) \/ Seeding!EnsureAssessments(h)
          \/ Seeding!EnsureRemediation(h) \/ Seeding!EnsureTimeline(h)
          \/ Seeding!EnsureFirms(h) \/ Seeding!EnsureTrustConfig(h)
          \/ Seeding!EnsureProfile(h) \/ Seeding!SeedUsers(h)
       PROVE SeedInv'
  BY <1>5, <1>10
<1> QED BY <1>1, <1>2, <1>3, <1>4, <1>6, <1>7, <1>8, <1>9, <1>10
        DEF Seeding!SeedsNext, Seeding!CreateFinding, Seeding!CreatePolicy,
            Seeding!CreatePentest, Seeding!CreateBusinessUnit, Seeding!CreateWorkflow,
            Seeding!CreateAssessment, Seeding!SeedTemplates, Seeding!SeedCourses

-----------------------------------------------------------------------------
(* The start of servers                                                    *)

Startups == [at: Starting!Places, seen: {"none", "initial", "head"},
             todo: SUBSET SchemaColumns, column: SUBSET SchemaColumns]

ServerTypes ==
    /\ sqlite \in BOOLEAN /\ alembic \in BOOLEAN /\ tables \in BOOLEAN
    /\ ~sqlite => alembic
    /\ columns \subseteq SchemaColumns /\ revision \in {"none", "initial", "head"}
    /\ server \in [Servers -> Startups]

(* What the revision in the database promises.                             *)
VersionInv ==
    /\ ~tables => columns = {} /\ revision = "none"
    /\ revision # "none" => SchemaColumns \ columns \subseteq older
    /\ revision = "head" => Migrated \subseteq columns

(* What a server s has made sure of when it has come to a place, where     *)
(* made, have, at and no are the tables, the columns, the revision and     *)
(* whether a statement was refused.                                        *)
AlembicPlace(s, at) ==
    /\ s.at \in {"down", "upgrade", "apply", "ensure", "alter", "up"}
    /\ s.at \in {"ensure", "alter", "up"} => at = "head"

PlainPlace(s, made, have, no) ==
    /\ s.at \in {"down", "create", "tables", "sync", "adding", "ensure", "alter", "up"}
    /\ s.at \in {"sync", "adding", "ensure", "alter", "up"} => made
    /\ s.at = "adding" => no \/ SchemaColumns \ have \subseteq s.todo
    /\ s.at \in {"ensure", "alter", "up"} => no \/ have = SchemaColumns

PlaceOK(s, made, have, at, no) ==
    /\ alembic => AlembicPlace(s, at)
    /\ ~alembic => PlainPlace(s, made, have, no)
    /\ s.at \in {"ensure", "alter"} => sqlite
    /\ s.at = "up" /\ sqlite => Ensured \subseteq have

PlaceInv ==
    \A p \in Servers : PlaceOK(server[p], tables, columns, revision, refusing)

(* A server that is alone in init_db finds things as it has seen them.     *)
Busy(s) == s.at \notin {"down", "up"}
Sees(s, made, have, at) ==
    /\ s.at = "apply" => s.seen = at
    /\ s.at = "tables" => ~made
    /\ s.at = "alter" => ~(s.column \subseteq have)

LoneInv ==
    /\ exited => together \/ refusing \/ stuck
    /\ ~together => \A p, q \in Servers : Busy(server[p]) /\ Busy(server[q]) => p = q
    /\ ~together => \A p \in Servers : Sees(server[p], tables, columns, revision)

ServerHistories ==
    together \in BOOLEAN /\ refusing \in BOOLEAN /\ stuck \in BOOLEAN /\ exited \in BOOLEAN

ServerInv == ServerTypes /\ ServerHistories /\ VersionInv /\ PlaceInv /\ LoneInv

LEMMA ServerInitially == GovernanceInit => ServerInv
<1> SUFFICES ASSUME GovernanceInit PROVE ServerInv
  OBVIOUS
<1>1. Starting!StartupInit
  BY DEF GovernanceInit
<1>2. /\ Ensured \subseteq SchemaColumns /\ Migrated \subseteq SchemaColumns
  BY GovernanceAssumption
<1>3. ServerTypes
  <2>1. Starting!Down \in Startups
    BY DEF Starting!Down, Startups, Starting!Places
  <2> QED BY <1>1, <2>1 DEF Starting!StartupInit, ServerTypes
<1>4. ServerHistories
  BY <1>1 DEF Starting!StartupInit, ServerHistories
<1>5. VersionInv
  BY <1>1, <1>2 DEF Starting!StartupInit, VersionInv
<1>6. \A p \in Servers : server[p].at = "down"
  BY <1>1 DEF Starting!StartupInit, Starting!Down
<1>7. PlaceInv
  BY <1>6 DEF PlaceInv, PlaceOK, AlembicPlace, PlainPlace
<1>8. LoneInv
  BY <1>1, <1>6 DEF LoneInv, Busy, Sees, Starting!StartupInit
<1> QED BY <1>3, <1>4, <1>5, <1>7, <1>8 DEF ServerInv

(* What the schema may become: columns are only added, tables and versions *)
(* only made, and what was refused stays refused.                          *)
SchemaGrows ==
    /\ tables => tables'
    /\ columns \subseteq columns'
    /\ revision = "head" => revision' = "head"
    /\ refusing => refusing'
    /\ UNCHANGED <<sqlite, alembic, older>>

(* What a server at work may come to: the invariant holds when its new     *)
(* place s is right for the new schema, as the others have something else  *)
(* to say only where it was not alone.                                     *)
LEMMA ServerMoves ==
    ASSUME ServerInv, NEW p \in Servers, NEW s \in Startups,
           server' = [server EXCEPT ![p] = s], Busy(server[p]),
           UNCHANGED together, SchemaGrows, tables' \in BOOLEAN,
           columns' \subseteq SchemaColumns, revision' \in {"none", "initial", "head"},
           ServerHistories', VersionInv',
           PlaceOK(s, tables', columns', revision', refusing'),
           ~together => Sees(s, tables', columns', revision'),
           exited' => exited \/ together \/ refusing' \/ stuck', stuck => stuck'
    PROVE  ServerInv'
<1>1. ServerTypes'
  BY DEF ServerInv, ServerTypes, SchemaGrows
<1>2. server'[p] = s /\ \A q \in Servers \ {p} : server'[q] = server[q]
  BY DEF ServerInv, ServerTypes
<1>3. PlaceInv'
  <2>1. ASSUME NEW q \in Servers \ {p}
        PROVE  PlaceOK(server[q], tables', columns', revision', refusing')
    <3>1. PlaceOK(server[q], tables, columns, revision, refusing)
      BY DEF ServerInv, PlaceInv
    <3>2. columns \subseteq SchemaColumns /\ (columns = SchemaColumns => columns' = columns)
      BY DEF ServerInv, ServerTypes, SchemaGrows
    <3> QED BY <3>1, <3>2 DEF PlaceOK, AlembicPlace, PlainPlace, SchemaGrows
  <2> QED BY <1>2, <2>1 DEF PlaceInv, PlaceOK, SchemaGrows
<1>4. LoneInv'
  <2>1. exited' => together' \/ refusing' \/ stuck'
    BY DEF ServerInv, LoneInv, SchemaGrows
  <2>2. ASSUME ~together'
        PROVE  /\ \A q \in Servers \ {p} : ~Busy(server'[q])
               /\ \A q \in Servers : Sees(server'[q], tables', columns', revision')
    <3>1. \A q \in Servers \ {p} : ~Busy(server'[q])
      BY <1>2, <2>2 DEF ServerInv, LoneInv
    <3>2. \A q \in Servers \ {p} : Sees(server'[q], tables', columns', revision')
      BY <3>1 DEF Busy, Sees
    <3> QED BY <1>2, <2>2, <3>1, <3>2
  <2> QED BY <2>1, <2>2 DEF LoneInv
<1> QED BY <1>1, <1>3, <1>4 DEF ServerInv

(* The same without a change of the schema or of the histories.            *)
LEMMA ServerGoes ==
    ASSUME ServerInv, NEW p \in Servers, NEW s \in Startups,
           server' = [server EXCEPT ![p] = s], Busy(server[p]),
           UNCHANGED <<sqlite, alembic, tables, columns, revision, older>>,
           UNCHANGED <<exited, together, refusing, stuck>>,
           PlaceOK(s, tables, columns, revision, refusing),
           ~together => Sees(s, tables, columns, revision)
    PROVE  ServerInv'
<1>1. SchemaGrows /\ tables' \in BOOLEAN
  BY DEF SchemaGrows, ServerInv, ServerTypes
<1>2. columns' \subseteq SchemaColumns /\ revision' \in {"none", "initial", "head"}
  BY DEF ServerInv, ServerTypes
<1>3. ServerHistories' /\ VersionInv'
  BY DEF ServerInv, ServerHistories, VersionInv
<1> QED BY <1>1, <1>2, <1>3, ServerMoves

LEMMA PlainState ==
    ASSUME NEW place \in Starting!Places
    PROVE  /\ [Starting!Down EXCEPT !.at = place] \in Startups
           /\ [Starting!Down EXCEPT !.at = place].at = place
BY DEF Starting!Down, Startups, Starting!Places

LEMMA ServerStep == ServerInv /\ [Starting!StartupNext]_servers => ServerInv'
<1> SUFFICES ASSUME ServerInv, [Starting!StartupNext]_servers PROVE ServerInv'
  OBVIOUS
<1> DEFINE To(place) == [Starting!Down EXCEPT !.at = place]
<1>1. \A place \in Starting!Places : To(place) \in Startups /\ To(place).at = place
  BY PlainState
<1> HIDE DEF To
<1>2. ASSUME NEW p \in Servers, NEW place, Starting!Go(p, place)
      PROVE  server' = [server EXCEPT ![p] = To(place)]
  BY <1>2 DEF Starting!Go, Starting!Move, To
<1>3. /\ Ensured \subseteq SchemaColumns /\ Migrated \subseteq SchemaColumns
      /\ {"user", "tenant", "integration", "vendor", "training", "trust"}
            \subseteq SchemaColumns
  BY GovernanceAssumption
<1>4. \A p \in Servers : PlaceOK(server[p], tables, columns, revision, refusing)
  BY DEF ServerInv, PlaceInv
<1>5. ServerTypes
  BY DEF ServerInv
<1>6. \A p \in Servers : ~together => Sees(server[p], tables, columns, revision)
  BY DEF ServerInv, LoneInv
<1>7. CASE UNCHANGED servers
  BY <1>7 DEF servers, ServerInv, ServerTypes, ServerHistories, VersionInv, PlaceInv,
     PlaceOK, AlembicPlace, PlainPlace, LoneInv, Busy, Sees
<1>8. ASSUME NEW p \in Servers, Starting!Start(p) PROVE ServerInv'
  <2> DEFINE s == To(IF alembic THEN "upgrade" ELSE "create")
  <2>1. /\ server[p].at = "down" /\ server' = [server EXCEPT ![p] = s]
        /\ UNCHANGED <<sqlite, alembic, older, tables, columns, revision, exited,
                       refusing, stuck>>
        /\ together' = (together \/ \E q \in Servers \ {p} : server[q].at \notin {"down", "up"})
    BY <1>2, <1>8 DEF Starting!Start, Starting!At, Starting!kind, Starting!schema
  <2>2. s \in Startups /\ s.at = (IF alembic THEN "upgrade" ELSE "create")
    BY <1>1 DEF Starting!Places
  <2> HIDE DEF s
  <2>3. server'[p] = s /\ \A q \in Servers \ {p} : server'[q] = server[q]
    BY <1>5, <2>1 DEF ServerTypes
  <2>4. ServerTypes' /\ VersionInv'
    BY <2>1, <2>2 DEF ServerInv, ServerTypes, VersionInv
  <2>5. ServerHistories'
    BY <2>1 DEF ServerInv, ServerHistories
  <2>6. PlaceOK(s, tables, columns, revision, refusing)
    BY <2>2 DEF PlaceOK, AlembicPlace, PlainPlace
  <2>7. PlaceInv'
    BY <1>4, <2>1, <2>3, <2>6 DEF PlaceInv, PlaceOK
  <2>8. ~together' => ~together /\ \A q \in Servers \ {p} : ~Busy(server'[q])
    BY <2>1, <2>3 DEF Busy
  <2>9. Sees(s, tables, columns, revision)
    BY <2>2 DEF Sees
  <2>10. LoneInv'
    BY <1>6, <2>1, <2>3, <2>8, <2>9 DEF ServerInv, LoneInv
  <2> QED BY <2>4, <2>5, <2>7, <2>10 DEF ServerInv
<1> DEFINE Here == <<sqlite, alembic, older, tables, columns, revision, exited, together,
                     refusing, stuck>>
<1>9. ASSUME NEW p \in Servers, NEW place \in Starting!Places,
             server' = [server EXCEPT ![p] = To(place)], Busy(server[p]), UNCHANGED Here,
             PlaceOK(To(place), tables, columns, revision, refusing),
             ~together => Sees(To(place), tables, columns, revision)
      PROVE  ServerInv'
  BY <1>1, <1>9, ServerGoes
<1>10. ASSUME NEW p \in Servers, Starting!LookVersion(p) PROVE ServerInv'
  <2>1. /\ server[p].at = "upgrade" /\ Busy(server[p]) /\ UNCHANGED Here
        /\ alembic
    BY <1>4, <1>5, <1>10 DEF Starting!LookVersion, Starting!At, Starting!kind,
       Starting!schema, Starting!flags, Busy, PlaceOK, PlainPlace, ServerTypes
  <2>2. CASE revision = "head"
    <3> DEFINE place == IF sqlite THEN "ensure" ELSE "up"
    <3>1. server' = [server EXCEPT ![p] = To(place)] /\ place \in Starting!Places
      BY <1>2, <1>10, <2>2 DEF Starting!LookVersion, Starting!GoOn, Starting!Places
    <3>2. To(place).at = place
      BY <1>1, <3>1
    <3>3. PlaceOK(To(place), tables, columns, revision, refusing)
      BY <2>1, <2>2, <3>2 DEF PlaceOK, AlembicPlace
    <3>4. Sees(To(place), tables, columns, revision)
      BY <3>2 DEF Sees
    <3> QED BY <1>9, <2>1, <3>1, <3>3, <3>4
  <2>3. CASE revision # "head"
    <3> DEFINE s == [Starting!Down EXCEPT !.at = "apply", !.seen = revision]
    <3>1. server' = [server EXCEPT ![p] = s]
      BY <1>10, <2>3 DEF Starting!LookVersion, Starting!Move
    <3>2. s \in Startups /\ s.at = "apply" /\ s.seen = revision
      BY <1>5 DEF Starting!Down, Startups, Starting!Places, ServerTypes
    <3> HIDE DEF s
    <3>3. PlaceOK(s, tables, columns, revision, refusing)
      BY <2>1, <3>2 DEF PlaceOK, AlembicPlace
    <3>4. Sees(s, tables, columns, revision)
      BY <3>2 DEF Sees
    <3> QED BY <2>1, <3>1, <3>2, <3>3, <3>4, ServerGoes
  <2> QED BY <2>2, <2>3
<1>11. ASSUME NEW p \in Servers, Starting!LookTables(p) PROVE ServerInv'
  <2> DEFINE place == IF tables THEN "sync" ELSE "tables"
  <2>1. /\ server[p].at = "create" /\ Busy(server[p]) /\ UNCHANGED Here /\ ~alembic
        /\ server' = [server EXCEPT ![p] = To(place)] /\ place \in Starting!Places
    BY <1>2, <1>4, <1>5, <1>11 DEF Starting!LookTables, Starting!At, Starting!kind,
       Starting!schema, Starting!flags, Starting!Places, Busy, PlaceOK, AlembicPlace,
       ServerTypes
  <2>2. To(place).at = place
    BY <1>1, <2>1
  <2>3. PlaceOK(To(place), tables, columns, revision, refusing)
    BY <2>1, <2>2 DEF PlaceOK, PlainPlace
  <2>4. Sees(To(place), tables, columns, revision)
    BY <2>2 DEF Sees
  <2> QED BY <1>9, <2>1, <2>3, <2>4
<1>12. ASSUME NEW p \in Servers, Starting!LookColumns(p) PROVE ServerInv'
  <2> DEFINE s == [Starting!Down EXCEPT !.at = "adding", !.todo = SchemaColumns \ columns]
  <2>1. /\ server[p].at = "sync" /\ Busy(server[p]) /\ UNCHANGED Here /\ ~alembic
        /\ tables /\ server' = [server EXCEPT ![p] = s]
    BY <1>4, <1>5, <1>12 DEF Starting!LookColumns, Starting!At, Starting!kind,
       Starting!schema, Starting!flags, Starting!Move, Busy, PlaceOK, AlembicPlace,
       PlainPlace, ServerTypes
  <2>2. s \in Startups /\ s.at = "adding" /\ s.todo = SchemaColumns \ columns
    BY DEF Starting!Down, Startups, Starting!Places
  <2> HIDE DEF s
  <2>3. PlaceOK(s, tables, columns, revision, refusing)
    BY <2>1, <2>2 DEF PlaceOK, PlainPlace
  <2>4. Sees(s, tables, columns, revision)
    BY <2>2 DEF Sees
  <2> QED BY <2>1, <2>2, <2>3, <2>4, ServerGoes
<1>13. ASSUME NEW p \in Servers, Starting!EndSync(p) PROVE ServerInv'
  <2>1. /\ server[p].at = "adding" /\ server[p].todo = {} /\ Busy(server[p])
        /\ UNCHANGED Here /\ ~alembic /\ tables /\ sqlite
        /\ refusing \/ SchemaColumns \ columns = {}
    BY <1>4, <1>5, <1>13 DEF Starting!EndSync, Starting!At, Starting!kind,
       Starting!schema, Starting!flags, Busy, PlaceOK, AlembicPlace,
       PlainPlace, ServerTypes
  <2>2. server' = [server EXCEPT ![p] = To("ensure")] /\ "ensure" \in Starting!Places
    BY <1>2, <1>13, <2>1 DEF Starting!EndSync, Starting!GoOn, Starting!Places
  <2>3. To("ensure").at = "ensure"
    BY <1>1, <2>2
  <2>4. refusing \/ columns = SchemaColumns
    BY <1>5, <2>1 DEF ServerTypes
  <2>5. PlaceOK(To("ensure"), tables, columns, revision, refusing)
    BY <2>1, <2>3, <2>4 DEF PlaceOK, PlainPlace
  <2>6. Sees(To("ensure"), tables, columns, revision)
    BY <2>3 DEF Sees
  <2> QED BY <1>9, <2>1, <2>2, <2>5, <2>6
<1>14. ASSUME NEW p \in Servers, Starting!Serve(p) PROVE ServerInv'
  <2>1. /\ server[p].at = "ensure" /\ Ensured \subseteq columns /\ Busy(server[p])
        /\ UNCHANGED Here
        /\ server' = [server EXCEPT ![p] = To("up")] /\ "up" \in Starting!Places
    BY <1>2, <1>14 DEF Starting!Serve, Starting!At, Starting!kind,
       Starting!schema, Starting!flags, Starting!Places, Busy
  <2>2. To("up").at = "up"
    BY <1>1, <2>1
  <2>3. PlaceOK(To("up"), tables, columns, revision, refusing)
    BY <1>4, <2>1, <2>2 DEF PlaceOK, PlainPlace, AlembicPlace
  <2>4. Sees(To("up"), tables, columns, revision)
    BY <2>2 DEF Sees
  <2> QED BY <1>9, <2>1, <2>3, <2>4
<1>15. ASSUME NEW p \in Servers, NEW mine, mine \subseteq SchemaColumns,
              Starting!Ensure(p, mine)
       PROVE  ServerInv'
  <2> DEFINE Altering(c) == [Starting!Down EXCEPT !.at = "alter", !.column = {c}]
  <2>0. \E c \in mine \ columns : Starting!Move(p, Altering(c))
    BY <1>15, Zenon DEF Starting!Ensure
  <2> HIDE DEF Altering
  <2> PICK c \in mine \ columns : Starting!Move(p, Altering(c))
    BY <2>0
  <2> DEFINE s == Altering(c)
  <2>1. /\ server[p].at = "ensure" /\ Busy(server[p]) /\ UNCHANGED Here
        /\ server' = [server EXCEPT ![p] = s]
    BY <1>15 DEF Starting!Ensure, Starting!At, Starting!kind,
       Starting!schema, Starting!flags, Starting!Move, Busy
  <2>2. s \in Startups /\ s.at = "alter" /\ s.column = {c}
    BY <1>15 DEF Altering, Starting!Down, Startups, Starting!Places
  <2> HIDE DEF s
  <2>3. PlaceOK(s, tables, columns, revision, refusing)
    BY <1>4, <2>1, <2>2 DEF PlaceOK, PlainPlace, AlembicPlace
  <2>4. Sees(s, tables, columns, revision)
    BY <2>2 DEF Sees
  <2> QED BY <2>1, <2>2, <2>3, <2>4, ServerGoes
<1>16. ASSUME NEW p \in Servers, Starting!ApplyUpgrade(p) PROVE ServerInv'
  <2> DEFINE place == IF sqlite THEN "ensure" ELSE "up"
  <2>1. /\ server[p].at = "apply" /\ Busy(server[p]) /\ alembic
        /\ revision = "initial" \/ ~tables
        /\ tables' = TRUE /\ revision' = "head"
        /\ columns' = IF revision = "none" THEN SchemaColumns ELSE columns \cup Migrated
        /\ UNCHANGED <<sqlite, alembic, older, exited, together, refusing, stuck>>
        /\ server' = [server EXCEPT ![p] = To(place)] /\ place \in Starting!Places
    BY <1>2, <1>4, <1>5, <1>16 DEF Starting!ApplyUpgrade, Starting!At, Starting!kind,
       Starting!flags, Starting!GoOn, Starting!Places, Busy, PlaceOK, PlainPlace,
       ServerTypes
  <2>2. To(place).at = place /\ To(place) \in Startups
    BY <1>1, <2>1
  <2>3. columns' \subseteq SchemaColumns /\ columns \subseteq columns'
    BY <1>3, <1>5, <2>1 DEF ServerTypes
  <2>4. SchemaGrows /\ ServerHistories' /\ tables' \in BOOLEAN
    BY <2>1, <2>3 DEF SchemaGrows, ServerInv, ServerHistories
  <2>5. VersionInv'
    BY <1>3, <1>5, <2>1, <2>3 DEF ServerInv, ServerTypes, VersionInv
  <2>6. PlaceOK(To(place), tables', columns', revision', refusing')
    <3>1. sqlite => place = "ensure"
      OBVIOUS
    <3> QED BY <2>1, <2>2, <3>1 DEF PlaceOK, AlembicPlace
  <2>7. Sees(To(place), tables', columns', revision')
    BY <2>2 DEF Sees
  <2> HIDE DEF place
  <2> QED BY <2>1, <2>2, <2>3, <2>4, <2>5, <2>6, <2>7, ServerMoves
<1>17. "down" \in Starting!Places /\ To("down") \in Startups /\ To("down").at = "down"
  BY <1>1 DEF Starting!Places
<1>18. \A made, have, at, no : /\ PlaceOK(To("down"), made, have, at, no)
                               /\ Sees(To("down"), made, have, at)
  BY <1>17 DEF PlaceOK, AlembicPlace, PlainPlace, Sees
<1>19. ASSUME NEW p \in Servers, Busy(server[p]), Starting!Exit(p),
              UNCHANGED <<sqlite, alembic, older, tables, columns, revision, together>>,
              ServerHistories', refusing => refusing', stuck => stuck',
              together \/ refusing' \/ stuck'
       PROVE  ServerInv'
  <2>1. server' = [server EXCEPT ![p] = To("down")]
    BY <1>2, <1>19 DEF Starting!Exit
  <2>2. SchemaGrows /\ tables' \in BOOLEAN
    BY <1>5, <1>19 DEF SchemaGrows, ServerTypes
  <2>3. columns' \subseteq SchemaColumns /\ revision' \in {"none", "initial", "head"}
    BY <1>5, <1>19 DEF ServerTypes
  <2>4. VersionInv'
    BY <1>19 DEF ServerInv, VersionInv
  <2> QED BY <1>17, <1>18, <1>19, <2>1, <2>2, <2>3, <2>4, ServerMoves
<1>20. ASSUME NEW p \in Servers, Starting!FailUpgrade(p) PROVE ServerInv'
  <2>1. /\ server[p].at = "apply" /\ Busy(server[p])
        /\ revision = server[p].seen => revision = "none" /\ tables
        /\ Starting!Exit(p) /\ stuck' = (stuck \/ revision = "none")
        /\ UNCHANGED <<sqlite, alembic, older, tables, columns, revision, together, refusing>>
    BY <1>20 DEF Starting!FailUpgrade, Starting!At, Starting!kind, Starting!schema, Busy
  <2>2. ServerHistories'
    BY <2>1 DEF Starting!Exit, ServerInv, ServerHistories
  <2>3. together \/ stuck'
    BY <1>6, <2>1 DEF Sees
  <2> QED BY <1>19, <2>1, <2>2, <2>3
<1>21. ASSUME NEW p \in Servers, Starting!FailTables(p) PROVE ServerInv'
  <2>1. /\ server[p].at = "tables" /\ Busy(server[p]) /\ tables /\ Starting!Exit(p)
        /\ UNCHANGED <<sqlite, alembic, older, tables, columns, revision, together,
                       refusing, stuck>>
    BY <1>21 DEF Starting!FailTables, Starting!At, Starting!kind, Starting!schema, Busy
  <2>2. ServerHistories'
    BY <2>1 DEF Starting!Exit, ServerInv, ServerHistories
  <2>3. together
    BY <1>6, <2>1 DEF Sees
  <2> QED BY <1>19, <2>1, <2>2, <2>3
<1>22. ASSUME NEW p \in Servers, Starting!Interrupt(p) PROVE ServerInv'
  <2>1. /\ server[p].at = "apply" /\ Busy(server[p]) /\ ~tables
        /\ tables' = TRUE /\ columns' = SchemaColumns \ Migrated
        /\ server' = [server EXCEPT ![p] = To("down")]
        /\ UNCHANGED <<sqlite, alembic, older, revision, exited, together, refusing,
                       stuck>>
    BY <1>2, <1>22 DEF Starting!Interrupt, Starting!At, Starting!kind, Starting!flags,
       Busy
  <2>2. columns = {} /\ revision = "none" /\ tables' \in BOOLEAN
    BY <2>1 DEF ServerInv, VersionInv
  <2>3. SchemaGrows /\ ServerHistories' /\ VersionInv'
    BY <2>1, <2>2 DEF SchemaGrows, ServerInv, ServerHistories, VersionInv
  <2>4. columns' \subseteq SchemaColumns /\ revision' \in {"none", "initial", "head"}
    BY <2>1, <2>2
  <2> QED BY <1>17, <1>18, <2>1, <2>2, <2>3, <2>4, ServerMoves
<1>23. ASSUME NEW p \in Servers, Starting!CreateTables(p) PROVE ServerInv'
  <2>1. /\ server[p].at = "tables" /\ Busy(server[p]) /\ ~tables /\ ~alembic
        /\ tables' = TRUE /\ columns' = SchemaColumns
        /\ server' = [server EXCEPT ![p] = To("sync")] /\ "sync" \in Starting!Places
        /\ UNCHANGED <<sqlite, alembic, older, revision, exited, together, refusing,
                       stuck>>
    BY <1>2, <1>4, <1>5, <1>23 DEF Starting!CreateTables, Starting!At, Starting!kind,
       Starting!flags, Starting!Places, Busy, PlaceOK, AlembicPlace, ServerTypes
  <2>2. columns = {} /\ revision = "none" /\ tables' \in BOOLEAN
    BY <2>1 DEF ServerInv, VersionInv
  <2>3. SchemaGrows /\ ServerHistories' /\ VersionInv'
    BY <2>1, <2>2 DEF SchemaGrows, ServerInv, ServerHistories, VersionInv
  <2>4. To("sync") \in Startups /\ To("sync").at = "sync"
    BY <1>1, <2>1
  <2>5. PlaceOK(To("sync"), tables', columns', revision', refusing')
    BY <2>1, <2>4 DEF PlaceOK, PlainPlace
  <2>6. Sees(To("sync"), tables', columns', revision')
    BY <2>4 DEF Sees
  <2>7. columns' \subseteq SchemaColumns /\ revision' \in {"none", "initial", "head"}
    BY <2>1, <2>2
  <2> QED BY <2>1, <2>2, <2>3, <2>4, <2>5, <2>6, <2>7, ServerMoves
<1>24. ASSUME NEW p \in Servers, Starting!AddColumn(p) PROVE ServerInv'
  <2> DEFINE c == CHOOSE c \in server[p].todo : TRUE
             s == [server[p] EXCEPT !.todo = @ \ {c}]
  <2>1. /\ server[p].at = "adding" /\ Busy(server[p]) /\ server[p].todo # {}
        /\ server' = [server EXCEPT ![p] = s]
        /\ UNCHANGED <<sqlite, alembic, older, tables, revision, exited, together, stuck>>
    BY <1>24 DEF Starting!AddColumn, Starting!At, Starting!kind, Starting!Move, Busy
  <2>2. \/ columns' = columns \cup {c} /\ refusing' = refusing
        \/ c \notin columns /\ refusing' = TRUE /\ columns' = columns
    BY <1>24 DEF Starting!AddColumn
  <2>3. c \in server[p].todo
    BY <2>1
  <2>4. server[p] \in Startups
    BY <1>5 DEF ServerTypes
  <2>5. s \in Startups /\ s.at = "adding" /\ s.todo = server[p].todo \ {c}
    BY <2>1, <2>4 DEF Startups
  <2>6. c \in SchemaColumns
    BY <2>3, <2>4 DEF Startups
  <2> HIDE DEF c, s
  <2>7. columns' \subseteq SchemaColumns /\ columns \subseteq columns'
    BY <1>5, <2>2, <2>6 DEF ServerTypes
  <2>8. ServerHistories' /\ (refusing => refusing')
    BY <2>1, <2>2 DEF ServerInv, ServerHistories
  <2>9. ~alembic /\ tables /\ (refusing \/ SchemaColumns \ columns \subseteq server[p].todo)
    BY <1>4, <1>5, <2>1 DEF PlaceOK, AlembicPlace, PlainPlace, ServerTypes
  <2>10. SchemaGrows /\ tables' \in BOOLEAN /\ revision' \in {"none", "initial", "head"}
    BY <1>5, <2>1, <2>7, <2>8 DEF SchemaGrows, ServerTypes
  <2>11. VersionInv'
    BY <2>1, <2>7, <2>9 DEF ServerInv, VersionInv
  <2>12. refusing' \/ SchemaColumns \ columns' \subseteq s.todo
    BY <2>2, <2>5, <2>9
  <2>13. PlaceOK(s, tables', columns', revision', refusing')
    BY <2>1, <2>5, <2>9, <2>12 DEF PlaceOK, PlainPlace
  <2>14. Sees(s, tables', columns', revision')
    BY <2>5 DEF Sees
  <2> QED BY <2>1, <2>5, <2>7, <2>8, <2>10, <2>11, <2>13, <2>14, ServerMoves
<1>25. ASSUME NEW p \in Servers, Starting!Alter(p) PROVE ServerInv'
  <2> DEFINE c == server[p].column
  <2>1. /\ server[p].at = "alter" /\ Busy(server[p])
        /\ UNCHANGED <<sqlite, alembic, older, tables, revision, together, stuck>>
    BY <1>25 DEF Starting!Alter, Starting!At, Starting!kind, Busy
  <2>2. CASE ~(c \subseteq columns) /\ columns' = columns \cup c
             /\ Starting!Go(p, "ensure") /\ UNCHANGED <<exited, refusing>>
    <3>1. c \subseteq SchemaColumns
      BY <1>5 DEF ServerTypes, Startups
    <3>2. columns' \subseteq SchemaColumns /\ columns \subseteq columns'
      BY <1>5, <2>2, <3>1 DEF ServerTypes
    <3>3. "ensure" \in Starting!Places
      BY DEF Starting!Places
    <3>4. To("ensure") \in Startups /\ To("ensure").at = "ensure"
      BY <1>1, <3>3
    <3>5. server' = [server EXCEPT ![p] = To("ensure")]
      BY <1>2, <2>2
    <3>6. SchemaGrows /\ tables' \in BOOLEAN /\ revision' \in {"none", "initial", "head"}
      BY <1>5, <2>1, <2>2, <3>2 DEF SchemaGrows, ServerTypes
    <3>7. tables
      BY <1>4, <1>5, <2>1 DEF PlaceOK, AlembicPlace, PlainPlace, ServerTypes,
         ServerInv, VersionInv
    <3>8. ServerHistories' /\ VersionInv'
      BY <2>1, <2>2, <3>2, <3>7 DEF ServerInv, ServerHistories, VersionInv
    <3>9. PlaceOK(To("ensure"), tables', columns', revision', refusing')
      BY <1>4, <1>5, <2>1, <2>2, <3>2, <3>4
         DEF PlaceOK, AlembicPlace, PlainPlace, ServerTypes
    <3>10. Sees(To("ensure"), tables', columns', revision')
      BY <3>4 DEF Sees
    <3> QED BY <2>1, <2>2, <3>2, <3>4, <3>5, <3>6, <3>8, <3>9, <3>10, ServerMoves
  <2>3. CASE c \subseteq columns /\ Starting!Exit(p) /\ UNCHANGED <<columns, refusing>>
    <3>1. together
      BY <1>6, <2>1, <2>3 DEF Sees
    <3>2. ServerHistories'
      BY <2>1, <2>3 DEF Starting!Exit, ServerInv, ServerHistories
    <3> QED BY <1>19, <2>1, <2>3, <3>1, <3>2
  <2>4. CASE refusing' = TRUE /\ Starting!Exit(p) /\ UNCHANGED columns
    <3>1. ServerHistories'
      BY <2>1, <2>4 DEF Starting!Exit, ServerInv, ServerHistories
    <3> QED BY <1>19, <2>1, <2>4, <3>1
  <2> QED BY <1>25, <2>2, <2>3, <2>4 DEF Starting!Alter
<1>26. ASSUME NEW p \in Servers,
              \/ Starting!EnsureUser(p) \/ Starting!EnsureTenant(p)
              \/ Starting!EnsureIntegration(p) \/ Starting!EnsureVendor(p)
              \/ Starting!EnsureTraining(p) \/ Starting!EnsureTrust(p)
       PROVE  ServerInv'
  BY <1>3, <1>15, <1>26 DEF Starting!EnsureUser, Starting!EnsureTenant,
     Starting!EnsureIntegration, Starting!EnsureVendor, Starting!EnsureTraining,
     Starting!EnsureTrust
<1> QED BY <1>7, <1>8, <1>10, <1>11, <1>12, <1>13, <1>14, <1>16, <1>20, <1>21, <1>22,
           <1>23, <1>24, <1>25, <1>26
        DEF Starting!StartupNext

-----------------------------------------------------------------------------
(* Lists from outside                                                      *)

Items == Lists!Items
Words == {"absent", "joiner", "mover", "leaver", "compliant", "non_compliant", "listed"}
Passes == [at: Nat, fetched: [Items -> Words], counts: [Items -> Nat],
           ins: SUBSET Items, upd: SUBSET Items]

ListTypes ==
    /\ list \in {"people", "devices", "vendors"}
    /\ source \in [Items -> Words] /\ state \in [Items -> Words]
    /\ rows \in [Items -> Nat] /\ byHand \in [Items -> Nat]
    /\ incidents \in [Items -> Nat] /\ given \in [Items -> Nat] /\ scored \in [Items -> Nat]
    /\ passing \in [Requests -> Passes]
    /\ ever \in [Items -> SUBSET Words] /\ doubled \subseteq Items

(* Whatever is known of an item has been said by the other side.           *)
SaidBefore(w) == \A i \in Items : w[i] # "absent" => w[i] \in ever[i]
SaidInv ==
    /\ SaidBefore(source) /\ SaidBefore(state)
    /\ \A h \in Requests :
         /\ SaidBefore(passing[h].fetched)
         /\ \A i \in passing[h].ins \cup passing[h].upd :
              passing[h].fetched[i] # "absent"

(* An item that one pass only is about to insert has no row yet, but for   *)
(* those made by hand in the meantime.                                     *)
ByHand(i) == IF list = "devices" THEN byHand[i] ELSE 0
RowInv ==
    /\ \A i \in Items \ doubled :
         /\ rows[i] <= 1 + ByHand(i)
         /\ \A h \in Requests : i \in passing[h].ins => rows[i] <= ByHand(i)
         /\ \A g, h \in Requests : i \in passing[g].ins /\ i \in passing[h].ins => g = h
    /\ "twice" \in missed => \E i \in Items : rows[i] > 1

(* The count of incidents that a pass has loaded is the one the vendor was *)
(* entered with where it inserts an alert, so that no count exceeds that   *)
(* by more than 1; a vendor that is not there yet has no alert.            *)
VendorInv ==
    /\ \A i \in Items :
         /\ scored[i] <= incidents[i] /\ given[i] <= incidents[i]
         /\ incidents[i] <= given[i] + 1 /\ incidents[i] <= given[i] + rows[i]
         /\ i \notin doubled => incidents[i] = given[i] + rows[i]
         /\ source[i] = "absent" => rows[i] = 0
    /\ \A h \in Requests : \A i \in Items :
         /\ passing[h].fetched[i] # "absent" =>
               /\ source[i] # "absent" /\ given[i] <= passing[h].counts[i]
               /\ passing[h].counts[i] <= given[i] + rows[i]
         /\ i \in passing[h].ins => passing[h].counts[i] = given[i]

(* Until a pass was broken off, each has seen to the items before the next;*)
(* and who did not fit on the first page still would not.                  *)
Covered(r) ==
    \A i \in Items : i < r.at /\ r.fetched[i] # "absent" => rows[i] > 0 \/ i \in r.ins
WholeInv ==
    /\ missed \subseteq {"page"} => \A h \in Requests : Covered(passing[h])
    /\ "page" \in missed => Lists!Clipped

ListInv ==
    /\ ListTypes /\ SaidInv /\ RowInv /\ WholeInv
    /\ list = "vendors" => VendorInv

LEMMA RestingPass ==
    /\ Lists!Resting \in Passes /\ Lists!Resting.at = 0
    /\ Lists!Resting.ins = {} /\ Lists!Resting.upd = {}
    /\ Lists!Resting.fetched = [i \in Items |-> "absent"]
    /\ Lists!Resting.counts = [i \in Items |-> 0]
<1>1. \A f \in [Items -> Words], c \in [Items -> Nat] :
         LET r == [at |-> 0, fetched |-> f, counts |-> c, ins |-> {}, upd |-> {}]
         IN  r \in Passes
  BY DEF Passes
<1>2. [i \in Items |-> "absent"] \in [Items -> Words]
  BY DEF Words
<1>3. [i \in Items |-> 0] \in [Items -> Nat]
  OBVIOUS
<1> QED BY <1>1, <1>2, <1>3 DEF Lists!Resting, Lists!Nothing, Lists!Zero, Items

LEMMA RestingCovers == Covered(Lists!Resting) /\ Covered(Lists!Resting)'
<1>1. Last \in Nat
  BY GovernanceAssumption
<1>2. \A i \in Items : ~ (i < Lists!Resting.at)
  BY <1>1, RestingPass DEF Items, Lists!Items
<1> QED BY <1>2 DEF Covered

(* Nobody leaves the list of the other side.                               *)
LEMMA StillClipped ==
    ASSUME ListTypes, Lists!Clipped, list' = list,
           \A i \in Items : source[i] # "absent" => source'[i] # "absent"
    PROVE  Lists!Clipped'
<1> DEFINE L == {i \in 1..Last : source[i] # "absent"}
           N == {i \in 1..Last : source'[i] # "absent"}
<1>1. Last \in Nat /\ PeoplePage \in Nat
  BY GovernanceAssumption
<1>2. IsFiniteSet(1..Last)
  BY <1>1, FS_Interval
<1>3. N \in SUBSET (1..Last) /\ L \in SUBSET N
  BY DEF Items, Lists!Items
<1>4. IsFiniteSet(N) /\ Cardinality(N) \in Nat
  BY <1>2, <1>3, FS_Subset, FS_CardinalityType
<1>5. IsFiniteSet(L) /\ Cardinality(L) <= Cardinality(N)
  BY <1>3, <1>4, FS_Subset
<1>6. Cardinality(L) \in Nat
  BY <1>5, FS_CardinalityType
<1>7. L = Lists!Listed /\ N = Lists!Listed'
  BY DEF Lists!Listed, Lists!Items
<1> HIDE DEF L, N
<1>8. list = "people" /\ Cardinality(L) > PeoplePage
  BY <1>7 DEF Lists!Clipped, Lists!Cardinality, Cardinality
<1>9. Cardinality(N) > PeoplePage
  BY <1>1, <1>4, <1>5, <1>6, <1>8
<1> QED BY <1>7, <1>8, <1>9 DEF Lists!Clipped, Lists!Cardinality, Cardinality

LEMMA ListInitially == GovernanceInit => ListInv
<1> SUFFICES ASSUME GovernanceInit PROVE ListInv
  OBVIOUS
<1>1. Lists!RosterInit
  BY DEF GovernanceInit
<1>2. /\ list \in {"people", "devices", "vendors"}
      /\ source = [i \in Items |-> "absent"] /\ state = [i \in Items |-> "absent"]
      /\ rows = [i \in Items |-> 0] /\ byHand = [i \in Items |-> 0]
      /\ incidents = [i \in Items |-> 0] /\ given = [i \in Items |-> 0]
      /\ scored = [i \in Items |-> 0]
      /\ passing = [h \in Requests |-> Lists!Resting]
      /\ ever = [i \in Items |-> {}] /\ doubled = {}
  BY <1>1 DEF Lists!RosterInit, Lists!Nothing, Lists!Zero, Items
<1>3. missed = {}
  BY <1>1 DEF Lists!RosterInit
<1>4. ListTypes
  <2>1. source \in [Items -> Words] /\ state \in [Items -> Words]
    BY <1>2 DEF Words
  <2>2. passing \in [Requests -> Passes]
    BY <1>2, RestingPass
  <2> QED BY <1>2, <2>1, <2>2 DEF ListTypes
<1>5. SaidInv
  BY <1>2, RestingPass DEF SaidInv, SaidBefore
<1>6. \A i \in Items : rows[i] <= 1 + ByHand(i)
  BY <1>2 DEF ByHand
<1>7. RowInv
  BY <1>2, <1>3, <1>6, RestingPass DEF RowInv
<1>8. VendorInv
  BY <1>2, RestingPass DEF VendorInv
<1>9. WholeInv
  BY <1>2, <1>3, RestingCovers DEF WholeInv
<1> QED BY <1>4, <1>5, <1>7, <1>8, <1>9 DEF ListInv

CountOK(r, i) ==
    /\ r.fetched[i] # "absent" => /\ source[i] # "absent" /\ given[i] <= r.counts[i]
                                  /\ r.counts[i] <= given[i] + rows[i]
    /\ i \in r.ins => r.counts[i] = given[i]
MissedOK ==
    /\ "twice" \in missed' => "twice" \in missed \/ \E i \in Items : rows[i] > 1
    /\ "page" \in missed' => "page" \in missed \/ Lists!Clipped

(* A step of one pass, which comes to r and leaves the tables as they are. *)
LEMMA PassMoves ==
    ASSUME ListInv, NEW h \in Requests, NEW r \in Passes,
           passing' = [passing EXCEPT ![h] = r],
           UNCHANGED <<list, source, rows, byHand, state, incidents, given, scored, ever>>,
           SaidBefore(r.fetched), \A i \in r.ins \cup r.upd : r.fetched[i] # "absent",
           doubled \subseteq doubled', doubled' \subseteq Items,
           \A i \in r.ins \ doubled' :
              /\ rows[i] <= ByHand(i)
              /\ \A g \in Requests \ {h} : i \notin passing[g].ins,
           list = "vendors" => \A i \in Items : CountOK(r, i),
           missed \subseteq missed', MissedOK, missed' \subseteq {"page"} => Covered(r)
    PROVE  ListInv'
<1>1. ListTypes'
  BY DEF ListInv, ListTypes
<1>2. passing'[h] = r /\ \A g \in Requests \ {h} : passing'[g] = passing[g]
  BY DEF ListInv, ListTypes
<1>3. SaidInv'
  <2>1. SaidBefore(source)' /\ SaidBefore(state)'
    BY DEF ListInv, SaidInv, SaidBefore
  <2>2. ASSUME NEW g \in Requests
        PROVE  /\ \A i \in Items : passing'[g].fetched[i] # "absent"
                                      => passing'[g].fetched[i] \in ever'[i]
               /\ \A i \in passing'[g].ins \cup passing'[g].upd :
                    passing'[g].fetched[i] # "absent"
    BY <1>2 DEF ListInv, SaidInv, SaidBefore
  <2> QED BY <2>1, <2>2 DEF SaidInv, SaidBefore
<1>4. RowInv'
  <2>1. \A i \in Items : ByHand(i)' = ByHand(i)
    BY DEF ByHand
  <2>2. ASSUME NEW i \in Items \ doubled'
        PROVE  /\ rows'[i] <= 1 + ByHand(i)'
               /\ \A g \in Requests : i \in passing'[g].ins => rows'[i] <= ByHand(i)'
               /\ \A f, g \in Requests : i \in passing'[f].ins /\ i \in passing'[g].ins
                                            => f = g
    <3>1. i \in Items \ doubled
      OBVIOUS
    <3> QED BY <1>2, <2>1, <3>1 DEF ListInv, RowInv
  <2>3. "twice" \in missed' => \E i \in Items : rows'[i] > 1
    BY DEF ListInv, RowInv, MissedOK
  <2> QED BY <2>2, <2>3 DEF RowInv
<1>5. list' = "vendors" => VendorInv'
  BY <1>2 DEF ListInv, VendorInv, CountOK
<1>6. WholeInv'
  <2>1. Lists!Clipped => Lists!Clipped'
    BY StillClipped DEF ListInv
  <2>2. ASSUME missed' \subseteq {"page"}, NEW g \in Requests PROVE Covered(passing[g])'
    BY <1>2, <2>2 DEF ListInv, WholeInv, Covered
  <2> QED BY <2>1, <2>2 DEF ListInv, WholeInv, MissedOK
<1> QED BY <1>1, <1>3, <1>4, <1>5, <1>6 DEF ListInv

(* The commit of a pass: one row and one incident for each of its items.   *)
LEMMA PassCommits ==
    ASSUME ListInv, NEW h \in Requests, Lists!CommitPass(h)
    PROVE  ListInv'
<1> DEFINE r == passing[h]
<1>1. /\ rows' = [i \in Items |-> rows[i] + IF i \in r.ins THEN 1 ELSE 0]
      /\ state' = [i \in Items |-> IF i \in r.upd \/ (i \in r.ins /\ rows[i] = 0)
                                     THEN r.fetched[i] ELSE state[i]]
      /\ incidents' = [i \in Items |-> IF list = "vendors" /\ i \in r.ins
                                         THEN r.counts[i] + 1 ELSE incidents[i]]
      /\ passing' = [passing EXCEPT ![h] = Lists!Resting]
      /\ UNCHANGED <<list, source, given, scored, byHand, handled, ever, doubled, missed>>
  BY DEF Lists!CommitPass, Lists!Set, Items
<1>2. ListTypes
  BY DEF ListInv
<1>3. r \in Passes
  BY <1>2 DEF ListTypes
<1>4. /\ r.fetched \in [Items -> Words] /\ r.counts \in [Items -> Nat]
      /\ r.ins \subseteq Items /\ r.upd \subseteq Items
  BY <1>3 DEF Passes
<1>5. /\ SaidBefore(r.fetched) /\ \A i \in r.ins \cup r.upd : r.fetched[i] # "absent"
      /\ SaidBefore(source) /\ SaidBefore(state)
  BY DEF ListInv, SaidInv
<1>6. passing'[h] = Lists!Resting /\ \A g \in Requests \ {h} : passing'[g] = passing[g]
  BY <1>1, <1>2 DEF ListTypes
<1> HIDE DEF r
<1>7. \A i \in Items : /\ rows[i] \in Nat /\ rows'[i] \in Nat /\ rows'[i] >= rows[i]
                       /\ i \in r.ins => rows'[i] = rows[i] + 1
                       /\ i \notin r.ins => rows'[i] = rows[i]
  BY <1>1, <1>2 DEF ListTypes
<1>8. ListTypes'
  <2>1. rows' \in [Items -> Nat] /\ state' \in [Items -> Words]
    BY <1>1, <1>2, <1>4, <1>7 DEF ListTypes
  <2>2. \A i \in Items : r.counts[i] + 1 \in Nat
    BY <1>4
  <2>3. incidents' \in [Items -> Nat]
    BY <1>1, <1>2, <2>2 DEF ListTypes
  <2>4. passing' \in [Requests -> Passes]
    BY <1>1, <1>2, RestingPass DEF ListTypes
  <2> QED BY <1>1, <1>2, <2>1, <2>3, <2>4 DEF ListTypes
<1>9. SaidInv'
  <2>1. \A i \in Items : state'[i] # "absent" => state'[i] \in ever'[i]
    BY <1>1, <1>5 DEF SaidBefore
  <2>2. \A i \in Items : source'[i] # "absent" => source'[i] \in ever'[i]
    BY <1>1, <1>5 DEF SaidBefore
  <2>3. ASSUME NEW g \in Requests
        PROVE  /\ \A i \in Items : passing'[g].fetched[i] # "absent"
                                      => passing'[g].fetched[i] \in ever'[i]
               /\ \A i \in passing'[g].ins \cup passing'[g].upd :
                    passing'[g].fetched[i] # "absent"
    BY <1>1, <1>6, RestingPass DEF ListInv, SaidInv, SaidBefore
  <2> QED BY <2>1, <2>2, <2>3 DEF SaidInv, SaidBefore
<1>10. \A i \in Items : ByHand(i)' = ByHand(i) /\ ByHand(i) \in Nat
  BY <1>1, <1>2 DEF ByHand, ListTypes
<1>11. RowInv'
  <2>1. ASSUME NEW i \in Items \ doubled'
        PROVE  /\ rows'[i] <= 1 + ByHand(i)'
               /\ \A g \in Requests : i \in passing'[g].ins => rows'[i] <= ByHand(i)'
               /\ \A f, g \in Requests : i \in passing'[f].ins /\ i \in passing'[g].ins
                                            => f = g
    <3>1. /\ rows[i] <= 1 + ByHand(i)
          /\ \A g \in Requests : i \in passing[g].ins => rows[i] <= ByHand(i)
          /\ \A f, g \in Requests : i \in passing[f].ins /\ i \in passing[g].ins => f = g
      BY <1>1 DEF ListInv, RowInv
    <3>2. CASE i \in r.ins
      BY <1>6, <1>7, <1>10, <3>1, <3>2, RestingPass DEF r
    <3>3. CASE i \notin r.ins
      BY <1>6, <1>7, <1>10, <3>1, <3>3, RestingPass
    <3> QED BY <3>2, <3>3
  <2>2. "twice" \in missed' => \E i \in Items : rows'[i] > 1
    BY <1>1, <1>7 DEF ListInv, RowInv
  <2> QED BY <2>1, <2>2 DEF RowInv
<1>12. ASSUME list = "vendors" PROVE VendorInv'
  <2>1. VendorInv
    BY <1>12 DEF ListInv
  <2>2. \A i \in Items : /\ incidents[i] \in Nat /\ scored[i] \in Nat /\ given[i] \in Nat
                         /\ i \in r.ins => r.counts[i] = given[i]
    BY <1>2, <2>1 DEF ListTypes, VendorInv, r
  <2>3. ASSUME NEW i \in Items
        PROVE  /\ scored'[i] <= incidents'[i] /\ given'[i] <= incidents'[i]
               /\ incidents'[i] <= given'[i] + 1 /\ incidents'[i] <= given'[i] + rows'[i]
               /\ i \notin doubled' => incidents'[i] = given'[i] + rows'[i]
               /\ source'[i] = "absent" => rows'[i] = 0
    <3>1. /\ scored[i] <= incidents[i] /\ given[i] <= incidents[i]
          /\ incidents[i] <= given[i] + 1 /\ incidents[i] <= given[i] + rows[i]
          /\ i \notin doubled => incidents[i] = given[i] + rows[i]
          /\ source[i] = "absent" => rows[i] = 0
      BY <2>1 DEF VendorInv
    <3>2. CASE i \in r.ins
      <4>1. incidents'[i] = given[i] + 1 /\ rows'[i] = rows[i] + 1
        BY <1>1, <1>7, <1>12, <2>2, <3>2
      <4>2. i \notin doubled => rows[i] <= ByHand(i) /\ ByHand(i) = 0
        BY <1>12, <3>2 DEF ListInv, RowInv, ByHand, r
      <4>3. source[i] # "absent"
        BY <1>5, <2>1, <3>2 DEF VendorInv, r
      <4> QED BY <1>1, <1>7, <2>2, <3>1, <4>1, <4>2, <4>3
    <3>3. CASE i \notin r.ins
      BY <1>1, <1>7, <3>1, <3>3
    <3> QED BY <3>2, <3>3
  <2>4. ASSUME NEW g \in Requests, NEW i \in Items
        PROVE  /\ passing'[g].fetched[i] # "absent" =>
                     /\ source'[i] # "absent" /\ given'[i] <= passing'[g].counts[i]
                     /\ passing'[g].counts[i] <= given'[i] + rows'[i]
               /\ i \in passing'[g].ins => passing'[g].counts[i] = given'[i]
    <3>1. CASE g = h
      BY <1>6, <3>1, RestingPass
    <3>2. CASE g # h
      <4>1. passing[g].counts[i] \in Nat /\ passing'[g] = passing[g]
        BY <1>2, <1>6, <3>2 DEF ListTypes, Passes
      <4>2. /\ passing[g].fetched[i] # "absent" =>
                  /\ source[i] # "absent" /\ given[i] <= passing[g].counts[i]
                  /\ passing[g].counts[i] <= given[i] + rows[i]
            /\ i \in passing[g].ins => passing[g].counts[i] = given[i]
        BY <2>1 DEF VendorInv
      <4> QED BY <1>1, <1>7, <2>2, <4>1, <4>2
    <3> QED BY <3>1, <3>2
  <2> QED BY <2>3, <2>4 DEF VendorInv
<1>13. WholeInv'
  <2>1. ASSUME missed' \subseteq {"page"}, NEW g \in Requests PROVE Covered(passing[g])'
    <3>1. CASE g = h
      <4>1. \A i \in Items : ~ (i < Lists!Resting.at)
        BY GovernanceAssumption, RestingPass DEF Items, Lists!Items
      <4> QED BY <1>6, <3>1, <4>1 DEF Covered
    <3>2. CASE g # h
      <4>1. \A i \in Items : rows[i] > 0 => rows'[i] > 0
        BY <1>7
      <4> QED BY <1>1, <1>6, <2>1, <3>2, <4>1 DEF ListInv, WholeInv, Covered
    <3> QED BY <3>1, <3>2
  <2>2. "page" \in missed' => Lists!Clipped'
    BY <1>1, <1>2, StillClipped DEF ListInv, WholeInv
  <2> QED BY <2>1, <2>2 DEF WholeInv
<1> QED BY <1>1, <1>8, <1>9, <1>11, <1>12, <1>13 DEF ListInv

LEMMA ListStep == ListInv /\ [Lists!RosterNext]_lists => ListInv'
<1> SUFFICES ASSUME ListInv, [Lists!RosterNext]_lists PROVE ListInv'
  OBVIOUS
<1>1. ListTypes
  BY DEF ListInv
<1>2. \A k : Lists!States(k) \subseteq Words \ {"absent"}
             \/ k \notin {"people", "devices", "vendors"}
  BY DEF Lists!States, Words
<1>3. CASE UNCHANGED lists
  <2>1. UNCHANGED <<list, source, rows, byHand, state, incidents, given, scored, passing,
                    ever, doubled, missed>>
    BY <1>3 DEF lists
  <2>2. WholeInv'
    BY <1>1, <2>1, StillClipped DEF ListInv, WholeInv, Covered
  <2> QED BY <2>1, <2>2 DEF ListInv, ListTypes, SaidInv, SaidBefore, RowInv, ByHand,
             VendorInv
(* WholeInv is kept where no pass moves, no row and nobody on the list of  *)
(* the other side goes.                                                    *)
<1>20. ASSUME UNCHANGED <<list, passing, missed>>,
              \A i \in Items : /\ source[i] # "absent" => source'[i] # "absent"
                               /\ rows[i] > 0 => rows'[i] > 0
       PROVE  WholeInv'
  <2>1. "page" \in missed' => Lists!Clipped'
    BY <1>1, <1>20, StillClipped DEF ListInv, WholeInv
  <2> QED BY <1>20, <2>1 DEF ListInv, WholeInv, Covered
<1>4. ASSUME NEW i \in Items, NEW s, Lists!Change(i, s) PROVE ListInv'
  <2>1. /\ list # "vendors" /\ s \in Words /\ s # "absent"
        /\ source' = [source EXCEPT ![i] = s]
        /\ ever' = [ever EXCEPT ![i] = @ \cup {s}]
        /\ UNCHANGED <<list, rows, state, incidents, given, scored, byHand, handled,
                       passing, doubled, missed>>
    BY <1>1, <1>2, <1>4 DEF Lists!Change, Lists!tableVars, ListTypes
  <2>2. ListTypes'
    BY <1>1, <2>1 DEF ListTypes
  <2>3. /\ \A j \in Items : ever[j] \subseteq ever'[j] /\ (source'[j] = source[j]
                                                          \/ source'[j] \in ever'[j])
    BY <1>1, <2>1 DEF ListTypes
  <2>4. SaidInv'
    BY <2>1, <2>3 DEF ListInv, SaidInv, SaidBefore
  <2>5. WholeInv'
    <3>1. \A j \in Items : source[j] # "absent" => source'[j] # "absent"
      BY <1>1, <2>1 DEF ListTypes
    <3> QED BY <1>20, <2>1, <3>1
  <2> QED BY <2>1, <2>2, <2>4, <2>5 DEF ListInv, RowInv, ByHand
<1>21. ASSUME NEW i \in Items, NEW n \in Nat, Lists!CreateVendor(i, n) PROVE ListInv'
  <2>1. /\ list = "vendors" /\ source[i] = "absent"
        /\ source' = [source EXCEPT ![i] = "listed"]
        /\ ever' = [ever EXCEPT ![i] = @ \cup {"listed"}]
        /\ incidents' = [incidents EXCEPT ![i] = n] /\ given' = [given EXCEPT ![i] = n]
        /\ scored' = [scored EXCEPT ![i] = n]
        /\ UNCHANGED <<list, rows, state, byHand, handled, passing, doubled, missed>>
    BY <1>21 DEF Lists!CreateVendor
  <2>2. ListTypes'
    <3>1. "listed" \in Words
      BY DEF Words
    <3> QED BY <1>1, <2>1, <3>1 DEF ListTypes
  <2>3. \A j \in Items : ever[j] \subseteq ever'[j] /\ (source'[j] = source[j]
                                                       \/ source'[j] \in ever'[j])
    BY <1>1, <2>1 DEF ListTypes
  <2>4. SaidInv'
    BY <2>1, <2>3 DEF ListInv, SaidInv, SaidBefore
  <2>5. /\ \A j \in Items \ {i} : /\ source'[j] = source[j] /\ incidents'[j] = incidents[j]
                                 /\ given'[j] = given[j] /\ scored'[j] = scored[j]
        /\ source'[i] = "listed" /\ incidents'[i] = n /\ given'[i] = n /\ scored'[i] = n
    BY <1>1, <2>1 DEF ListTypes
  <2>6. WholeInv'
    <3>1. \A j \in Items : source[j] # "absent" => source'[j] # "absent"
      BY <2>5
    <3> QED BY <1>20, <2>1, <3>1
  <2>7. VendorInv
    BY <2>1 DEF ListInv
  <2>8. /\ rows[i] = 0 /\ \A h \in Requests : /\ passing[h].fetched[i] = "absent"
                                             /\ i \notin passing[h].ins
    BY <2>1, <2>7 DEF VendorInv, ListInv, SaidInv
  <2>9. VendorInv'
    <3>1. ASSUME NEW j \in Items
          PROVE  /\ scored'[j] <= incidents'[j] /\ given'[j] <= incidents'[j]
                 /\ incidents'[j] <= given'[j] + 1 /\ incidents'[j] <= given'[j] + rows'[j]
                 /\ j \notin doubled' => incidents'[j] = given'[j] + rows'[j]
                 /\ source'[j] = "absent" => rows'[j] = 0
      <4>1. CASE j = i
        BY <2>1, <2>5, <2>8, <4>1
      <4>2. CASE j # i
        BY <2>1, <2>5, <2>7, <4>2 DEF VendorInv
      <4> QED BY <4>1, <4>2
    <3>2. ASSUME NEW h \in Requests, NEW j \in Items
          PROVE  /\ passing'[h].fetched[j] # "absent" =>
                       /\ source'[j] # "absent" /\ given'[j] <= passing'[h].counts[j]
                       /\ passing'[h].counts[j] <= given'[j] + rows'[j]
                 /\ j \in passing'[h].ins => passing'[h].counts[j] = given'[j]
      BY <2>1, <2>5, <2>7, <2>8 DEF VendorInv
    <3> QED BY <3>1, <3>2 DEF VendorInv
  <2> QED BY <2>1, <2>2, <2>4, <2>6, <2>9 DEF ListInv, RowInv, ByHand
<1>5. ASSUME NEW i \in Items, NEW s, Lists!RegisterDevice(i, s) PROVE ListInv'
  <2>1. /\ list = "devices" /\ s \in Words
        /\ rows' = [rows EXCEPT ![i] = @ + 1] /\ byHand' = [byHand EXCEPT ![i] = @ + 1]
        /\ state' = [state EXCEPT ![i] = IF @ = "absent" THEN s ELSE @]
        /\ ever' = [ever EXCEPT ![i] = @ \cup {s}]
        /\ UNCHANGED <<list, source, incidents, given, scored, handled, passing, doubled,
                       missed>>
    BY <1>1, <1>2, <1>5 DEF Lists!RegisterDevice, ListTypes
  <2>2. \A j \in Items : rows[j] \in Nat /\ byHand[j] \in Nat
    BY <1>1 DEF ListTypes
  <2>3. rows' \in [Items -> Nat] /\ byHand' \in [Items -> Nat]
    BY <1>1, <2>1, <2>2 DEF ListTypes
  <2>4. ListTypes'
    <3>1. state' \in [Items -> Words] /\ ever' \in [Items -> SUBSET Words]
      BY <1>1, <2>1 DEF ListTypes
    <3> QED BY <1>1, <2>1, <2>3, <3>1 DEF ListTypes
  <2>5. \A j \in Items : ever[j] \subseteq ever'[j] /\ (state'[j] = state[j]
                                                       \/ state'[j] \in ever'[j])
    BY <1>1, <2>1 DEF ListTypes
  <2>6. SaidInv'
    BY <2>1, <2>5 DEF ListInv, SaidInv, SaidBefore
  <2>7. \A j \in Items : \E n \in {0, 1} : rows'[j] = rows[j] + n /\ byHand'[j] = byHand[j] + n
    BY <1>1, <2>1, <2>2 DEF ListTypes
  <2>8. RowInv'
    <3>1. \A j \in Items : ByHand(j) = byHand[j] /\ ByHand(j)' = byHand'[j]
      BY <2>1 DEF ByHand
    <3>2. ASSUME NEW j \in Items \ doubled
          PROVE  /\ rows'[j] <= 1 + ByHand(j)'
                 /\ \A h \in Requests : j \in passing[h].ins => rows'[j] <= ByHand(j)'
      <4>1. /\ rows[j] <= 1 + byHand[j]
            /\ \A h \in Requests : j \in passing[h].ins => rows[j] <= byHand[j]
        BY <3>1 DEF ListInv, RowInv
      <4> QED BY <2>2, <2>7, <3>1, <4>1
    <3>3. "twice" \in missed' => \E j \in Items : rows'[j] > 1
      BY <2>1, <2>2, <2>7 DEF ListInv, RowInv
    <3> QED BY <2>1, <3>2, <3>3 DEF ListInv, RowInv
  <2>9. WholeInv'
    <3>1. \A j \in Items : rows[j] > 0 => rows'[j] > 0
      BY <2>2, <2>7
    <3> QED BY <1>20, <2>1, <3>1
  <2> QED BY <2>1, <2>4, <2>6, <2>8, <2>9 DEF ListInv
<1>6. ASSUME NEW i \in Items, Lists!CreateEvent(i) PROVE ListInv'
  <2>1. /\ list = "people" /\ byHand' = [byHand EXCEPT ![i] = 1]
        /\ UNCHANGED <<list, source, rows, state, incidents, given, scored, handled,
                       passing, ever, doubled, missed>>
    BY <1>6 DEF Lists!CreateEvent
  <2>2. ListTypes'
    BY <1>1, <2>1 DEF ListTypes
  <2> QED BY <1>20, <2>1, <2>2 DEF ListInv, SaidInv, SaidBefore, RowInv, ByHand
<1>7. ASSUME NEW i \in Items, Lists!Review(i) \/ Lists!Acknowledge(i) PROVE ListInv'
  <2>1. UNCHANGED <<list, source, rows, byHand, state, incidents, given, scored, passing,
                    ever, doubled, missed>>
    BY <1>7 DEF Lists!Review, Lists!Acknowledge
  <2> QED BY <1>20, <2>1 DEF ListInv, ListTypes, SaidInv, SaidBefore, RowInv, ByHand,
             VendorInv
<1>8. ASSUME NEW i \in Items, Lists!Rescore(i) PROVE ListInv'
  <2>1. /\ list = "vendors" /\ scored' = [scored EXCEPT ![i] = incidents[i]]
        /\ UNCHANGED <<list, source, rows, state, incidents, given, byHand, handled,
                       passing, ever, doubled, missed>>
    BY <1>8 DEF Lists!Rescore
  <2>2. ListTypes'
    BY <1>1, <2>1 DEF ListTypes
  <2>3. \A j \in Items : scored'[j] = scored[j] \/ scored'[j] = incidents[j]
    BY <1>1, <2>1 DEF ListTypes
  <2>4. \A j \in Items : incidents[j] \in Nat
    BY <1>1 DEF ListTypes
  <2>5. VendorInv'
    BY <2>1, <2>3, <2>4 DEF ListInv, VendorInv
  <2> QED BY <1>20, <2>1, <2>2, <2>5 DEF ListInv, SaidInv, SaidBefore, RowInv, ByHand
<1> DEFINE Here == <<list, source, rows, byHand, state, incidents, given, scored, ever>>
<1>9. ASSUME NEW h \in Requests, NEW r \in Passes, Lists!Set(h, r), UNCHANGED Here,
             r.fetched = passing[h].fetched, r.counts = passing[h].counts,
             r.ins \subseteq passing[h].ins,
             r.upd \subseteq passing[h].upd
                \cup {i \in Items : passing[h].fetched[i] # "absent"},
             UNCHANGED doubled, missed \subseteq missed', MissedOK,
             missed' \subseteq {"page"} => Covered(r)
      PROVE  ListInv'
  <2>1. /\ SaidBefore(r.fetched)
        /\ \A i \in r.ins \cup r.upd : r.fetched[i] # "absent"
    BY <1>9 DEF ListInv, SaidInv
  <2>2. \A i \in r.ins \ doubled : /\ rows[i] <= ByHand(i)
                                   /\ \A g \in Requests \ {h} : i \notin passing[g].ins
    <3>1. \A i \in r.ins : i \in Items
      BY <1>9 DEF Passes
    <3> QED BY <1>9, <3>1 DEF ListInv, RowInv
  <2>3. list = "vendors" => \A i \in Items : CountOK(r, i)
    BY <1>9 DEF ListInv, VendorInv, CountOK
  <2>4. passing' = [passing EXCEPT ![h] = r]
    BY <1>9 DEF Lists!Set
  <2>5. doubled \subseteq doubled' /\ doubled' \subseteq Items
    BY <1>1, <1>9 DEF ListTypes
  <2>6. \A i \in r.ins \ doubled' : /\ rows[i] <= ByHand(i)
                                    /\ \A g \in Requests \ {h} : i \notin passing[g].ins
    BY <1>9, <2>2
  <2> QED BY <1>9, <2>1, <2>3, <2>4, <2>5, <2>6, PassMoves
<1>10. ASSUME NEW h \in Requests, Lists!Set(h, Lists!Resting), UNCHANGED Here,
              UNCHANGED doubled, missed \subseteq missed', MissedOK
       PROVE  ListInv'
  <2>1. Lists!Resting \in Passes /\ Lists!Resting.ins = {} /\ Lists!Resting.upd = {}
    BY RestingPass
  <2>2. \A i \in Items : Lists!Resting.fetched[i] = "absent"
    BY RestingPass
  <2>3. SaidBefore(Lists!Resting.fetched)
    BY <2>2 DEF SaidBefore
  <2>4. list = "vendors" => \A i \in Items : CountOK(Lists!Resting, i)
    BY <2>1, <2>2 DEF CountOK
  <2>5. passing' = [passing EXCEPT ![h] = Lists!Resting]
    BY <1>10 DEF Lists!Set
  <2>6. doubled \subseteq doubled' /\ doubled' \subseteq Items
    BY <1>1, <1>10 DEF ListTypes
  <2> QED BY <1>10, <2>1, <2>2, <2>3, <2>4, <2>5, <2>6, PassMoves, RestingCovers
<1>11. \A h \in Requests : passing[h] \in Passes
  BY <1>1 DEF ListTypes
<1>22. \A i \in Items : i \in Nat
  BY GovernanceAssumption DEF Items, Lists!Items
<1>23. ASSUME NEW h \in Requests, passing[h].at \in Items, NEW r \in Passes,
              r.at = passing[h].at + 1, r.fetched = passing[h].fetched,
              passing[h].ins \subseteq r.ins,
              \/ r.fetched[passing[h].at] = "absent" \/ rows[passing[h].at] > 0
              \/ passing[h].at \in r.ins
       PROVE  missed \subseteq {"page"} => Covered(r)
  <2>1. \A i \in Items : i < r.at => i < passing[h].at \/ i = passing[h].at
    BY <1>22, <1>23
  <2> QED BY <1>23, <2>1 DEF ListInv, WholeInv, Covered
<1>12. ASSUME NEW h \in Requests, Lists!Skip(h), UNCHANGED Here, UNCHANGED <<doubled, missed>>,
              passing[h].at \in Items,
              passing[h].fetched[passing[h].at] = "absent" \/ rows[passing[h].at] > 0
       PROVE  ListInv'
  <2> DEFINE r == [passing[h] EXCEPT !.at = @ + 1]
  <2>1. /\ r \in Passes /\ r.fetched = passing[h].fetched /\ r.counts = passing[h].counts
        /\ r.ins = passing[h].ins /\ r.upd = passing[h].upd /\ r.at = passing[h].at + 1
    BY <1>11 DEF Passes
  <2>2. Lists!Set(h, r)
    BY <1>12 DEF Lists!Skip
  <2> HIDE DEF r
  <2>3. missed \subseteq {"page"} => Covered(r)
    BY <1>12, <1>23, <2>1
  <2>4. MissedOK
    BY <1>12 DEF MissedOK
  <2> QED BY <1>9, <1>12, <2>1, <2>2, <2>3, <2>4
<1>13. ASSUME NEW h \in Requests, passing[h].at \in Items, rows[passing[h].at] = 0,
              passing[h].fetched[passing[h].at] # "absent",
              Lists!Insert(h), UNCHANGED Here, UNCHANGED missed
       PROVE  ListInv'
  <2> DEFINE i == passing[h].at
             r == [passing[h] EXCEPT !.at = @ + 1, !.ins = @ \cup {i}]
  <2>1. /\ passing' = [passing EXCEPT ![h] = r]
        /\ doubled' = IF \E g \in Requests \ {h} : i \in passing[g].ins
                        THEN doubled \cup {i} ELSE doubled
    BY <1>13 DEF Lists!Insert, Lists!Set, Lists!Item
  <2>2. /\ r \in Passes /\ r.fetched = passing[h].fetched /\ r.counts = passing[h].counts
        /\ r.ins = passing[h].ins \cup {i} /\ r.upd = passing[h].upd
        /\ r.at = passing[h].at + 1
    <3>1. /\ passing[h] \in Passes /\ passing[h].at + 1 \in Nat
          /\ passing[h].ins \cup {i} \in SUBSET Items
      BY <1>11, <1>13 DEF Passes
    <3> HIDE DEF i
    <3> QED BY <3>1 DEF Passes
  <2> HIDE DEF r
  <2>3. \A j \in r.ins : j \in Items
    BY <2>2 DEF Passes
  <2>4. SaidBefore(r.fetched) /\ \A j \in r.ins \cup r.upd : r.fetched[j] # "absent"
    BY <1>13, <2>2 DEF ListInv, SaidInv
  <2>5. doubled \subseteq doubled' /\ doubled' \subseteq Items
    BY <1>1, <1>13, <2>1 DEF ListTypes
  <2>6. ByHand(i) \in Nat
    BY <1>1, <1>13 DEF ByHand, ListTypes
  <2>7. \A j \in r.ins \ doubled' : /\ rows[j] <= ByHand(j)
                                    /\ \A g \in Requests \ {h} : j \notin passing[g].ins
    BY <1>13, <2>1, <2>2, <2>3, <2>6 DEF ListInv, RowInv
  <2>8. \A j \in Items : r.counts[j] \in Nat /\ given[j] \in Nat
    BY <1>1, <1>11, <2>2 DEF ListTypes, Passes
  <2>9. list = "vendors" => \A j \in Items : CountOK(r, j)
    BY <1>13, <2>2, <2>8 DEF ListInv, VendorInv, CountOK
  <2>10. missed \subseteq {"page"} => Covered(r)
    BY <1>13, <1>23, <2>2
  <2>11. MissedOK
    BY <1>13 DEF MissedOK
  <2> HIDE DEF i
  <2> QED BY <1>13, <2>1, <2>2, <2>4, <2>5, <2>7, <2>9, <2>10, <2>11, PassMoves
<1>14. ASSUME NEW h \in Requests, NEW page \in SUBSET Lists!Listed,
              Lists!BeginPass(h, page)
       PROVE  ListInv'
  <2> DEFINE f == [i \in Items |-> IF i \in page THEN source[i] ELSE "absent"]
             r == [Lists!Resting EXCEPT !.at = 1, !.counts = incidents, !.fetched = f]
  <2>1. /\ passing' = [passing EXCEPT ![h] = r] /\ UNCHANGED Here /\ UNCHANGED doubled
        /\ missed \subseteq missed' /\ MissedOK
    BY <1>14 DEF Lists!BeginPass, Lists!Set, Lists!tableVars, Items, MissedOK
  <2>2. /\ f \in [Items -> Words] /\ incidents \in [Items -> Nat]
        /\ \A j \in Items : f[j] = source[j] \/ f[j] = "absent"
    BY <1>1 DEF ListTypes, Words
  <2> HIDE DEF f
  <2>3. /\ r \in Passes /\ r.fetched = f /\ r.counts = incidents /\ r.at = 1
        /\ r.ins = {} /\ r.upd = {}
    BY <2>2, RestingPass DEF Passes
  <2> HIDE DEF r
  <2>4. SaidBefore(r.fetched)
    BY <2>2, <2>3 DEF ListInv, SaidInv, SaidBefore
  <2>5. list = "vendors" => \A j \in Items : CountOK(r, j)
    BY <2>2, <2>3 DEF ListInv, VendorInv, CountOK
  <2>6. doubled \subseteq doubled' /\ doubled' \subseteq Items
    BY <1>1, <2>1 DEF ListTypes
  <2>7. Covered(r)
    <3>1. \A j \in Items : ~ (j < 1)
      BY GovernanceAssumption DEF Items, Lists!Items
    <3> QED BY <2>3, <3>1 DEF Covered
  <2> QED BY <2>1, <2>3, <2>4, <2>5, <2>6, <2>7, PassMoves
<1>15. ASSUME NEW h \in Requests, Lists!AbortPass(h) PROVE ListInv'
  BY <1>10, <1>15 DEF Lists!AbortPass, Lists!tableVars, MissedOK
<1>16. \A i \in Items : rows[i] \in Nat
  BY <1>1 DEF ListTypes
<1>17. ASSUME NEW h \in Requests, Lists!SyncPerson(h) PROVE ListInv'
  <2>1. passing[h].at \in Items /\ UNCHANGED Here /\ UNCHANGED missed
    BY <1>17 DEF Lists!SyncPerson, Lists!OnItem, Lists!Item, Lists!tableVars, Items
  <2>2. \/ /\ Lists!Skip(h) /\ UNCHANGED doubled
           /\ passing[h].fetched[passing[h].at] = "absent" \/ rows[passing[h].at] > 0
        \/ /\ passing[h].fetched[passing[h].at] # "absent"
           /\ rows[passing[h].at] = 0 /\ Lists!Insert(h)
    BY <1>16, <1>17, <2>1 DEF Lists!SyncPerson, Lists!Item
  <2> QED BY <1>12, <1>13, <2>1, <2>2
<1>18. ASSUME NEW h \in Requests, Lists!ScanVendor(h) PROVE ListInv'
  <2>1. passing[h].at \in Items /\ UNCHANGED Here
    BY <1>18 DEF Lists!ScanVendor, Lists!OnItem, Lists!Item, Lists!tableVars, Items
  <2>2. \/ /\ Lists!Skip(h) /\ UNCHANGED <<doubled, missed>>
           /\ passing[h].fetched[passing[h].at] = "absent" \/ rows[passing[h].at] > 0
        \/ /\ passing[h].fetched[passing[h].at] # "absent"
           /\ rows[passing[h].at] = 0 /\ Lists!Insert(h) /\ UNCHANGED missed
        \/ /\ rows[passing[h].at] > 1 /\ missed' = missed \cup {"twice"}
           /\ Lists!Set(h, Lists!Resting) /\ UNCHANGED doubled
    <3> DEFINE i == passing[h].at
    <3>1. rows[i] \in Nat /\ (rows[i] = 0 \/ rows[i] = 1 \/ rows[i] > 1)
      BY <1>16, <2>1
    <3>2. CASE passing[h].fetched[i] = "absent" \/ rows[i] = 1
      <4>1. /\ passing[h].fetched[i] = "absent" \/ rows[i] > 0
            /\ ~ (passing[h].fetched[i] # "absent" /\ rows[i] = 0)
            /\ ~ (passing[h].fetched[i] # "absent" /\ rows[i] > 1)
        BY <3>2
      <4>2. Lists!Skip(h) /\ UNCHANGED <<doubled, missed>>
        BY <1>18, <3>2, <4>1 DEF Lists!ScanVendor, Lists!Item
      <4> QED BY <1>18, <4>1, <4>2 DEF Lists!ScanVendor
    <3>3. CASE passing[h].fetched[i] # "absent" /\ rows[i] = 0
      BY <1>18, <3>3 DEF Lists!ScanVendor, Lists!Item
    <3>4. CASE passing[h].fetched[i] # "absent" /\ rows[i] > 1
      <4>1. rows[i] # 0 /\ rows[i] # 1
        BY <3>1, <3>4
      <4>2. /\ Lists!Set(h, Lists!Resting) /\ missed' = missed \cup {"twice"}
            /\ UNCHANGED doubled
        BY <1>18, <3>4, <4>1 DEF Lists!ScanVendor, Lists!Item
      <4> QED BY <3>4, <4>2
    <3> QED BY <3>1, <3>2, <3>3, <3>4
  <2>3. ASSUME rows[passing[h].at] > 1, missed' = missed \cup {"twice"} PROVE MissedOK
    BY <2>1, <2>3 DEF MissedOK
  <2> QED BY <1>10, <1>12, <1>13, <2>1, <2>2, <2>3
<1>24. ASSUME NEW h \in Requests, NEW cause \in {"twice", "failed"},
              Lists!LeaveRest(h, cause), UNCHANGED Here, UNCHANGED doubled, MissedOK
       PROVE  ListInv'
  <2> DEFINE e == [passing[h] EXCEPT !.at = Last + 1]
  <2>1. Lists!Set(h, e) /\ missed \subseteq missed' /\ ~ (missed' \subseteq {"page"})
    BY <1>24 DEF Lists!LeaveRest
  <2>2. Last + 1 \in Nat
    BY GovernanceAssumption
  <2>3. /\ e \in Passes /\ e.fetched = passing[h].fetched
        /\ e.counts = passing[h].counts /\ e.ins = passing[h].ins
        /\ e.upd = passing[h].upd
    BY <1>11, <2>2 DEF Passes
  <2> HIDE DEF e
  <2> QED BY <1>9, <1>24, <2>1, <2>3
<1>19. ASSUME NEW h \in Requests, Lists!SyncDevice(h) PROVE ListInv'
  <2> DEFINE i == passing[h].at
             u == [passing[h] EXCEPT !.at = @ + 1,
                     !.upd = IF passing[h].fetched[i] # state[i] THEN @ \cup {i} ELSE @]
  <2>1. i \in Items /\ UNCHANGED Here
    BY <1>19 DEF Lists!SyncDevice, Lists!OnItem, Lists!Item, Lists!tableVars, Items
  <2>2. \/ /\ passing[h].fetched[i] = "absent"
           /\ Lists!Skip(h) /\ UNCHANGED <<doubled, missed>>
        \/ /\ passing[h].fetched[i] # "absent" /\ rows[i] = 0
           /\ Lists!Insert(h) /\ UNCHANGED missed
        \/ /\ passing[h].fetched[i] # "absent" /\ rows[i] = 1
           /\ Lists!Set(h, u) /\ UNCHANGED <<doubled, missed>>
        \/ rows[i] > 1 /\ Lists!LeaveRest(h, "twice") /\ UNCHANGED doubled
    <3>1. rows[i] \in Nat /\ (rows[i] = 0 \/ rows[i] = 1 \/ rows[i] > 1)
      BY <1>16, <2>1
    <3>2. CASE passing[h].fetched[i] = "absent"
      BY <1>19, <3>2 DEF Lists!SyncDevice, Lists!Item
    <3>3. CASE passing[h].fetched[i] # "absent" /\ rows[i] = 0
      BY <1>19, <3>3 DEF Lists!SyncDevice, Lists!Item
    <3>4. CASE passing[h].fetched[i] # "absent" /\ rows[i] = 1
      BY <1>19, <3>4 DEF Lists!SyncDevice, Lists!Item
    <3>5. CASE passing[h].fetched[i] # "absent" /\ rows[i] > 1
      BY <1>19, <3>1, <3>5 DEF Lists!SyncDevice, Lists!Item
    <3> QED BY <3>1, <3>2, <3>3, <3>4, <3>5
  <2>3. ASSUME passing[h].fetched[i] # "absent", rows[i] = 1, Lists!Set(h, u),
               UNCHANGED <<doubled, missed>>
        PROVE  ListInv'
    <3>1. /\ u \in Passes /\ u.fetched = passing[h].fetched
          /\ u.counts = passing[h].counts /\ u.ins = passing[h].ins
          /\ u.upd \subseteq passing[h].upd \cup {i} /\ u.at = passing[h].at + 1
      <4> DEFINE new == IF passing[h].fetched[i] # state[i]
                          THEN passing[h].upd \cup {i} ELSE passing[h].upd
      <4>1. /\ passing[h] \in Passes /\ passing[h].at + 1 \in Nat
            /\ new \in SUBSET Items /\ new \subseteq passing[h].upd \cup {i}
        BY <1>11, <2>1 DEF Passes
      <4>2. u = [passing[h] EXCEPT !.at = passing[h].at + 1, !.upd = new]
        BY <1>11 DEF Passes
      <4> HIDE DEF new, u
      <4> QED BY <4>1, <4>2 DEF Passes
    <3> HIDE DEF u
    <3>2. missed \subseteq {"page"} => Covered(u)
      BY <1>23, <2>1, <2>3, <3>1
    <3>3. MissedOK
      BY <2>3 DEF MissedOK
    <3> QED BY <1>9, <2>1, <2>3, <3>1, <3>2, <3>3
  <2>4. ASSUME rows[i] > 1, Lists!LeaveRest(h, "twice"), UNCHANGED doubled PROVE ListInv'
    <3>1. MissedOK
      BY <2>1, <2>4 DEF Lists!LeaveRest, MissedOK
    <3> HIDE DEF i
    <3> QED BY <1>24, <2>1, <2>4, <3>1
  <2> QED BY <1>12, <1>13, <2>1, <2>2, <2>3, <2>4
<1>25. ASSUME NEW h \in Requests, Lists!FailPass(h) PROVE ListInv'
  <2>1. Lists!LeaveRest(h, "failed") /\ UNCHANGED Here /\ UNCHANGED doubled
    BY <1>25 DEF Lists!FailPass, Lists!tableVars
  <2>2. MissedOK
    BY <2>1 DEF Lists!LeaveRest, MissedOK
  <2> QED BY <1>24, <2>1, <2>2
<1> QED BY <1>3, <1>4, <1>5, <1>6, <1>7, <1>8, <1>14, <1>15, <1>17, <1>18, <1>19,
           <1>21, <1>25, PassCommits, 0..MaxGiven \subseteq Nat
        DEF Lists!RosterNext, Items

(* ListsKept: the platform's lists say what the other side said, once;     *)
(* defaults are seeded once; a server that serves has its schema, and one  *)
(* that does not start has a reason.                                       *)
THEOREM ListsAreKept == GovernanceSpec => []ListsKept
<1>1. GovernanceInit => ListInv /\ SeedInv /\ ServerInv
  BY ListInitially, SeedInitially, ServerInitially
<1>2. ListInv /\ SeedInv /\ ServerInv /\ [GovernanceNext]_governanceVars
        => (ListInv /\ SeedInv /\ ServerInv)'
  BY ListStep, ListsMove, SeedStep, SeedsMove, ServerStep, ServersMove
<1>3. ListInv => Lists!RosterKept
  <2> SUFFICES ASSUME ListInv PROVE Lists!RosterKept
    OBVIOUS
  <2>1. ASSUME NEW i \in Items
        PROVE  /\ rows[i] > 1 + (IF list = "devices" THEN byHand[i] ELSE 0)
                    => i \in doubled
               /\ state[i] # "absent" => state[i] \in ever[i]
               /\ list = "vendors" => /\ scored[i] <= incidents[i]
                                      /\ incidents[i] <= given[i] + rows[i]
                                      /\ incidents[i] < given[i] + rows[i] => i \in doubled
    <3>1. /\ rows[i] \in Nat /\ byHand[i] \in Nat /\ incidents[i] \in Nat
          /\ given[i] \in Nat /\ scored[i] \in Nat
      BY DEF ListInv, ListTypes
    <3>2. rows[i] > 1 + (IF list = "devices" THEN byHand[i] ELSE 0) => i \in doubled
      BY <3>1 DEF ListInv, RowInv, ByHand
    <3>3. state[i] # "absent" => state[i] \in ever[i]
      BY DEF ListInv, SaidInv, SaidBefore
    <3>4. list = "vendors" => /\ scored[i] <= incidents[i]
                              /\ incidents[i] <= given[i] + rows[i]
                              /\ incidents[i] < given[i] + rows[i] => i \in doubled
      BY <3>1 DEF ListInv, VendorInv
    <3> QED BY <3>2, <3>3, <3>4
  <2>2. "twice" \in missed => \E i \in Items : rows[i] > 1
    BY DEF ListInv, RowInv
  <2>3. ASSUME missed \subseteq {"page"}, NEW h \in Requests, passing[h].at = Last + 1,
               NEW i \in Items, passing[h].fetched[i] # "absent"
        PROVE  rows[i] > 0 \/ i \in passing[h].ins
    <3>1. i < passing[h].at
      BY <2>3, GovernanceAssumption DEF Items, Lists!Items
    <3> QED BY <2>3, <3>1 DEF ListInv, WholeInv, Covered
  <2>4. "page" \in missed => Lists!Clipped
    BY DEF ListInv, WholeInv
  <2> QED BY <2>1, <2>2, <2>3, <2>4 DEF Lists!RosterKept, Items
<1>4. SeedInv => Seeding!SeededOnce
  <2> SUFFICES ASSUME SeedInv PROVE Seeding!SeededOnce
    OBVIOUS
  <2>1. copies > 1 => raced
    BY DEF SeedInv
  <2>2. refused => raced
    BY DEF SeedInv
  <2> QED BY <2>1, <2>2 DEF SeedInv, Seeding!SeededOnce
<1>5. ServerInv => Starting!SchemaKept
  <2> SUFFICES ASSUME ServerInv, NEW p \in Servers, server[p].at = "up"
               PROVE  /\ tables
                      /\ (IF sqlite THEN Ensured ELSE Migrated) \subseteq columns
                      /\ columns # SchemaColumns =>
                           refusing \/ (alembic /\ SchemaColumns \ columns \subseteq older)
    BY DEF Starting!SchemaKept, Starting!At
  <2>1. /\ alembic => revision = "head"
        /\ ~alembic => tables /\ (refusing \/ columns = SchemaColumns)
        /\ sqlite => Ensured \subseteq columns
    BY DEF ServerInv, PlaceInv, PlaceOK, AlembicPlace, PlainPlace
  <2>2. /\ revision = "head" => tables /\ Migrated \subseteq columns
        /\ revision = "head" => SchemaColumns \ columns \subseteq older
    BY DEF ServerInv, VersionInv
  <2>3. ~sqlite => alembic
    BY DEF ServerInv, ServerTypes
  <2>4. alembic \in BOOLEAN
    BY DEF ServerInv, ServerTypes
  <2> QED BY <2>1, <2>2, <2>3, <2>4
<1>6. ServerInv => Starting!FailureExplained
  BY DEF ServerInv, LoneInv, Starting!FailureExplained
<1> QED BY <1>1, <1>2, <1>3, <1>4, <1>5, <1>6, PTL DEF GovernanceSpec, ListsKept

-----------------------------------------------------------------------------
(* Tickets of tasks                                                        *)

Ticketed == [task: Tasks, key: Nat]
TicketRequests ==
    [op: {"idle", "create", "sync", "pull"}, todo: SUBSET Tasks, got: SUBSET Ticketed,
     ask: SUBSET Nat, seen: SUBSET Nat]

TicketTypes ==
    /\ tasks \in [Tasks -> [status: {"absent", "open", "completed"}, ticket: Nat]]
    /\ records \subseteq Ticketed /\ keys \in Nat
    /\ ticketing \in [Requests -> TicketRequests]

(* A key is given out once: to a record, or to a request that has not      *)
(* committed it yet.                                                       *)
KeyInv ==
    /\ \A x \in records : x.key \in 1..keys
    /\ \A x, y \in records : x.key = y.key => x = y
    /\ \A h \in Requests : \A x \in ticketing[h].got :
         /\ x.key \in 1..keys
         /\ \A y \in records : x.key # y.key
    /\ \A g, h \in Requests : \A x \in ticketing[g].got, y \in ticketing[h].got :
         x.key = y.key => g = h /\ x = y

(* A request opens one ticket for each of its tasks, and has seen closed   *)
(* only those that are done.                                               *)
RequestOK(r, done) ==
    /\ r.op \notin {"create", "sync"} => r.got = {}
    /\ \A x \in r.got : x.task \notin r.todo
    /\ \A x, y \in r.got : x.task = y.task => x = y
    /\ r.seen \subseteq done

(* The tasks a request r has in hand.                                      *)
Hand(r) == IF r.op \in {"create", "sync"} THEN r.todo \cup {x.task : x \in r.got} ELSE {}

(* A task in hand has no record, and one request only has it, but for the  *)
(* tasks that were taken at once.                                          *)
HandInv ==
    /\ \A x, y \in records : x.task = y.task /\ x.task \notin contested => x = y
    /\ \A h \in Requests : \A t \in Hand(ticketing[h]) \ contested :
         /\ \A x \in records : x.task # t
         /\ \A g \in Requests : t \in Hand(ticketing[g]) => g = h

TaskInv ==
    /\ \A t \in Tasks : tasks[t].ticket # 0
                           => [task |-> t, key |-> tasks[t].ticket] \in records
    /\ \A x \in records : tasks[x.task].ticket # 0

OpenInv ==
    /\ \A k \in opened \ lost :
          \/ \E x \in records : x.key = k
          \/ \E h \in Requests : \E x \in ticketing[h].got : x.key = k
    /\ closedHere \subseteq closed

TicketInv ==
    /\ TicketTypes /\ KeyInv /\ HandInv /\ TaskInv /\ OpenInv
    /\ \A h \in Requests : RequestOK(ticketing[h], closed)

LEMMA RestingTicket ==
    /\ Ticketing!Resting \in TicketRequests /\ Ticketing!Resting.op = "idle"
    /\ Ticketing!Resting.got = {} /\ Ticketing!Resting.seen = {}
    /\ Ticketing!Resting.todo = {}
BY DEF Ticketing!Resting, TicketRequests

LEMMA TicketInitially == GovernanceInit => TicketInv
<1> SUFFICES ASSUME GovernanceInit PROVE TicketInv
  OBVIOUS
<1>1. /\ tasks = [t \in Tasks |-> Ticketing!Absent] /\ records = {} /\ closedHere = {}
      /\ ticketing = [h \in Requests |-> Ticketing!Resting] /\ keys = 0 /\ opened = {}
  BY DEF GovernanceInit, Ticketing!TicketsInit
<1>2. Ticketing!Absent \in [status: {"absent", "open", "completed"}, ticket: Nat]
      /\ Ticketing!Absent.ticket = 0
  BY DEF Ticketing!Absent, Ticketing!None
<1>3. TicketTypes
  BY <1>1, <1>2, RestingTicket DEF TicketTypes
<1>4. KeyInv /\ OpenInv
  BY <1>1, RestingTicket DEF KeyInv, OpenInv
<1>5. HandInv
  BY <1>1, RestingTicket DEF HandInv, Hand
<1>6. TaskInv
  BY <1>1, <1>2 DEF TaskInv
<1>7. \A h \in Requests : RequestOK(ticketing[h], closed)
  BY <1>1, RestingTicket DEF RequestOK
<1> QED BY <1>3, <1>4, <1>5, <1>6, <1>7 DEF TicketInv

(* A request that has no ticket in hand, before and after.                 *)
LEMMA TicketsEmpty ==
    ASSUME TicketInv, NEW h \in Requests, NEW r \in TicketRequests,
           ticketing' = [ticketing EXCEPT ![h] = r], RequestOK(r, closed),
           ticketing[h].got = {}, r.got = {},
           UNCHANGED <<tasks, records, keys, opened, closed, lost>>,
           closedHere' \subseteq closed, contested \subseteq contested',
           \A t \in Hand(r) \ contested' :
              /\ \A x \in records : x.task # t
              /\ \A g \in Requests \ {h} : t \notin Hand(ticketing[g])
    PROVE  TicketInv'
<1>1. /\ ticketing'[h] = r /\ \A g \in Requests \ {h} : ticketing'[g] = ticketing[g]
      /\ TicketTypes'
  BY DEF TicketInv, TicketTypes
<1>2. \A g \in Requests : ticketing'[g].got = ticketing[g].got
  BY <1>1
<1>3. KeyInv'
  BY <1>2 DEF TicketInv, KeyInv
<1>4. TaskInv'
  BY DEF TicketInv, TaskInv
<1>5. OpenInv'
  BY <1>2 DEF TicketInv, OpenInv
<1>6. HandInv'
  BY <1>1 DEF TicketInv, HandInv
<1>7. \A g \in Requests : RequestOK(ticketing'[g], closed')
  BY <1>1 DEF TicketInv, RequestOK
<1> QED BY <1>1, <1>3, <1>4, <1>5, <1>6, <1>7 DEF TicketInv

(* The record of a request after its ticket for t, and after an answer.    *)
WithTicket(q, t, k) ==
    [q EXCEPT !.todo = @ \ {t}, !.got = @ \cup {[task |-> t, key |-> k]}]
WithAnswer(q, k) == [q EXCEPT !.ask = @ \ {k}, !.seen = @ \cup {k}]

(* A request gets a key that was not given out for one of its tasks.       *)
LEMMA TicketsOpened ==
    ASSUME TicketInv, NEW h \in Requests, ticketing[h].op \in {"create", "sync"},
           NEW t \in ticketing[h].todo, NEW k \in Nat, k > keys, keys' = k,
           ticketing' = [ticketing EXCEPT ![h] = WithTicket(ticketing[h], t, k)],
           opened' \ lost' \subseteq (opened \ lost) \cup {k},
           UNCHANGED <<tasks, records, closedHere, closed, contested>>
    PROVE  TicketInv'
<1> DEFINE q == ticketing[h]  r == ticketing'[h]  new == [task |-> t, key |-> k]
<1>1. q \in TicketRequests /\ keys \in Nat /\ t \in Tasks
  BY DEF TicketInv, TicketTypes, TicketRequests
<1>2. /\ r.op = q.op /\ r.todo = q.todo \ {t} /\ r.got = q.got \cup {new}
      /\ r.seen = q.seen /\ r.ask = q.ask
      /\ r = [q EXCEPT !.todo = @ \ {t}, !.got = @ \cup {new}]
  BY <1>1 DEF TicketInv, TicketTypes, TicketRequests, WithTicket
<1>3. new \in Ticketed /\ new.task = t /\ new.key = k
  BY <1>1 DEF Ticketed
<1>4. r \in TicketRequests
  BY <1>1, <1>2, <1>3 DEF TicketRequests
<1>5. \A g \in Requests \ {h} : ticketing'[g] = ticketing[g]
  BY DEF TicketInv, TicketTypes
<1>6. TicketTypes'
  BY <1>4 DEF TicketInv, TicketTypes
<1>7. Hand(r) = Hand(q)
  BY <1>2, <1>3 DEF Hand
<1> HIDE DEF new, r, q
<1>8. /\ ticketing[h] = q /\ ticketing'[h] = r
      /\ \A g \in Requests : \A x \in ticketing'[g].got :
            x \in ticketing[g].got \/ (g = h /\ x = new)
      /\ \A g \in Requests : ticketing[g].got \subseteq ticketing'[g].got
  BY <1>2, <1>5 DEF q, r
<1>9. /\ \A x \in records : x.key \in 1..keys
      /\ \A g \in Requests : \A y \in ticketing[g].got : y.key \in 1..keys
  BY DEF TicketInv, KeyInv
<1>10. /\ \A x \in records : x.key # k /\ x.key \in 1..k
       /\ \A g \in Requests : \A y \in ticketing[g].got : y.key # k /\ y.key \in 1..k
       /\ k \in 1..k
  <2>1. \A n \in 1..keys : n # k /\ n \in 1..k
    BY <1>1
  <2>2. k \in 1..k
    BY <1>1
  <2>3. \A x \in records : x.key # k /\ x.key \in 1..k
    BY <1>9, <2>1
  <2>4. \A g \in Requests : \A y \in ticketing[g].got : y.key # k /\ y.key \in 1..k
    BY <1>9, <2>1
  <2> QED BY <2>2, <2>3, <2>4
<1>11. KeyInv'
  <2>1. \A x, y \in records' : x.key = y.key => x = y
    BY DEF TicketInv, KeyInv
  <2>2. \A x \in records' : x.key \in 1..keys'
    BY <1>10
  <2>3. \A g \in Requests : \A x \in ticketing'[g].got :
           x.key \in 1..keys' /\ \A y \in records' : x.key # y.key
    BY <1>3, <1>8, <1>10 DEF TicketInv, KeyInv
  <2>4. \A f, g \in Requests : \A x \in ticketing'[f].got, y \in ticketing'[g].got :
           x.key = y.key => f = g /\ x = y
    BY <1>3, <1>8, <1>10 DEF TicketInv, KeyInv
  <2> QED BY <2>1, <2>2, <2>3, <2>4 DEF KeyInv
<1>12. HandInv'
  <2>1. \A g \in Requests : Hand(ticketing'[g]) = Hand(ticketing[g])
    BY <1>5, <1>7, <1>8
  <2> QED BY <2>1 DEF TicketInv, HandInv
<1>13. TaskInv'
  BY DEF TicketInv, TaskInv
<1>14. OpenInv'
  <2>1. new \in ticketing'[h].got
    BY <1>2, <1>8
  <2>2. \A m \in opened' \ lost' : m \in opened \ lost \/ m = k
    OBVIOUS
  <2> QED BY <2>1, <2>2, <1>3, <1>8 DEF TicketInv, OpenInv
<1>15. RequestOK(r, closed)
  <2>1. RequestOK(q, closed) /\ q.op \in {"create", "sync"} /\ t \in q.todo
    BY DEF TicketInv, q
  <2> QED BY <2>1, <1>2, <1>3 DEF RequestOK
<1>16. \A g \in Requests : RequestOK(ticketing'[g], closed')
  BY <1>5, <1>8, <1>15 DEF TicketInv
<1> QED BY <1>6, <1>11, <1>12, <1>13, <1>14, <1>16 DEF TicketInv

LEMMA TicketsCommitted ==
    ASSUME TicketInv, NEW h \in Requests, Ticketing!CommitTickets(h)
    PROVE  TicketInv'
<1> DEFINE q == ticketing[h]
           Mine(t) == CHOOSE x \in q.got : x.task = t
           Got(t) == \E x \in q.got : x.task = t
           newRow(t) == IF Got(t)
                       THEN [status |-> IF q.op = "create" THEN "open" ELSE tasks[t].status,
                             ticket |-> Mine(t).key]
                       ELSE tasks[t]
<1>1. /\ q \in TicketRequests /\ q.got \subseteq Ticketed /\ keys \in Nat
      /\ q.op \in {"create", "sync"} /\ RequestOK(q, closed)
  BY DEF TicketInv, TicketTypes, TicketRequests, Ticketing!CommitTickets
<1>2. /\ records' = records \cup q.got /\ tasks' = [t \in Tasks |-> newRow(t)]
      /\ ticketing' = [ticketing EXCEPT ![h] = Ticketing!Resting]
      /\ UNCHANGED <<closedHere, keys, opened, closed, lost, contested>>
  BY DEF Ticketing!CommitTickets, Ticketing!Set, Ticketing!providerVars
<1>3. \A t \in Tasks : Got(t) => /\ Mine(t) \in q.got /\ Mine(t).task = t
                                 /\ Mine(t) \in Ticketed
  BY <1>1
<1> HIDE DEF Mine
<1>4. \A t \in Tasks : Got(t) => /\ Mine(t) = [task |-> t, key |-> Mine(t).key]
                                 /\ Mine(t).key \in Nat
  BY <1>3 DEF Ticketed
<1>5. \A t \in Tasks :
         /\ newRow(t) \in [status: {"absent", "open", "completed"}, ticket: Nat]
         /\ newRow(t).ticket = IF Got(t) THEN Mine(t).key ELSE tasks[t].ticket
  <2> TAKE t \in Tasks
  <2>1. tasks[t] \in [status: {"absent", "open", "completed"}, ticket: Nat]
    BY DEF TicketInv, TicketTypes
  <2> QED BY <1>4, <2>1
<1> HIDE DEF newRow
<1>6. TicketTypes'
  <2>1. records' \subseteq Ticketed
    BY <1>1, <1>2 DEF TicketInv, TicketTypes
  <2>2. tasks' \in [Tasks -> [status: {"absent", "open", "completed"}, ticket: Nat]]
    BY <1>2, <1>5
  <2>3. ticketing' \in [Requests -> TicketRequests] /\ keys' \in Nat
    BY <1>1, <1>2, RestingTicket DEF TicketInv, TicketTypes
  <2> QED BY <2>1, <2>2, <2>3 DEF TicketTypes
<1>7. /\ ticketing'[h] = Ticketing!Resting
      /\ \A g \in Requests \ {h} : ticketing'[g] = ticketing[g]
      /\ \A g \in Requests : ticketing'[g].got = IF g = h THEN {} ELSE ticketing[g].got
  BY <1>2, RestingTicket DEF TicketInv, TicketTypes
<1>8. Hand(ticketing'[h]) = {} /\ \A x \in q.got : x.task \in Hand(q)
  BY <1>1, <1>7, RestingTicket DEF Hand
<1>9. q = ticketing[h]
  OBVIOUS
<1> HIDE DEF q
<1>10. KeyInv'
  <2>1. \A x, y \in records' : x.key = y.key => x = y
    BY <1>2, <1>9 DEF TicketInv, KeyInv
  <2>2. \A x \in records' : x.key \in 1..keys'
    BY <1>2, <1>9 DEF TicketInv, KeyInv
  <2>3. \A g \in Requests : \A x \in ticketing'[g].got :
           x.key \in 1..keys' /\ \A y \in records' : x.key # y.key
    <3> SUFFICES ASSUME NEW g \in Requests, NEW x \in ticketing'[g].got
                 PROVE  x.key \in 1..keys' /\ \A y \in records' : x.key # y.key
      OBVIOUS
    <3>1. g # h /\ x \in ticketing[g].got
      BY <1>7
    <3> QED BY <1>2, <1>9, <3>1 DEF TicketInv, KeyInv
  <2>4. \A f, g \in Requests : \A x \in ticketing'[f].got, y \in ticketing'[g].got :
           x.key = y.key => f = g /\ x = y
    BY <1>7 DEF TicketInv, KeyInv
  <2> QED BY <2>1, <2>2, <2>3, <2>4 DEF KeyInv
<1>11. HandInv'
  <2>1. \A x, y \in q.got : x.task = y.task => x = y
    BY <1>1 DEF RequestOK
  <2>2. \A x \in records', y \in records' :
           x.task = y.task /\ x.task \notin contested' => x = y
    BY <1>2, <1>8, <1>9, <2>1 DEF TicketInv, HandInv
  <2>3. \A g \in Requests : \A t \in Hand(ticketing'[g]) \ contested' :
           /\ \A x \in records' : x.task # t
           /\ \A f \in Requests : t \in Hand(ticketing'[f]) => f = g
    <3> SUFFICES ASSUME NEW g \in Requests, NEW t \in Hand(ticketing'[g]) \ contested'
                 PROVE  /\ \A x \in records' : x.task # t
                        /\ \A f \in Requests : t \in Hand(ticketing'[f]) => f = g
      OBVIOUS
    <3>1. g # h /\ t \in Hand(ticketing[g]) \ contested
      BY <1>2, <1>7, <1>8
    <3>2. /\ \A x \in records : x.task # t
          /\ \A f \in Requests : t \in Hand(ticketing[f]) => f = g
      BY <3>1 DEF TicketInv, HandInv
    <3> QED BY <1>2, <1>7, <1>8, <1>9, <3>1, <3>2
  <2> QED BY <2>2, <2>3 DEF HandInv
<1>12. TaskInv'
  <2>1. ASSUME NEW t \in Tasks, tasks'[t].ticket # 0
        PROVE  [task |-> t, key |-> tasks'[t].ticket] \in records'
    <3>1. CASE Got(t)
      BY <1>2, <1>3, <1>4, <1>5, <3>1
    <3>2. CASE ~Got(t)
      BY <1>2, <1>5, <2>1, <3>2 DEF TicketInv, TaskInv
    <3> QED BY <3>1, <3>2
  <2>2. ASSUME NEW x \in records' PROVE tasks'[x.task].ticket # 0
    <3>1. x.task \in Tasks
      BY <1>6, <2>2 DEF TicketTypes, Ticketed
    <3>2. tasks'[x.task].ticket = IF Got(x.task) THEN Mine(x.task).key
                                                  ELSE tasks[x.task].ticket
      BY <1>2, <1>5, <3>1
    <3>3. CASE Got(x.task)
      <4>1. Mine(x.task) \in q.got
        BY <1>3, <3>1, <3>3
      <4>2. Mine(x.task).key \in 1..keys
        BY <1>9, <4>1 DEF TicketInv, KeyInv
      <4> QED BY <1>1, <3>2, <3>3, <4>2
    <3>4. CASE ~Got(x.task)
      BY <1>2, <3>2, <3>4 DEF TicketInv, TaskInv
    <3> QED BY <3>3, <3>4
  <2> QED BY <2>1, <2>2 DEF TaskInv
<1>13. OpenInv'
  BY <1>2, <1>7, <1>9 DEF TicketInv, OpenInv
<1>14. \A g \in Requests : RequestOK(ticketing'[g], closed')
  BY <1>2, <1>7, RestingTicket DEF TicketInv, RequestOK
<1> QED BY <1>6, <1>10, <1>11, <1>12, <1>13, <1>14 DEF TicketInv

(* What a request that fails has opened is lost.                           *)
LEMMA TicketsAborted ==
    ASSUME TicketInv, NEW h \in Requests, Ticketing!Abort(h)
    PROVE  TicketInv'
<1> DEFINE q == ticketing[h]
<1>1. q \in TicketRequests /\ RequestOK(q, closed)
  BY DEF TicketInv, TicketTypes
<1>2. /\ ticketing' = [ticketing EXCEPT ![h] = Ticketing!Resting]
      /\ UNCHANGED <<tasks, records, closedHere, keys, opened, closed, contested>>
      /\ lost' = lost \cup IF q.op \in {"create", "sync"}
                             THEN {g.key : g \in q.got} \cap opened ELSE {}
  BY DEF Ticketing!Abort, Ticketing!Set, Ticketing!taskVars
<1>3. \A x \in q.got : x.key \in opened => x.key \in lost'
  BY <1>1, <1>2 DEF RequestOK
<1>4. lost \subseteq lost'
  BY <1>2
<1>5. /\ ticketing'[h] = Ticketing!Resting
      /\ \A g \in Requests \ {h} : ticketing'[g] = ticketing[g]
      /\ \A g \in Requests : ticketing'[g].got = IF g = h THEN {} ELSE ticketing[g].got
      /\ TicketTypes'
  BY <1>2, RestingTicket DEF TicketInv, TicketTypes
<1>6. Hand(ticketing'[h]) = {}
  BY <1>5, RestingTicket DEF Hand
<1>7. q = ticketing[h]
  OBVIOUS
<1> HIDE DEF q
<1>8. KeyInv'
  BY <1>2, <1>5 DEF TicketInv, KeyInv
<1>9. HandInv'
  BY <1>2, <1>5, <1>6 DEF TicketInv, HandInv
<1>10. TaskInv'
  BY <1>2 DEF TicketInv, TaskInv
<1>11. OpenInv'
  <2>1. closedHere' \subseteq closed'
    BY <1>2 DEF TicketInv, OpenInv
  <2>2. ASSUME NEW k \in opened' \ lost'
        PROVE  \/ \E x \in records' : x.key = k
               \/ \E g \in Requests : \E x \in ticketing'[g].got : x.key = k
    <3>1. k \in opened \ lost /\ \A x \in q.got : x.key # k
      BY <1>2, <1>3, <1>4
    <3>2. \/ \E x \in records : x.key = k
          \/ \E g \in Requests : \E x \in ticketing[g].got : x.key = k
      BY <3>1 DEF TicketInv, OpenInv
    <3> QED BY <1>2, <1>5, <1>7, <3>1, <3>2
  <2> QED BY <2>1, <2>2 DEF OpenInv
<1>12. \A g \in Requests : RequestOK(ticketing'[g], closed')
  BY <1>2, <1>5, RestingTicket DEF TicketInv, RequestOK
<1> QED BY <1>5, <1>8, <1>9, <1>10, <1>11, <1>12 DEF TicketInv

LEMMA HandIs == \A h \in Requests : Ticketing!InHand(h) = Hand(ticketing[h])
BY DEF Ticketing!InHand, Hand

(* A task that is written keeps its ticket.                                *)
LEMMA TaskWritten ==
    ASSUME TicketInv, NEW t \in Tasks, NEW status \in {"open", "completed"},
           tasks' = [tasks EXCEPT ![t].status = status],
           UNCHANGED <<records, closedHere, ticketing, keys, opened, closed, lost,
                       contested>>
    PROVE  TicketInv'
<1>1. /\ TicketTypes'
      /\ \A s \in Tasks : tasks'[s].ticket = tasks[s].ticket
  BY DEF TicketInv, TicketTypes
<1>2. TaskInv'
  <2>1. \A x \in records : x.task \in Tasks
    BY DEF TicketInv, TicketTypes, Ticketed
  <2> QED BY <1>1, <2>1 DEF TicketInv, TaskInv
<1>3. KeyInv' /\ HandInv' /\ OpenInv'
  BY DEF TicketInv, KeyInv, HandInv, OpenInv
<1>4. \A h \in Requests : RequestOK(ticketing'[h], closed')
  BY DEF TicketInv
<1> QED BY <1>1, <1>2, <1>3, <1>4 DEF TicketInv

(* A request takes tasks that have no ticket.                              *)
LEMMA TasksTaken ==
    ASSUME TicketInv, NEW h \in Requests, NEW op \in {"create", "sync"},
           NEW todo \in SUBSET Tasks, Ticketing!Enter(h, op, todo, {}),
           \A t \in todo : tasks[t].ticket = 0,
           UNCHANGED <<tasks, records, closedHere, keys, opened, closed, lost>>,
           contested' = contested \cup
              {t \in todo : \E g \in Requests \ {h} : t \in Hand(ticketing[g])}
    PROVE  TicketInv'
<1> DEFINE r == [Ticketing!Resting EXCEPT !.op = op, !.todo = todo, !.ask = {}]
<1>1. ticketing[h].op = "idle" /\ ticketing' = [ticketing EXCEPT ![h] = r]
  BY DEF Ticketing!Enter, Ticketing!Set
<1>2. /\ r \in TicketRequests /\ r.op = op /\ r.todo = todo /\ r.got = {}
      /\ r.seen = {}
  BY DEF Ticketing!Resting, TicketRequests
<1> HIDE DEF r
<1>3. ticketing[h].got = {} /\ RequestOK(r, closed) /\ Hand(r) = todo
  BY <1>1, <1>2 DEF TicketInv, RequestOK, Hand
<1>4. \A x \in records : x.task \notin todo
  BY DEF TicketInv, TaskInv
<1>5. closedHere' \subseteq closed /\ contested \subseteq contested'
  BY DEF TicketInv, OpenInv
<1>6. \A t \in Hand(r) \ contested' :
         /\ \A x \in records : x.task # t
         /\ \A g \in Requests \ {h} : t \notin Hand(ticketing[g])
  BY <1>3, <1>4
<1> QED BY <1>1, <1>2, <1>3, <1>5, <1>6, TicketsEmpty

(* A request that pulls the status of tickets.                             *)
LEMMA PullMoves ==
    ASSUME TicketInv, NEW h \in Requests, ticketing[h].op \in {"idle", "pull"},
           NEW r \in TicketRequests, ticketing' = [ticketing EXCEPT ![h] = r],
           r.op \in {"idle", "pull"}, r.got = {}, r.seen \subseteq closed,
           UNCHANGED <<tasks, records, keys, opened, closed, lost, contested>>,
           closedHere' \subseteq closed
    PROVE  TicketInv'
<1>1. ticketing[h].got = {} /\ RequestOK(r, closed) /\ Hand(r) = {}
  BY DEF TicketInv, RequestOK, Hand
<1> QED BY <1>1, TicketsEmpty

LEMMA TicketStep == TicketInv /\ [Ticketing!TicketsNext]_tickets => TicketInv'
<1> SUFFICES ASSUME TicketInv, [Ticketing!TicketsNext]_tickets PROVE TicketInv'
  OBVIOUS
<1> USE DEF Ticketing!taskVars, Ticketing!providerVars
<1>1. ASSUME UNCHANGED <<tasks, records, closedHere, ticketing, keys, opened, lost,
                         contested>>, closed \subseteq closed'
      PROVE  TicketInv'
  <2>1. TicketTypes' /\ KeyInv' /\ HandInv' /\ TaskInv' /\ OpenInv'
    BY <1>1 DEF TicketInv, TicketTypes, KeyInv, HandInv, TaskInv, OpenInv
  <2>2. \A h \in Requests : RequestOK(ticketing'[h], closed')
    BY <1>1 DEF TicketInv, RequestOK
  <2> QED BY <2>1, <2>2 DEF TicketInv
<1>2. CASE UNCHANGED tickets
  BY <1>1, <1>2 DEF tickets
<1>3. CASE Ticketing!SyncCmdb
  BY <1>1, <1>3 DEF Ticketing!SyncCmdb
<1>4. ASSUME NEW k, Ticketing!CloseTicket(k) PROVE TicketInv'
  BY <1>1, <1>4 DEF Ticketing!CloseTicket
<1>5. ASSUME NEW t \in Tasks, Ticketing!CreateFromGap(t) PROVE TicketInv'
  BY <1>5, TaskWritten DEF Ticketing!CreateFromGap
<1>6. ASSUME NEW t \in Tasks, Ticketing!UpdateTask(t) PROVE TicketInv'
  BY <1>6, TaskWritten DEF Ticketing!UpdateTask
<1>7. ASSUME NEW h \in Requests, NEW t \in Tasks, Ticketing!BeginCreate(h, t)
      PROVE  TicketInv'
  <2>1. tasks[t].ticket = 0 /\ \A g \in Requests : t \notin Hand(ticketing[g])
    BY <1>7, HandIs DEF Ticketing!BeginCreate, Ticketing!Absent, Ticketing!None
  <2>2. CASE provider = "none"
    BY <1>7, <2>2, TaskWritten DEF Ticketing!BeginCreate
  <2>3. CASE provider # "none"
    <3>1. /\ Ticketing!Enter(h, "create", {t}, {})
          /\ UNCHANGED <<tasks, records, closedHere, keys, opened, closed, lost,
                         contested>>
      BY <1>7, <2>3 DEF Ticketing!BeginCreate
    <3>2. contested' = contested \cup
             {s \in {t} : \E g \in Requests \ {h} : s \in Hand(ticketing[g])}
      BY <2>1, <3>1
    <3>3. {t} \in SUBSET Tasks /\ \A s \in {t} : tasks[s].ticket = 0
      BY <2>1
    <3> QED BY <3>1, <3>2, <3>3, TasksTaken
  <2> QED BY <2>2, <2>3
<1>8. ASSUME NEW h \in Requests, Ticketing!BeginSync(h) PROVE TicketInv'
  <2> DEFINE todo == Ticketing!Unticketed
  <2>1. todo \in SUBSET Tasks /\ \A t \in todo : tasks[t].ticket = 0
    BY DEF Ticketing!Unticketed, Ticketing!None
  <2>2. /\ Ticketing!Enter(h, "sync", todo, {})
        /\ UNCHANGED <<tasks, records, closedHere, keys, opened, closed, lost>>
    BY <1>8 DEF Ticketing!BeginSync
  <2>3. contested' = contested \cup
           {t \in todo : \E g \in Requests \ {h} : t \in Hand(ticketing[g])}
    BY <1>8, HandIs DEF Ticketing!BeginSync
  <2> HIDE DEF todo
  <2> QED BY <2>1, <2>2, <2>3, TasksTaken
<1>9. ASSUME NEW h \in Requests, Ticketing!OpenTicket(h) PROVE TicketInv'
  <2>1. keys \in Nat
    BY DEF TicketInv, TicketTypes
  <2>2. PICK t \in ticketing[h].todo :
           ticketing' = [ticketing EXCEPT ![h] =
                            WithTicket(ticketing[h], t, keys + 1)]
    BY <1>9, Zenon DEF WithTicket, Ticketing!OpenTicket, Ticketing!Set
  <2>3. /\ ticketing[h].op \in {"create", "sync"} /\ keys' = keys + 1
        /\ opened' \ lost' \subseteq (opened \ lost) \cup {keys + 1}
        /\ UNCHANGED <<tasks, records, closedHere, closed, contested>>
    BY <1>9 DEF Ticketing!OpenTicket
  <2>4. keys + 1 \in Nat /\ keys + 1 > keys
    BY <2>1
  <2> QED BY <2>2, <2>3, <2>4, TicketsOpened
<1>10. ASSUME NEW h \in Requests, Ticketing!LoseAnswer(h) PROVE TicketInv'
  <2>1. keys \in Nat
    BY DEF TicketInv, TicketTypes
  <2>2. PICK t \in ticketing[h].todo :
           ticketing' = [ticketing EXCEPT ![h] =
                            WithTicket(ticketing[h], t, keys + 2)]
    BY <1>10, Zenon DEF WithTicket, Ticketing!LoseAnswer, Ticketing!Set
  <2>3. /\ ticketing[h].op \in {"create", "sync"} /\ keys' = keys + 2
        /\ opened' \ lost' \subseteq (opened \ lost) \cup {keys + 2}
        /\ UNCHANGED <<tasks, records, closedHere, closed, contested>>
    BY <1>10 DEF Ticketing!LoseAnswer
  <2>4. keys + 2 \in Nat /\ keys + 2 > keys
    BY <2>1
  <2> QED BY <2>2, <2>3, <2>4, TicketsOpened
<1>11. ASSUME NEW h \in Requests, Ticketing!BeginPull(h) PROVE TicketInv'
  <2> DEFINE ask == {x.key : x \in records} \ closedHere
             r == [Ticketing!Resting EXCEPT !.op = "pull", !.todo = {}, !.ask = ask]
  <2>1. ask \subseteq Nat
    BY DEF TicketInv, TicketTypes, Ticketed
  <2>2. /\ ticketing[h].op = "idle" /\ ticketing' = [ticketing EXCEPT ![h] = r]
        /\ UNCHANGED <<tasks, records, closedHere, keys, opened, closed, lost,
                       contested>>
    BY <1>11 DEF Ticketing!BeginPull, Ticketing!Enter, Ticketing!Set
  <2> HIDE DEF ask
  <2>3. r \in TicketRequests /\ r.op = "pull" /\ r.got = {} /\ r.seen = {}
    BY <2>1 DEF Ticketing!Resting, TicketRequests
  <2> HIDE DEF r
  <2>4. closedHere' \subseteq closed
    BY <2>2 DEF TicketInv, OpenInv
  <2> QED BY <2>2, <2>3, <2>4, PullMoves
<1>12. ASSUME NEW h \in Requests, Ticketing!PullStatus(h) PROVE TicketInv'
  <2> DEFINE q == ticketing[h]
  <2>1. \E k \in q.ask \cap closed : ticketing' = [ticketing EXCEPT ![h] = WithAnswer(q, k)]
    BY <1>12, Zenon DEF Ticketing!PullStatus, Ticketing!Set, WithAnswer
  <2>2. PICK k \in q.ask \cap closed :
           ticketing' = [ticketing EXCEPT ![h] = WithAnswer(q, k)]
    BY <2>1
  <2> DEFINE r == WithAnswer(q, k)
  <2>3. /\ q.op = "pull"
        /\ UNCHANGED <<tasks, records, closedHere, keys, opened, closed, lost,
                       contested>>
    BY <1>12 DEF Ticketing!PullStatus
  <2>4. q \in TicketRequests /\ RequestOK(q, closed)
    BY DEF TicketInv, TicketTypes
  <2>5. r \in TicketRequests /\ r.op = "pull" /\ r.got = q.got
        /\ r.seen = q.seen \cup {k}
    BY <2>3, <2>4, <2>2 DEF TicketRequests, WithAnswer
  <2>6. ticketing' = [ticketing EXCEPT ![h] = r]
    BY <2>2
  <2> HIDE DEF r
  <2>7. r.got = {} /\ r.seen \subseteq closed
    BY <2>3, <2>4, <2>5, <2>2 DEF RequestOK
  <2>8. closedHere' \subseteq closed
    BY <2>3 DEF TicketInv, OpenInv
  <2> QED BY <2>3, <2>5, <2>6, <2>7, <2>8, PullMoves
<1>13. ASSUME NEW h \in Requests, Ticketing!CommitPull(h) PROVE TicketInv'
  <2>1. /\ ticketing[h].op = "pull" /\ closedHere' \subseteq closedHere \cup ticketing[h].seen
        /\ ticketing' = [ticketing EXCEPT ![h] = Ticketing!Resting]
        /\ UNCHANGED <<tasks, records, keys, opened, closed, lost, contested>>
    BY <1>13 DEF Ticketing!CommitPull, Ticketing!Set
  <2>2. closedHere' \subseteq closed
    BY <2>1 DEF TicketInv, OpenInv, RequestOK
  <2>3. Ticketing!Resting.seen \subseteq closed
    BY RestingTicket
  <2> QED BY <2>1, <2>2, <2>3, RestingTicket, PullMoves
<1> QED
  BY <1>2, <1>3, <1>4, <1>5, <1>6, <1>7, <1>8, <1>9, <1>10, <1>11, <1>12, <1>13,
     TicketsCommitted, TicketsAborted DEF Ticketing!TicketsNext

-----------------------------------------------------------------------------
(* Tickets of metrics                                                      *)

Names == [from: {"none", "jira", "invented"}, number: Nat \cup (Nat \X Nat)]

NameTypes ==
    /\ definitions \in Seq([kind: STRING, suffix: Nat])
    /\ runs \in Nat /\ names \in Seq(Names) /\ sent \in [DOMAIN definitions -> Nat]

(* What the name of metric i says.                                         *)
NameOK(i) ==
    /\ i \in DOMAIN definitions
    /\ names[i].from = "invented" => ~jira \/ i \in failed
    /\ names[i].from = "jira" => sent[i] > 0 /\ \E n \in Nat : names[i].number = <<i, n>>

(* A metric that has no name yet has been dispatched in earlier runs only. *)
SentInv ==
    /\ \A i \in DOMAIN definitions : sent[i] <= runs
    /\ phase # "idle" => \A i \in DOMAIN definitions : i > Len(names) => sent[i] < runs

NameInv ==
    /\ NameTypes /\ SentInv
    /\ \A i \in DOMAIN names : NameOK(i)
    /\ phase = "failed" => failed # {}

LEMMA NameInitially == GovernanceInit => NameInv
<1> SUFFICES ASSUME GovernanceInit PROVE NameInv
  OBVIOUS
<1>1. /\ definitions \in Catalogs /\ phase = "idle" /\ names = <<>> /\ runs = 0
      /\ sent = [i \in DOMAIN definitions |-> 0]
  BY DEF GovernanceInit, Measuring!RunInit
<1>2. NameTypes
  BY <1>1, GovernanceAssumption DEF NameTypes
<1> QED BY <1>1, <1>2 DEF NameInv, SentInv

(* The next metric gets its name, and a ticket or none.                    *)
LEMMA NameGiven ==
    ASSUME NameInv, phase = "tickets", NEW k \in DOMAIN definitions,
           k = Len(names) + 1, NEW name \in Names, names' = Append(names, name),
           \/ UNCHANGED sent
           \/ sent' = [sent EXCEPT ![k] = @ + 1],
           failed \subseteq failed', UNCHANGED <<definitions, jira, phase, runs>>,
           name.from = "invented" => ~jira \/ k \in failed',
           name.from = "jira" => /\ sent' = [sent EXCEPT ![k] = @ + 1]
                                 /\ name.number = <<k, sent[k] + 1>>
    PROVE  NameInv'
<1>1. NameTypes /\ Len(names) \in Nat
  BY DEF NameInv, NameTypes
<1>2. /\ names' \in Seq(Names) /\ Len(names') = k /\ DOMAIN names' = 1..k
      /\ DOMAIN names = 1..(k - 1)
      /\ names'[k] = name /\ \A i \in DOMAIN names : names'[i] = names[i]
  BY <1>1 DEF NameTypes
<1>3. /\ sent' \in [DOMAIN definitions -> Nat] /\ sent'[k] \in {sent[k], sent[k] + 1}
      /\ sent[k] \in Nat
      /\ \A i \in DOMAIN definitions : i # k => sent'[i] = sent[i]
      /\ \A i \in DOMAIN definitions : sent'[i] >= sent[i]
  BY <1>1 DEF NameTypes
<1>4. NameTypes'
  BY <1>1, <1>2, <1>3 DEF NameTypes
<1>5. DOMAIN definitions \subseteq Nat
  BY <1>1 DEF NameTypes
<1>6. SentInv'
  <2>1. \A i \in DOMAIN definitions :
           sent[i] <= runs /\ (i > Len(names) => sent[i] < runs)
    BY DEF NameInv, SentInv
  <2>2. sent[k] < runs /\ runs \in Nat /\ k > Len(names)
    BY <1>1, <2>1 DEF NameTypes
  <2>3. sent'[k] <= runs
    BY <1>3, <2>2
  <2>4. \A i \in DOMAIN definitions : sent'[i] <= runs
    BY <1>3, <2>1, <2>3
  <2>5. ASSUME NEW i \in DOMAIN definitions, i > k PROVE sent'[i] < runs
    <3>1. i > Len(names) /\ i # k
      BY <1>1, <1>5, <2>5
    <3> QED BY <1>3, <2>1, <3>1
  <2> QED BY <1>2, <2>4, <2>5 DEF SentInv
<1>7. ASSUME NEW i \in DOMAIN names' PROVE NameOK(i)'
  <2>1. CASE i = k
    <3>1. name.from = "jira" => sent'[k] > 0 /\ \E n \in Nat : name.number = <<k, n>>
      BY <1>1, <1>3 DEF NameTypes
    <3> QED BY <1>2, <2>1, <3>1 DEF NameOK
  <2>2. CASE i # k
    <3>1. i \in DOMAIN names
      BY <1>2, <2>2, <1>5
    <3>2. NameOK(i) /\ names'[i] = names[i]
      BY <1>2, <3>1 DEF NameInv
    <3>3. sent[i] > 0 => sent'[i] > 0
      BY <1>1, <1>3, <3>2 DEF NameOK, NameTypes
    <3> QED BY <3>2, <3>3 DEF NameOK
  <2> QED BY <2>1, <2>2
<1> QED BY <1>4, <1>6, <1>7 DEF NameInv

LEMMA NameStep == NameInv /\ [Measuring!RunNext]_metrics => NameInv'
<1> SUFFICES ASSUME NameInv, [Measuring!RunNext]_metrics PROVE NameInv'
  OBVIOUS
<1> USE DEF Measuring!runGiven, Measuring!runRest
<1> DEFINE k == Measuring!Ticketed
<1>1. NameTypes /\ k = Len(names) + 1 /\ Measuring!Metrics = DOMAIN definitions
  BY DEF NameInv, Measuring!Ticketed, Measuring!Metrics
<1>2. ASSUME UNCHANGED <<jira, definitions, names, sent, runs>>, failed \subseteq failed',
             phase # "idle", phase' = "failed" => failed' # {}
      PROVE  NameInv'
  BY <1>2 DEF NameInv, NameTypes, SentInv, NameOK
<1>3. CASE UNCHANGED metrics
  BY <1>3 DEF metrics, NameInv, NameTypes, SentInv, NameOK
<1>4. CASE Measuring!StartRun
  <2>1. /\ names' = <<>> /\ runs' = runs + 1 /\ phase' \in {"query", "tickets"}
        /\ UNCHANGED <<jira, definitions, sent>>
    BY <1>4 DEF Measuring!StartRun
  <2>2. NameTypes'
    BY <1>1, <2>1 DEF NameTypes
  <2>3. \A i \in DOMAIN definitions : sent[i] <= runs /\ sent[i] \in Nat
    BY DEF NameInv, SentInv, NameTypes
  <2>4. \A i \in DOMAIN definitions : sent[i] <= runs + 1 /\ sent[i] < runs + 1
    BY <1>1, <2>3 DEF NameTypes
  <2>5. SentInv'
    BY <2>1, <2>4 DEF SentInv
  <2> QED BY <2>1, <2>2, <2>5 DEF NameInv
<1>5. CASE Measuring!Die
  BY <1>2, <1>5 DEF Measuring!Die
<1>6. CASE \/ Measuring!QueryPlaceholder \/ Measuring!SearchElastic
           \/ Measuring!FailElastic \/ Measuring!QuerySentinel \/ Measuring!FailSentinel
  BY <1>2, <1>6 DEF Measuring!QueryPlaceholder, Measuring!SearchElastic,
     Measuring!FailElastic, Measuring!QuerySentinel, Measuring!FailSentinel,
     Measuring!Invent, Measuring!Compute, Measuring!Abort, Measuring!CurrentFails
<1>7. CASE \/ Measuring!CreateJob \/ Measuring!FailJob \/ Measuring!PollJob
           \/ Measuring!FailJobRequest \/ Measuring!ReadPage
  BY <1>2, <1>7 DEF Measuring!CreateJob, Measuring!FailJob, Measuring!PollJob,
     Measuring!FailJobRequest, Measuring!ReadPage,
     Measuring!Invent, Measuring!Compute, Measuring!Abort, Measuring!CurrentFails
<1>8. CASE Measuring!EndRun
  BY <1>2, <1>8 DEF Measuring!EndRun
<1>9. CASE Measuring!NoTicket
  <2>1. Measuring!None \in Names /\ Measuring!None.from = "none"
    BY DEF Measuring!None, Names
  <2>2. /\ phase = "tickets" /\ k \in DOMAIN definitions
        /\ names' = Append(names, Measuring!None)
        /\ UNCHANGED <<sent, failed, definitions, jira, phase, runs>>
    BY <1>1, <1>9 DEF Measuring!NoTicket, Measuring!Name
  <2> QED BY <1>1, <2>1, <2>2, NameGiven
<1>10. CASE Measuring!Dispatch
  <2> DEFINE name == Measuring!Issued(k)
  <2>1. /\ phase = "tickets" /\ k \in DOMAIN definitions
        /\ names' = Append(names, name) /\ sent' = [sent EXCEPT ![k] = @ + 1]
        /\ UNCHANGED <<failed, definitions, jira, phase, runs>>
    BY <1>1, <1>10 DEF Measuring!Dispatch, Measuring!Name
  <2>2. k \in Nat /\ sent[k] \in Nat
    BY <1>1, <2>1 DEF NameTypes
  <2>3. name \in Names /\ name.from = "jira" /\ name.number = <<k, sent[k] + 1>>
    BY <2>2 DEF Measuring!Issued, Names
  <2> HIDE DEF name
  <2> QED BY <1>1, <2>1, <2>3, NameGiven
<1>11. k \in DOMAIN definitions =>
         /\ Measuring!Invented(k) \in Names /\ Measuring!Invented(k).from = "invented"
  <2> SUFFICES ASSUME k \in DOMAIN definitions
               PROVE  /\ Measuring!Invented(k) \in Names
                      /\ Measuring!Invented(k).from = "invented"
    OBVIOUS
  <2>1. definitions \in [1..Len(definitions) -> [kind: STRING, suffix: Nat]]
    BY <1>1, LenProperties DEF NameTypes
  <2>2. definitions[k] \in [kind: STRING, suffix: Nat]
    BY <2>1
  <2> QED BY <2>2 DEF Measuring!Invented, Names
<1>12. CASE Measuring!DispatchNowhere
  <2>1. /\ phase = "tickets" /\ k \in DOMAIN definitions /\ ~jira
        /\ names' = Append(names, Measuring!Invented(k))
        /\ UNCHANGED <<sent, failed, definitions, jira, phase, runs>>
    BY <1>1, <1>12 DEF Measuring!DispatchNowhere, Measuring!Name
  <2> QED BY <1>1, <1>11, <2>1, NameGiven
<1>13. CASE Measuring!LoseDispatch
  <2>1. /\ phase = "tickets" /\ k \in DOMAIN definitions
        /\ names' = Append(names, Measuring!Invented(k))
        /\ UNCHANGED sent \/ sent' = [sent EXCEPT ![k] = @ + 1]
        /\ failed' = failed \cup {k} /\ UNCHANGED <<definitions, jira, phase, runs>>
    BY <1>1, <1>13 DEF Measuring!LoseDispatch
  <2> QED BY <1>1, <1>11, <2>1, NameGiven
<1> QED
  BY <1>3, <1>4, <1>5, <1>6, <1>7, <1>8, <1>9, <1>10, <1>12, <1>13
     DEF Measuring!RunNext

-----------------------------------------------------------------------------
(* Every ticket of a provider is accounted for: it has a record or a       *)
(* request that knows it, unless its answer or its transaction was lost; a *)
(* task's ticket is a record of this task only; two records of a task mean *)
(* that two requests had it in hand; and a breached metric gets at most    *)
(* one ticket in a run, with a key that is not another metric's.           *)
THEOREM TicketsAreAccounted == GovernanceSpec => []TicketsAccounted
<1>1. GovernanceInit => TicketInv /\ NameInv
  BY TicketInitially, NameInitially
<1>2. TicketInv /\ [GovernanceNext]_governanceVars => TicketInv'
  BY TicketsMove, TicketStep
<1>3. NameInv /\ [GovernanceNext]_governanceVars => NameInv'
  BY MetricsMove, NameStep
<1>4. TicketInv => Ticketing!TicketsAccounted
  <2> SUFFICES ASSUME TicketInv PROVE Ticketing!TicketsAccounted
    OBVIOUS
  <2>1. \A k \in opened \ lost :
           \/ Ticketing!Tickets(k) # {}
           \/ \E h \in Requests : \E x \in ticketing[h].got : x.key = k
    BY DEF TicketInv, OpenInv, Ticketing!Tickets
  <2>2. ASSUME NEW t \in Tasks, tasks[t].ticket # Ticketing!None
        PROVE  Ticketing!Tickets(tasks[t].ticket) = {t}
    <3> DEFINE x == [task |-> t, key |-> tasks[t].ticket]
    <3>1. x \in records /\ x.task = t /\ x.key = tasks[t].ticket
      BY <2>2 DEF TicketInv, TaskInv, Ticketing!None
    <3>2. \A y \in records : y.key = tasks[t].ticket => y = x
      BY <3>1 DEF TicketInv, KeyInv
    <3> HIDE DEF x
    <3> QED BY <3>1, <3>2 DEF Ticketing!Tickets
  <2>3. \A x, y \in records : x.task = y.task /\ x # y => x.task \in contested
    BY DEF TicketInv, HandInv
  <2> QED BY <2>1, <2>2, <2>3 DEF TicketInv, OpenInv, Ticketing!TicketsAccounted
<1>5. NameInv => Measuring!KeysTrue
  <2> SUFFICES ASSUME NameInv PROVE Measuring!KeysTrue
    OBVIOUS
  <2>1. ASSUME NEW i \in DOMAIN names
        PROVE  /\ names[i].from = "invented" => ~jira \/ i \in failed
               /\ names[i].from = "jira" => sent[i] > 0
               /\ \A j \in DOMAIN names :
                     i # j /\ names[i] = names[j] => names[i].from # "jira"
    BY DEF NameInv, NameOK
  <2> QED BY <2>1 DEF NameInv, SentInv, Measuring!KeysTrue, Measuring!Metrics
<1> QED BY <1>1, <1>2, <1>3, <1>4, <1>5, PTL DEF GovernanceSpec, TicketsAccounted

-----------------------------------------------------------------------------
(* Values of metrics                                                       *)

Measured == [value: Nat, confidence: {0, 90, 100}, from: {"siem", "invented"}]

ValueTypes ==
    /\ siem \in {"Elastic", "Splunk", "Sentinel"}
    /\ definitions \in Seq([kind: STRING, suffix: Nat])
    /\ truth \in [DOMAIN definitions -> Nat]
    /\ values \in Seq(Measured) /\ offset \in Nat

(* While metrics are computed there is one to compute.  Only Splunk has    *)
(* pages, and those read so far were full.                                 *)
PageInv ==
    /\ phase \in {"query", "poll", "pages"} => Len(values) + 1 \in DOMAIN definitions
    /\ phase \in {"poll", "pages"} => siem = "Splunk"
    /\ phase # "pages" => offset = 0
    /\ phase = "pages" /\ offset # 0 =>
         PageSize <= offset /\ offset <= truth[Len(values) + 1]

(* What Measuring!ValuesTrue says of one value, when the metrics in at     *)
(* have met a failure.                                                     *)
ValueOK(v, i, at) ==
    /\ v.from = "invented" => unconfigured \/ i \in at
    /\ v.from = "siem" /\ v.value # Measuring!Right(i) =>
         \/ siem = "Elastic" /\ ~Measuring!Aggregates(Measuring!Kind(i)) /\ v.value = 0
         \/ siem = "Splunk" /\ truth[i] > PageSize
    /\ v.confidence = 100 => v.from = "invented"

ValueInv ==
    /\ ValueTypes /\ PageInv
    /\ \A i \in DOMAIN values : ValueOK(values[i], i, failed)

LEMMA ValueInitially == GovernanceInit => ValueInv
<1> SUFFICES ASSUME GovernanceInit PROVE ValueInv
  OBVIOUS
<1>1. /\ definitions \in Catalogs /\ phase = "idle" /\ values = <<>> /\ offset = 0
      /\ truth \in [DOMAIN definitions -> EventCounts]
      /\ siem \in {"Elastic", "Splunk", "Sentinel"}
  BY DEF GovernanceInit, Measuring!RunInit
<1>2. definitions \in Seq([kind: STRING, suffix: Nat]) /\ EventCounts \subseteq Nat
  BY <1>1, GovernanceAssumption
<1>3. truth \in [DOMAIN definitions -> Nat]
  BY <1>1, <1>2
<1>4. values \in Seq(Measured) /\ offset \in Nat
  BY <1>1
<1>5. ValueTypes
  BY <1>1, <1>2, <1>3, <1>4 DEF ValueTypes
<1> QED BY <1>1, <1>5 DEF ValueInv, PageInv

(* Values that are there stay right.                                       *)
LEMMA ValuesStay ==
    ASSUME NEW v, NEW i, NEW at, NEW more, at \subseteq more, ValueOK(v, i, at)
    PROVE  ValueOK(v, i, more)
BY DEF ValueOK

(* A step that computes nothing.                                           *)
LEMMA ValuesKept ==
    ASSUME ValueInv, UNCHANGED <<siem, unconfigured, definitions, truth, values>>,
           failed \subseteq failed', offset' \in Nat, PageInv'
    PROVE  ValueInv'
<1>1. ValueTypes'
  BY DEF ValueInv, ValueTypes
<1>2. ASSUME NEW i \in DOMAIN values' PROVE ValueOK(values[i], i, failed)'
  <2>1. ValueOK(values[i], i, failed')
    BY ValuesStay DEF ValueInv
  <2> QED BY <2>1 DEF ValueOK, Measuring!Right, Measuring!Kind, Measuring!Aggregates,
                      Measuring!Average
<1> QED BY <1>1, <1>2 DEF ValueInv

LEMMA ValueTyped ==
    ASSUME ValueInv, phase \in {"query", "poll", "pages"}
    PROVE  /\ Measuring!Current = Len(values) + 1 /\ Len(values) \in Nat
           /\ Measuring!Current \in DOMAIN definitions
           /\ truth[Measuring!Current] \in Nat
           /\ Measuring!Mock(Measuring!Kind(Measuring!Current)) \in Nat
           /\ \A found, batch \in Nat : \A origin \in {"siem", "invented"} :
                 Measuring!Value(found, batch, origin) \in Measured
<1>1. Measuring!Current = Len(values) + 1 /\ Len(values) \in Nat
  BY DEF ValueInv, ValueTypes, Measuring!Current
<1>2. Measuring!Current \in DOMAIN definitions
  BY <1>1 DEF ValueInv, PageInv
<1>3. truth[Measuring!Current] \in Nat
  BY <1>2 DEF ValueInv, ValueTypes
<1>4. \A k : Measuring!Mock(k) \in Nat
  <2> TAKE k
  <2>1. siem \in {"Elastic", "Splunk", "Sentinel"}
    BY DEF ValueInv, ValueTypes
  <2>2. CASE siem = "Elastic"
    BY <2>2 DEF Measuring!Mock, Measuring!ElasticMock
  <2>3. CASE siem = "Splunk"
    BY <2>3 DEF Measuring!Mock, Measuring!SplunkMock
  <2>4. CASE siem = "Sentinel"
    BY <2>4 DEF Measuring!Mock, Measuring!SentinelMock
  <2> QED BY <2>1, <2>2, <2>3, <2>4
<1>5. \A found, batch \in Nat : \A origin \in {"siem", "invented"} :
         Measuring!Value(found, batch, origin) \in Measured
  <2>1. Fixed \in Nat
    BY GovernanceAssumption
  <2>2. \A found, batch \in Nat : Measuring!Confidence(found, batch) \in {0, 90, 100}
    BY DEF Measuring!Confidence
  <2> QED BY <2>1, <2>2 DEF Measuring!Value, Measured
<1> QED BY <1>1, <1>2, <1>3, <1>4, <1>5

(* A metric is computed.                                                   *)
LEMMA ValueComputed ==
    ASSUME ValueInv, phase \in {"query", "poll", "pages"},
           NEW found \in Nat, NEW batch \in Nat, NEW origin \in {"siem", "invented"},
           Measuring!Compute(found, batch, origin),
           UNCHANGED <<siem, unconfigured, definitions, truth>>,
           failed \subseteq failed',
           ValueOK(Measuring!Value(found, batch, origin), Measuring!Current, failed')
    PROVE  ValueInv'
<1> DEFINE v == Measuring!Value(found, batch, origin)
           k == Measuring!Current
<1>1. /\ k = Len(values) + 1 /\ Len(values) \in Nat /\ k \in DOMAIN definitions
      /\ v \in Measured
  BY ValueTyped
<1>2. /\ phase' = IF k = Len(definitions) THEN "tickets" ELSE "query"
      /\ offset' = 0 /\ values' = Append(values, v)
  BY DEF Measuring!Compute
<1>3. ValueOK(v, k, failed')
  OBVIOUS
<1> HIDE DEF v, k
<1>4. ValueTypes
  BY DEF ValueInv
<1>5. /\ values' \in Seq(Measured) /\ Len(values') = k /\ DOMAIN values' = 1..k
      /\ DOMAIN values = 1..(k - 1)
      /\ values'[k] = v /\ \A i \in DOMAIN values : values'[i] = values[i]
  <2>1. values \in Seq(Measured)
    BY <1>4 DEF ValueTypes
  <2>2. /\ values' \in Seq(Measured) /\ Len(values') = k
        /\ values'[k] = v /\ \A i \in 1..Len(values) : values'[i] = values[i]
    BY <1>1, <1>2, <2>1, AppendProperties
  <2>3. /\ DOMAIN values = 1..Len(values) /\ DOMAIN values' = 1..k
        /\ Len(values) = k - 1
    BY <1>1, <2>1, <2>2, LenProperties
  <2> QED BY <2>2, <2>3
<1>6. ValueTypes'
  BY <1>2, <1>4, <1>5 DEF ValueTypes
<1>7. DOMAIN definitions = 1..Len(definitions) /\ Len(definitions) \in Nat
  BY <1>4, LenProperties DEF ValueTypes
<1>8. PageInv'
  <2> DEFINE last == Len(definitions)
  <2>1. k \in 1..last /\ last \in Nat
    BY <1>1, <1>7
  <2> HIDE DEF last
  <2>2. k # last => k + 1 \in 1..last
    BY <2>1
  <2>3. k # Len(definitions) => k + 1 \in DOMAIN definitions
    BY <1>7, <2>2 DEF last
  <2> QED BY <1>2, <1>5, <2>3 DEF PageInv
<1>9. ASSUME NEW i \in DOMAIN values' PROVE ValueOK(values[i], i, failed)'
  <2>1. ValueOK(values'[i], i, failed')
    <3>1. CASE i = k
      BY <1>3, <1>5, <3>1
    <3>2. CASE i # k
      <4>1. i \in DOMAIN values
        BY <1>1, <1>5, <3>2
      <4> QED BY <1>5, <4>1, ValuesStay DEF ValueInv
    <3> QED BY <3>1, <3>2
  <2> QED BY <2>1 DEF ValueOK, Measuring!Right, Measuring!Kind, Measuring!Aggregates,
                      Measuring!Average
<1> QED BY <1>6, <1>8, <1>9 DEF ValueInv

(* The answer of a client that was not asked, or failed.                   *)
LEMMA ValueInvented ==
    ASSUME ValueInv, phase \in {"query", "poll", "pages"}, Measuring!Invent,
           UNCHANGED <<siem, unconfigured, definitions, truth>>,
           failed \subseteq failed', unconfigured \/ Measuring!Current \in failed'
    PROVE  ValueInv'
<1> DEFINE n == Measuring!Mock(Measuring!Kind(Measuring!Current))
<1>1. n \in Nat /\ Measuring!Compute(n, n, "invented")
  BY ValueTyped DEF Measuring!Invent
<1>2. ValueOK(Measuring!Value(n, n, "invented"), Measuring!Current, failed')
  BY DEF ValueOK, Measuring!Value
<1> HIDE DEF n
<1> QED BY <1>1, <1>2, ValueComputed

(* An answer of the SIEM.                                                  *)
LEMMA ValueRead ==
    ASSUME ValueInv, phase \in {"query", "poll", "pages"},
           NEW found \in Nat, NEW batch \in Nat,
           Measuring!Compute(found, batch, "siem"),
           UNCHANGED <<siem, unconfigured, definitions, truth, failed>>,
           siem = "Elastic" => batch = 0,
           \/ found = truth[Measuring!Current]
           \/ /\ siem = "Elastic" /\ found = 0
              /\ ~Measuring!Aggregates(Measuring!Kind(Measuring!Current))
           \/ siem = "Splunk" /\ truth[Measuring!Current] > PageSize
    PROVE  ValueInv'
<1> DEFINE v == Measuring!Value(found, batch, "siem")
<1>1. /\ v.from = "siem" /\ v.confidence = Measuring!Confidence(found, batch)
      /\ v.value = IF /\ Measuring!Average(Measuring!Kind(Measuring!Current))
                      /\ found > 0 THEN Fixed ELSE found
  BY DEF Measuring!Value
<1>2. v.confidence # 100
  BY <1>1 DEF Measuring!Confidence
<1>3. found = truth[Measuring!Current] => v.value = Measuring!Right(Measuring!Current)
  BY <1>1 DEF Measuring!Right
<1>4. found = 0 => v.value = 0
  BY <1>1
<1> HIDE DEF v
<1>5. ValueOK(v, Measuring!Current, failed')
  BY <1>1, <1>2, <1>3, <1>4 DEF ValueOK
<1> QED BY <1>5, ValueComputed DEF v

(* Splunk: a page that is not full is the last, and an empty one counts    *)
(* as the page before it.                                                  *)
LEMMA PageRead == ASSUME ValueInv, Measuring!ReadPage PROVE ValueInv'
<1> DEFINE k == Measuring!Current
           n == truth[k] - offset
           last == IF n = 0 /\ offset > 0 THEN PageSize ELSE n
<1>1. /\ phase = "pages" /\ siem = "Splunk" /\ k = Len(values) + 1
      /\ truth[k] \in Nat /\ offset \in Nat /\ PageSize \in Nat
      /\ offset # 0 => PageSize <= offset /\ offset <= truth[k]
  BY ValueTyped, GovernanceAssumption DEF Measuring!ReadPage, ValueInv, PageInv, ValueTypes
<1>2. UNCHANGED <<siem, unconfigured, definitions, truth, failed>>
  BY DEF Measuring!ReadPage, Measuring!runRest, Measuring!runGiven
<1>3. /\ n >= PageSize => offset' = offset + PageSize /\ UNCHANGED <<phase, values>>
      /\ ~(n >= PageSize) => Measuring!Compute(last, last, "siem")
  BY DEF Measuring!ReadPage
<1> HIDE DEF k
<1>4. CASE n >= PageSize
  <2>1. PageSize <= offset' /\ offset' <= truth[k] /\ offset' \in Nat
    BY <1>1, <1>3, <1>4
  <2>2. PageInv'
    BY <1>1, <1>2, <1>3, <1>4, <2>1 DEF ValueInv, PageInv
  <2> QED BY <1>2, <1>3, <1>4, <2>1, <2>2, ValuesKept
<1>5. CASE ~(n >= PageSize)
  <2>1. last \in Nat /\ (last = truth[k] \/ truth[k] > PageSize)
    BY <1>1, <1>5
  <2>2. Measuring!Compute(last, last, "siem")
    BY <1>3, <1>5
  <2> HIDE DEF last, n
  <2> QED BY <1>1, <1>2, <2>1, <2>2, ValueRead DEF k
<1> QED BY <1>4, <1>5

LEMMA ValueStep == ValueInv /\ [Measuring!RunNext]_metrics => ValueInv'
<1> SUFFICES ASSUME ValueInv, [Measuring!RunNext]_metrics PROVE ValueInv'
  OBVIOUS
<1> USE DEF Measuring!runGiven, Measuring!runRest
<1>1. ValueTypes /\ PageInv
  BY DEF ValueInv
<1>2. offset \in Nat
  BY <1>1 DEF ValueTypes
<1>3. ASSUME UNCHANGED <<siem, unconfigured, definitions, truth, values, offset>>,
             failed \subseteq failed', phase' = phase
      PROVE  ValueInv'
  <2>1. PageInv'
    BY <1>1, <1>3 DEF PageInv
  <2> QED BY <1>2, <1>3, <2>1, ValuesKept
<1>4. ASSUME UNCHANGED <<siem, unconfigured, definitions, truth, values>>,
             failed \subseteq failed', offset' = 0,
             phase' \in {"tickets", "done", "failed", "dead"}
      PROVE  ValueInv'
  <2>1. PageInv'
    BY <1>4 DEF PageInv
  <2> QED BY <1>4, <2>1, ValuesKept
<1>5. CASE UNCHANGED metrics
  BY <1>3, <1>5 DEF metrics
<1>6. CASE Measuring!StartRun
  <2>1. /\ values' = <<>> /\ offset = 0 /\ offset' = 0
        /\ phase' = IF definitions = <<>> THEN "tickets" ELSE "query"
        /\ UNCHANGED <<siem, unconfigured, definitions, truth>>
    BY <1>1, <1>6 DEF Measuring!StartRun, PageInv
  <2>2. definitions # <<>> => 1 \in DOMAIN definitions
    BY <1>1, EmptySeq, LenProperties DEF ValueTypes
  <2>3. ValueTypes'
    BY <1>1, <2>1 DEF ValueTypes
  <2>4. PageInv'
    BY <2>1, <2>2 DEF PageInv
  <2> QED BY <2>1, <2>3, <2>4 DEF ValueInv
<1>7. CASE Measuring!Die
  BY <1>4, <1>7 DEF Measuring!Die
<1>8. ASSUME Measuring!Abort, UNCHANGED <<siem, unconfigured, definitions, truth>>,
             failed \subseteq failed'
      PROVE  ValueInv'
  BY <1>4, <1>8 DEF Measuring!Abort
<1>9. CASE Measuring!QueryPlaceholder
  BY <1>9, ValueInvented DEF Measuring!QueryPlaceholder
<1>10. CASE Measuring!FailElastic
  BY <1>10, ValueInvented DEF Measuring!FailElastic, Measuring!CurrentFails
<1>11. CASE Measuring!FailSentinel
  BY <1>8, <1>11, ValueInvented DEF Measuring!FailSentinel, Measuring!CurrentFails
<1>12. CASE Measuring!FailJob
  BY <1>8, <1>12, ValueInvented DEF Measuring!FailJob, Measuring!CurrentFails
<1>13. CASE Measuring!SearchElastic
  <2> DEFINE n == truth[Measuring!Current]
  <2>1. /\ phase \in {"query", "poll", "pages"} /\ siem = "Elastic"
        /\ UNCHANGED <<siem, unconfigured, definitions, truth, failed>>
    BY <1>13 DEF Measuring!SearchElastic
  <2>2. n \in Nat /\ 0 \in Nat
    BY <2>1, ValueTyped
  <2>3. CASE Measuring!Aggregates(Measuring!Kind(Measuring!Current))
    <3>1. Measuring!Compute(n, 0, "siem")
      BY <1>13, <2>3 DEF Measuring!SearchElastic
    <3> QED BY <2>1, <2>2, <3>1, ValueRead
  <2>4. CASE ~Measuring!Aggregates(Measuring!Kind(Measuring!Current))
    <3>1. Measuring!Compute(0, 0, "siem")
      BY <1>13, <2>4 DEF Measuring!SearchElastic
    <3> QED BY <2>1, <2>2, <2>4, <3>1, ValueRead
  <2> QED BY <2>3, <2>4
<1>14. CASE Measuring!QuerySentinel
  <2> DEFINE n == truth[Measuring!Current]
  <2>1. /\ phase \in {"query", "poll", "pages"} /\ siem = "Sentinel"
        /\ Measuring!Compute(n, n, "siem")
        /\ UNCHANGED <<siem, unconfigured, definitions, truth, failed>>
    BY <1>14 DEF Measuring!QuerySentinel
  <2>2. n \in Nat
    BY <2>1, ValueTyped
  <2> QED BY <2>1, <2>2, ValueRead
<1>15. CASE Measuring!CreateJob
  <2>1. /\ phase = "query" /\ phase' = "poll" /\ siem = "Splunk"
        /\ UNCHANGED <<siem, unconfigured, definitions, truth, values, failed, offset>>
    BY <1>15 DEF Measuring!CreateJob
  <2>2. PageInv'
    BY <1>1, <2>1 DEF PageInv
  <2> QED BY <1>2, <2>1, <2>2, ValuesKept
<1>16. CASE Measuring!PollJob
  <2>1. /\ phase = "poll" /\ UNCHANGED <<siem, unconfigured, definitions, truth>>
        /\ \/ /\ phase' = "pages" \/ phase' = phase
              /\ UNCHANGED <<values, failed, offset>>
           \/ Measuring!Abort /\ failed \subseteq failed'
    BY <1>16 DEF Measuring!PollJob, Measuring!CurrentFails
  <2>2. CASE phase' \in {"pages", "poll"} /\ UNCHANGED <<values, failed, offset>>
    <3>1. PageInv'
      BY <1>1, <2>1, <2>2 DEF PageInv
    <3> QED BY <1>2, <2>1, <2>2, <3>1, ValuesKept
  <2> QED BY <1>8, <2>1, <2>2
<1>17. CASE Measuring!FailJobRequest
  BY <1>8, <1>17 DEF Measuring!FailJobRequest, Measuring!CurrentFails
<1>18. CASE Measuring!ReadPage
  BY <1>18, PageRead
<1>19. CASE Measuring!NoTicket \/ Measuring!Dispatch \/ Measuring!DispatchNowhere
  BY <1>3, <1>19 DEF Measuring!NoTicket, Measuring!Dispatch, Measuring!DispatchNowhere,
     Measuring!Name
<1>20. CASE Measuring!LoseDispatch
  BY <1>3, <1>20 DEF Measuring!LoseDispatch
<1>21. CASE Measuring!EndRun
  BY <1>1, <1>4, <1>21 DEF Measuring!EndRun, PageInv
<1> QED
  BY <1>5, <1>6, <1>7, <1>9, <1>10, <1>11, <1>12, <1>13, <1>14, <1>15, <1>16, <1>17,
     <1>18, <1>19, <1>20, <1>21 DEF Measuring!RunNext

-----------------------------------------------------------------------------
(* Evidence of collectors                                                  *)

Rows == [of: Collecting!Integrations, status: Collecting!Statuses]
RowsOf(some, i, n) == Collecting!RowsOf(some, i, n)

(* Counting rows: a prefix has no more than the whole, and one more when a *)
(* row of i is appended.                                                   *)
LEMMA RowsCounted ==
    ASSUME NEW s, NEW i, NEW n \in Nat
    PROVE  /\ RowsOf(s, i, n) \in Nat
           /\ RowsOf(s, i, n + 1) = RowsOf(s, i, n) + IF s[n + 1].of = i THEN 1 ELSE 0
           /\ RowsOf(s, i, n) = 0 <=> \A m \in 1..n : s[m].of # i
<1> DEFINE R(k) == {m \in 1..k : s[m].of = i}
<1>1. \A k \in Nat : IsFiniteSet(R(k))
  <2> TAKE k \in Nat
  <2>1. IsFiniteSet(1..k)
    BY FS_Interval
  <2>2. R(k) \in SUBSET (1..k)
    OBVIOUS
  <2> HIDE DEF R
  <2> QED BY <2>1, <2>2, FS_Subset
<1>2. RowsOf(s, i, n) = Cardinality(R(n)) /\ RowsOf(s, i, n + 1) = Cardinality(R(n + 1))
  BY Zenon DEF RowsOf, Collecting!RowsOf, Cardinality, Collecting!Cardinality
<1>3. R(n + 1) = R(n) \cup IF s[n + 1].of = i THEN {n + 1} ELSE {}
  OBVIOUS
<1>4. n + 1 \notin R(n)
  OBVIOUS
<1>5. R(n) = {} <=> \A m \in 1..n : s[m].of # i
  OBVIOUS
<1> HIDE DEF R
<1>6. Cardinality(R(n)) \in Nat
  BY <1>1, FS_CardinalityType
<1>7. Cardinality(R(n + 1)) = Cardinality(R(n)) + IF s[n + 1].of = i THEN 1 ELSE 0
  <2>1. CASE s[n + 1].of = i
    <3>1. R(n + 1) = R(n) \cup {n + 1}
      BY <1>3, <2>1
    <3>2. Cardinality(R(n) \cup {n + 1}) = Cardinality(R(n)) + 1
      BY <1>1, <1>4, FS_AddElement
    <3> QED BY <2>1, <3>1, <3>2
  <2>2. CASE s[n + 1].of # i
    <3>1. R(n + 1) = R(n)
      BY <1>3, <2>2
    <3> QED BY <1>6, <2>2, <3>1
  <2> QED BY <2>1, <2>2
<1>8. Cardinality(R(n)) = 0 <=> R(n) = {}
  BY <1>1, FS_EmptySet
<1> QED BY <1>2, <1>5, <1>6, <1>7, <1>8

LEMMA RowsSame ==
    ASSUME NEW s, NEW t, NEW i, NEW n \in Nat, \A m \in 1..n : t[m] = s[m]
    PROVE  RowsOf(t, i, n) = RowsOf(s, i, n)
<1>1. {m \in 1..n : t[m].of = i} = {m \in 1..n : s[m].of = i}
  OBVIOUS
<1> QED BY <1>1, Zenon DEF RowsOf, Collecting!RowsOf

EvidenceTypes ==
    /\ connected \in Seq(STRING) /\ turn \in Nat \ {0}
    /\ \A m, n \in DOMAIN connected : connected[m] = connected[n] => m = n
    /\ items \in Seq(Collecting!Statuses) /\ (items # <<>> => turn <= Len(connected))
    /\ filed \in Seq(Rows) /\ recorded \in Nat
    /\ returned \in [Collecting!Integrations -> Seq(Collecting!Statuses)]

(* What a collector calls a pass was said in an answer.                    *)
AnswerInv ==
    \A i \in Collecting!Integrations : \A k \in DOMAIN returned[i] :
       returned[i][k] = "pass" => demo \/ i \in answered

(* Of integrations whose turn is to come nothing was returned or filed.    *)
AheadInv ==
    \A n \in DOMAIN connected :
       n > turn \/ (n = turn /\ items = <<>>) =>
          /\ returned[connected[n]] = <<>>
          /\ RowsOf(filed, connected[n], Len(filed)) = 0

(* What is still to be filed is the rest of what was returned.             *)
Rest(some, whole, done) ==
    /\ Len(whole) = done + Len(some)
    /\ \A k \in 1..Len(some) : some[k] = whole[done + k]
RestInv ==
    items # <<>> => Rest(items, returned[Collecting!Turn],
                         RowsOf(filed, Collecting!Turn, Len(filed)))

(* Row n is the item that was returned at its place.                       *)
FiledOK(put, n, whole) ==
    LET k == RowsOf(put, put[n].of, n)
    IN  k \in DOMAIN whole[put[n].of] /\ put[n].status = whole[put[n].of][k]

FiledInv ==
    /\ \A n \in DOMAIN filed : FiledOK(filed, n, returned)
    /\ \A i \in Collecting!Integrations :
         \/ RowsOf(filed, i, Len(filed)) = Len(returned[i])
         \/ i \in unfiled
         \/ items # <<>> /\ i = Collecting!Turn

EvidenceInv ==
    /\ EvidenceTypes /\ AnswerInv /\ AheadInv /\ RestInv /\ FiledInv
    /\ recorded <= Len(filed) /\ (unfiled = {} => recorded = Len(filed))

Listed == Seq(Collecting!Statuses)
NoPass(s) == \A k \in DOMAIN s : s[k] # "pass"

LEMMA ItemLists ==
    /\ Collecting!Configured \in Listed /\ NoPass(Collecting!Configured)
    /\ <<"warn">> \in Listed /\ NoPass(<<"warn">>)
    /\ <<"fail">> \in Listed /\ NoPass(<<"fail">>)
    /\ <<"pass">> \in Listed /\ <<>> \in Listed
    /\ \A n \in Nat : Collecting!Pass(n) \in Listed
    /\ Append(Collecting!Pass(3), "warn") \in Listed
<1>1. /\ Collecting!Configured \in Listed /\ NoPass(Collecting!Configured)
      /\ <<"warn">> \in Listed /\ NoPass(<<"warn">>)
      /\ <<"fail">> \in Listed /\ NoPass(<<"fail">>)
      /\ <<"pass">> \in Listed /\ <<>> \in Listed
  BY DEF Collecting!Configured, Listed, NoPass, Collecting!Statuses
<1>2. \A n \in Nat : Collecting!Pass(n) \in Listed
  BY DEF Collecting!Pass, Listed, Collecting!Statuses
<1>3. Append(Collecting!Pass(3), "warn") \in Listed
  <2>1. Collecting!Pass(3) \in Seq(Collecting!Statuses) /\ "warn" \in Collecting!Statuses
    BY <1>2 DEF Listed, Collecting!Statuses
  <2> QED BY <2>1, AppendProperties DEF Listed
<1> QED BY <1>1, <1>2, <1>3

LEMMA CollectLists ==
    ASSUME NEW a \in Listed, NEW b \in Listed
    PROVE  /\ Collecting!Collect(a, b) \in Listed
           /\ ~demo /\ NoPass(b) => NoPass(Collecting!Collect(a, b))
           /\ ~demo /\ credentials[Collecting!Turn] = "none"
                => Collecting!Collect(a, b) = Collecting!Configured
BY ItemLists DEF Collecting!Collect

LEMMA AnswerLists ==
    ASSUME NEW first, NEW second, NEW p \in Listed, NEW q \in Listed
    PROVE  /\ Collecting!One(first) \in Listed
           /\ first # "ok" => NoPass(Collecting!One(first))
           /\ Collecting!Two(first, second, p, q) \in Listed
           /\ first # "ok" /\ second # "ok" => NoPass(Collecting!Two(first, second, p, q))
<1>1. Collecting!One(first) \in Listed /\ (first # "ok" => NoPass(Collecting!One(first)))
  BY ItemLists DEF Collecting!One
<1> DEFINE x == IF first = "ok" THEN p ELSE <<>>
           y == IF second = "ok" THEN q ELSE <<>>
<1>2. x \in Listed /\ y \in Listed
  BY ItemLists
<1>3. first # "ok" /\ second # "ok" => x = <<>> /\ y = <<>>
  OBVIOUS
<1>4. Collecting!Two(first, second, p, q)
        = IF "raises" \in {first, second} \/ x \o y = <<>>
            THEN Collecting!Configured ELSE x \o y
  BY DEF Collecting!Two
<1> HIDE DEF x, y
<1>5. x \o y \in Listed
  BY <1>2, ConcatProperties DEF Listed
<1>6. <<>> \o <<>> = <<>>
  BY ItemLists, ConcatEmptySeq DEF Listed
<1> QED BY <1>1, <1>3, <1>4, <1>5, <1>6, ItemLists

(* Without an answer nothing is called a pass, and without credentials     *)
(* nothing is asked.                                                       *)
LEMMA ItemsCollected ==
    ASSUME NEW first, NEW second, NEW branches \in {"pass", "warn"},
           NEW boto3 \in BOOLEAN, Collecting!Turn \in Collecting!Collected
    PROVE  LET s == Collecting!Items(first, second, branches, boto3)
           IN  /\ s \in Listed
               /\ ~demo /\ first # "ok" /\ second # "ok" => NoPass(s)
               /\ ~demo /\ credentials[Collecting!Turn] = "none"
                    => s = Collecting!Configured
<1> DEFINE s == Collecting!Items(first, second, branches, boto3)
           OK(x) == /\ x \in Listed
                    /\ ~demo /\ first # "ok" /\ second # "ok" => NoPass(x)
                    /\ ~demo /\ credentials[Collecting!Turn] = "none"
                         => x = Collecting!Configured
<1>1. \A a, b \in Listed :
         (first # "ok" /\ second # "ok" => NoPass(b)) => OK(Collecting!Collect(a, b))
  BY CollectLists
<1>2. /\ Collecting!Pass(1) \in Listed /\ Collecting!Pass(2) \in Listed
      /\ Collecting!Pass(3) \in Listed /\ Collecting!Pass(4) \in Listed
      /\ <<branches>> \in Listed
  BY ItemLists
<1> HIDE DEF OK, s
<1>3. /\ OK(Collecting!Gcp(first)) /\ OK(Collecting!Jamf(first))
      /\ OK(Collecting!Kandji(first)) /\ OK(Collecting!Jira(first))
      /\ OK(Collecting!Servicenow(first))
  BY <1>1, <1>2, AnswerLists
     DEF Collecting!Gcp, Collecting!Jamf, Collecting!Kandji, Collecting!Jira,
         Collecting!Servicenow
<1>4. OK(Collecting!Okta(first, second)) /\ OK(Collecting!GoogleWorkspace(first, second))
  BY <1>1, <1>2, AnswerLists DEF Collecting!Okta, Collecting!GoogleWorkspace
<1>5. OK(Collecting!Github(first, second, branches))
  BY <1>1, <1>2, AnswerLists, ItemLists DEF Collecting!Github
<1>6. OK(Collecting!Aws(first, second, boto3))
  <2> DEFINE b == IF ~boto3 THEN <<"warn">>
                  ELSE IF first = "ok" /\ second = "ok" THEN Collecting!Pass(2)
                  ELSE <<"fail">>
  <2>1. b \in Listed /\ (first # "ok" /\ second # "ok" => NoPass(b))
    BY <1>2, ItemLists
  <2>2. Collecting!Aws(first, second, boto3) = Collecting!Collect(Collecting!Pass(4), b)
    BY DEF Collecting!Aws
  <2> HIDE DEF b
  <2> QED BY <1>1, <1>2, <2>1, <2>2
<1>7. OK(Collecting!Azure)
  BY <1>1, <1>2, ItemLists DEF Collecting!Azure
<1>8. OK(s)
  <2>1. Collecting!Turn \in {"gcp", "jamf", "kandji", "jira", "servicenow", "okta",
                             "google_workspace", "github", "aws", "azure"}
    BY DEF Collecting!Collected, Collecting!TwoGroups, Collecting!OneGroup
  <2>2. CASE Collecting!Turn \in {"gcp", "jamf", "kandji", "jira", "servicenow"}
    BY <1>3, <2>2 DEF s, Collecting!Items
  <2>3. CASE Collecting!Turn \in {"okta", "google_workspace", "github", "aws", "azure"}
    BY <1>4, <1>5, <1>6, <1>7, <2>3 DEF s, Collecting!Items
  <2> QED BY <2>1, <2>2, <2>3
<1> QED BY <1>8 DEF OK, s

LEMMA EvidenceInitially == GovernanceInit => EvidenceInv
<1> SUFFICES ASSUME GovernanceInit PROVE EvidenceInv
  OBVIOUS
<1>1. /\ connected \in Orders /\ turn = 1 /\ items = <<>> /\ filed = <<>> /\ recorded = 0
      /\ returned = [i \in Collecting!Integrations |-> <<>>]
  <2>1. Collecting!CollectorsInit
    BY DEF GovernanceInit
  <2> QED BY <2>1, Zenon DEF Collecting!CollectorsInit
<1>2. /\ connected \in Seq(STRING)
      /\ \A m, n \in DOMAIN connected : connected[m] = connected[n] => m = n
  BY <1>1, GovernanceAssumption
<1>3. /\ \A i \in Collecting!Integrations : returned[i] = <<>>
      /\ returned \in [Collecting!Integrations -> Seq(Collecting!Statuses)]
  BY <1>1, ItemLists DEF Listed
<1>4. filed \in Seq(Rows) /\ items \in Seq(Collecting!Statuses) /\ Len(filed) = 0
  BY <1>1
<1>5. EvidenceTypes
  BY <1>1, <1>2, <1>3, <1>4 DEF EvidenceTypes
<1>6. \A i : RowsOf(filed, i, Len(filed)) = 0
  BY <1>4, RowsCounted
<1>7. \A n \in DOMAIN connected : connected[n] \in Collecting!Integrations
  BY DEF Collecting!Integrations
<1>8. AnswerInv /\ AheadInv /\ RestInv
  BY <1>1, <1>3, <1>6, <1>7 DEF AnswerInv, AheadInv, RestInv
<1>9. FiledInv
  <2>1. DOMAIN filed = {}
    BY <1>1
  <2>2. \A i \in Collecting!Integrations : Len(returned[i]) = 0
    BY <1>3
  <2> QED BY <1>6, <2>1, <2>2 DEF FiledInv
<1> QED BY <1>1, <1>4, <1>5, <1>8, <1>9 DEF EvidenceInv

LEMMA TurnIs ==
    ASSUME EvidenceTypes, turn <= Len(connected)
    PROVE  /\ turn \in DOMAIN connected /\ Collecting!Turn = connected[turn]
           /\ Collecting!Turn \in Collecting!Integrations
           /\ \A n \in DOMAIN connected : n # turn => connected[n] # Collecting!Turn
<1>1. DOMAIN connected = 1..Len(connected) /\ Len(connected) \in Nat
  BY LenProperties DEF EvidenceTypes
<1>2. turn \in DOMAIN connected
  BY <1>1 DEF EvidenceTypes
<1> QED BY <1>2 DEF EvidenceTypes, Collecting!Turn, Collecting!Integrations

(* A collector returns.                                                    *)
LEMMA EvidenceReturned ==
    ASSUME EvidenceInv, Collecting!Idle, NEW s \in Listed, Collecting!Return(s),
           answered \subseteq answered',
           \A k \in DOMAIN s : s[k] = "pass" => demo \/ Collecting!Turn \in answered'
    PROVE  EvidenceInv'
<1> DEFINE T == Collecting!Turn
           L == Len(filed)
<1>1. /\ items' = s /\ returned' = [returned EXCEPT ![T] = s]
      /\ UNCHANGED <<connected, demo, turn, filed, recorded, unfiled>>
  BY DEF Collecting!Return, Collecting!given
<1>2. /\ EvidenceTypes /\ items = <<>> /\ turn <= Len(connected)
  BY DEF EvidenceInv, Collecting!Idle, Collecting!InTurn
<1>3. /\ turn \in DOMAIN connected /\ T = connected[turn] /\ T \in Collecting!Integrations
      /\ \A n \in DOMAIN connected : n # turn => connected[n] # T
  BY <1>2, TurnIs
<1>4. Collecting!Integrations' = Collecting!Integrations /\ Collecting!Turn' = T
  BY <1>1 DEF Collecting!Integrations, Collecting!Turn
<1>5. L \in Nat /\ DOMAIN filed = 1..L
  BY <1>2, LenProperties DEF EvidenceTypes
<1>6. RowsOf(filed, T, L) = 0
  BY <1>2, <1>3 DEF EvidenceInv, AheadInv
<1>7. \A n \in DOMAIN filed : filed[n].of # T
  BY <1>5, <1>6, RowsCounted
<1>8. /\ returned'[T] = s
      /\ \A i \in Collecting!Integrations : i # T => returned'[i] = returned[i]
      /\ returned' \in [Collecting!Integrations -> Seq(Collecting!Statuses)]
  BY <1>1, <1>2, <1>3 DEF EvidenceTypes, Listed
<1>9. \A n \in DOMAIN connected : connected[n] \in Collecting!Integrations
  BY DEF Collecting!Integrations
<1> HIDE DEF T, L
<1>10. EvidenceTypes'
  BY <1>1, <1>2, <1>4, <1>8 DEF EvidenceTypes, Listed, Rows
<1>11. AnswerInv'
  <2> SUFFICES ASSUME NEW i \in Collecting!Integrations, NEW k \in DOMAIN returned'[i],
                      returned'[i][k] = "pass"
               PROVE  demo \/ i \in answered'
    BY <1>1, <1>4 DEF AnswerInv
  <2>1. CASE i = T
    BY <1>8, <2>1 DEF T
  <2>2. CASE i # T
    BY <1>8, <2>2 DEF EvidenceInv, AnswerInv
  <2> QED BY <2>1, <2>2
<1>12. AheadInv'
  <2> SUFFICES ASSUME NEW n \in DOMAIN connected, n > turn \/ (n = turn /\ s = <<>>)
               PROVE  returned'[connected[n]] = <<>> /\ RowsOf(filed, connected[n], L) = 0
    BY <1>1 DEF AheadInv, L
  <2>1. CASE n = turn
    <3>1. connected[n] = T /\ s = <<>>
      BY <1>2, <1>3, <2>1 DEF EvidenceTypes
    <3> QED BY <1>6, <1>8, <3>1
  <2>2. CASE n # turn
    <3>1. connected[n] # T /\ n > turn
      BY <1>3, <2>2
    <3> QED BY <1>8, <1>9, <3>1 DEF EvidenceInv, AheadInv, L
  <2> QED BY <2>1, <2>2
<1>13. RestInv'
  <2>1. Rest(s, s, 0)
    <3>1. Len(s) \in Nat
      BY LenProperties DEF Listed
    <3> QED BY <3>1 DEF Rest
  <2> QED BY <1>1, <1>4, <1>6, <1>8, <2>1 DEF RestInv, L
<1>14. \A n \in DOMAIN filed : FiledOK(filed, n, returned')
  <2> TAKE n \in DOMAIN filed
  <2>1. filed[n].of # T /\ filed[n].of \in Collecting!Integrations
    <3>1. filed \in Seq(Rows) /\ n \in 1..Len(filed)
      BY <1>2, <1>5 DEF EvidenceTypes, L
    <3>2. filed[n] \in Rows
      BY <3>1, ElementOfSeq
    <3> QED BY <1>7, <3>2 DEF Rows
  <2>2. FiledOK(filed, n, returned)
    BY DEF EvidenceInv, FiledInv
  <2> QED BY <1>8, <2>1, <2>2 DEF FiledOK
<1>15. \A i \in Collecting!Integrations :
          \/ RowsOf(filed, i, L) = Len(returned'[i]) \/ i \in unfiled
          \/ s # <<>> /\ i = T
  <2> TAKE i \in Collecting!Integrations
  <2>1. CASE i = T
    <3>1. s = <<>> => Len(s) = 0
      OBVIOUS
    <3> QED BY <1>6, <1>8, <2>1, <3>1
  <2>2. CASE i # T
    BY <1>2, <1>8, <2>2 DEF EvidenceInv, FiledInv, L
  <2> QED BY <2>1, <2>2
<1>16. FiledInv'
  BY <1>1, <1>4, <1>14, <1>15 DEF FiledInv, L
<1> QED BY <1>1, <1>10, <1>11, <1>12, <1>13, <1>16 DEF EvidenceInv

(* The pass goes on without filing anything.                               *)
LEMMA EvidencePassed ==
    ASSUME EvidenceInv, turn <= Len(connected), items' = <<>>, turn' = turn + 1,
           UNCHANGED <<connected, demo, returned, answered, filed, recorded>>,
           unfiled \subseteq unfiled', items # <<>> => Collecting!Turn \in unfiled'
    PROVE  EvidenceInv'
<1>1. EvidenceTypes /\ turn \in Nat
  BY DEF EvidenceInv, EvidenceTypes
<1>2. Collecting!Integrations' = Collecting!Integrations
  BY DEF Collecting!Integrations
<1>3. EvidenceTypes'
  BY <1>1, <1>2 DEF EvidenceTypes, Rows
<1>4. AnswerInv'
  BY <1>2 DEF EvidenceInv, AnswerInv
<1>5. AheadInv'
  <2>1. \A n \in DOMAIN connected : n >= turn + 1 => n > turn
    <3>1. DOMAIN connected \subseteq Nat
      BY <1>1 DEF EvidenceTypes
    <3> QED BY <1>1, <3>1
  <2>2. ASSUME NEW n \in DOMAIN connected, n > turn + 1 \/ n = turn + 1
        PROVE  n > turn
    <3>1. n \in Nat
      BY <1>1 DEF EvidenceTypes
    <3> QED BY <1>1, <2>2, <3>1
  <2> QED BY <2>2 DEF EvidenceInv, AheadInv
<1>6. RestInv'
  BY DEF RestInv
<1>7. FiledInv'
  BY <1>2 DEF EvidenceInv, FiledInv
<1>8. recorded <= Len(filed) /\ (unfiled' = {} => recorded = Len(filed))
  BY DEF EvidenceInv
<1> QED BY <1>3, <1>4, <1>5, <1>6, <1>7, <1>8 DEF EvidenceInv

(* An item is filed, and the next one follows or the pass goes on.         *)
LEMMA EvidenceFiled ==
    ASSUME EvidenceInv, items # <<>>, filed' = Append(filed, Collecting!Row),
           NEW rest, Collecting!Onward(rest), unfiled \subseteq unfiled',
           \/ rest = Tail(items)
           \/ rest = <<>> /\ Collecting!Turn \in unfiled',
           recorded' \in Nat, recorded' <= Len(filed) + 1,
           unfiled' = {} => recorded' = Len(filed) + 1
    PROVE  EvidenceInv'
<1> DEFINE T == Collecting!Turn
           L == Len(filed)
           c == RowsOf(filed, T, L)
           all == returned[T]
           f == filed'
           next == Collecting!Row
<1>1. /\ items' = rest /\ turn' = IF rest = <<>> THEN turn + 1 ELSE turn
      /\ UNCHANGED <<connected, demo, returned, answered>>
  BY DEF Collecting!Onward, Collecting!given
<1>2. /\ EvidenceTypes /\ turn \in Nat \ {0} /\ turn <= Len(connected)
      /\ filed \in Seq(Rows) /\ items \in Seq(Collecting!Statuses)
  BY DEF EvidenceInv, EvidenceTypes
<1>3. /\ turn \in DOMAIN connected /\ T = connected[turn] /\ T \in Collecting!Integrations
      /\ \A n \in DOMAIN connected : n # turn => connected[n] # T
  BY <1>2, TurnIs
<1>4. /\ Collecting!Integrations' = Collecting!Integrations
      /\ rest # <<>> => Collecting!Turn' = T
  BY <1>1 DEF Collecting!Integrations, Collecting!Turn
<1>5. /\ Len(items) \in Nat \ {0} /\ Head(items) = items[1]
      /\ Tail(items) \in Seq(Collecting!Statuses)
      /\ Len(Tail(items)) = Len(items) - 1
      /\ \A k \in 1..Len(Tail(items)) : Tail(items)[k] = items[k + 1]
      /\ Head(items) \in Collecting!Statuses
  BY <1>2, EmptySeq, HeadTailProperties
<1>6. /\ next \in Rows /\ next.of = T /\ next.status = items[1]
  BY <1>3, <1>5 DEF Collecting!Row, Rows
<1>7. /\ f \in Seq(Rows) /\ Len(f) = L + 1 /\ L \in Nat /\ DOMAIN f = 1..(L + 1)
      /\ DOMAIN filed = 1..L
      /\ f[L + 1] = next /\ \A n \in 1..L : f[n] = filed[n]
  <2> HIDE DEF next
  <2>1. f = Append(filed, next)
    BY DEF next
  <2> HIDE DEF f
  <2> QED BY <1>2, <1>6, <2>1, AppendProperties, LenProperties
<1>8. Len(all) = c + Len(items) /\ \A k \in 1..Len(items) : items[k] = all[c + k]
  BY DEF EvidenceInv, RestInv, Rest
<1>9. all \in Seq(Collecting!Statuses) /\ returned'[T] = all
  BY <1>1, <1>2, <1>3 DEF EvidenceTypes
<1>10. DOMAIN all = 1..Len(all) /\ Len(all) \in Nat
  BY <1>9, LenProperties
<1>11. \A n \in 0..L : \A i : RowsOf(f, i, n) = RowsOf(filed, i, n)
  <2> SUFFICES ASSUME NEW n \in 0..L, NEW i PROVE RowsOf(f, i, n) = RowsOf(filed, i, n)
    OBVIOUS
  <2>1. n \in Nat /\ \A m \in 1..n : f[m] = filed[m]
    BY <1>7
  <2> HIDE DEF f
  <2> QED BY <2>1, RowsSame
<1>12. /\ c \in Nat /\ RowsOf(f, T, L + 1) = c + 1
       /\ \A i : i # T => RowsOf(f, i, L + 1) = RowsOf(filed, i, L)
  <2>1. \A i : RowsOf(f, i, L + 1) = RowsOf(f, i, L) + IF f[L + 1].of = i THEN 1 ELSE 0
    <3> TAKE i
    <3>1. L \in Nat
      BY <1>7
    <3> HIDE DEF f, L
    <3> QED BY <3>1, RowsCounted
  <2>2. \A i : RowsOf(filed, i, L) \in Nat
    BY <1>7, RowsCounted
  <2>3. \A i : RowsOf(f, i, L) = RowsOf(filed, i, L)
    BY <1>7, <1>11
  <2> HIDE DEF f, T, L, next
  <2> QED BY <1>6, <1>7, <2>1, <2>2, <2>3
<1> HIDE DEF T, L, c, all, f, next
<1>13. c + 1 \in DOMAIN all /\ items[1] = all[c + 1]
  BY <1>5, <1>8, <1>10, <1>12
<1>14. EvidenceTypes'
  <2>1. rest \in Seq(Collecting!Statuses)
    <3>1. rest = Tail(items) \/ rest = <<>>
      OBVIOUS
    <3>2. <<>> \in Seq(Collecting!Statuses)
      BY EmptySeq
    <3> QED BY <1>5, <3>1, <3>2
  <2> QED BY <1>1, <1>2, <1>4, <1>7, <2>1 DEF EvidenceTypes, Rows, f
<1>15. AnswerInv'
  BY <1>1, <1>4 DEF EvidenceInv, AnswerInv
<1>16. AheadInv'
  <2> SUFFICES ASSUME NEW n \in DOMAIN connected,
                      n > turn' \/ (n = turn' /\ rest = <<>>)
               PROVE  returned[connected[n]] = <<>> /\ RowsOf(f, connected[n], L + 1) = 0
    BY <1>1, <1>7 DEF AheadInv, f
  <2>1. n \in Nat
    BY <1>2 DEF EvidenceTypes
  <2>2. n > turn
    BY <1>1, <1>2, <2>1
  <2>3. connected[n] # T
    BY <1>2, <1>3, <2>1, <2>2
  <2> QED BY <1>12, <2>2, <2>3 DEF EvidenceInv, AheadInv, L
<1>17. RestInv'
  <2> SUFFICES ASSUME rest # <<>> PROVE Rest(rest, all, c + 1)
    BY <1>1, <1>4, <1>7, <1>9, <1>12 DEF RestInv, f
  <2>1. rest = Tail(items)
    OBVIOUS
  <2>2. Len(all) = (c + 1) + Len(rest)
    BY <1>5, <1>8, <1>12, <2>1
  <2>3. ASSUME NEW k \in 1..Len(rest) PROVE rest[k] = all[(c + 1) + k]
    <3>1. k + 1 \in 1..Len(items) /\ rest[k] = items[k + 1]
      BY <1>5, <2>1
    <3>2. c + (k + 1) = (c + 1) + k
      BY <1>12
    <3> QED BY <1>8, <3>1, <3>2
  <2> QED BY <2>2, <2>3 DEF Rest
<1>18. \A n \in 1..(L + 1) : FiledOK(f, n, returned)
  <2> TAKE n \in 1..(L + 1)
  <2>1. CASE n = L + 1
    BY <1>6, <1>7, <1>12, <1>13, <2>1 DEF FiledOK, all
  <2>2. CASE n # L + 1
    <3>1. n \in 1..L /\ n \in 0..L
      BY <1>7, <2>2
    <3>2. FiledOK(filed, n, returned)
      BY <1>7, <3>1 DEF EvidenceInv, FiledInv
    <3> QED BY <1>7, <1>11, <3>1, <3>2 DEF FiledOK
  <2> QED BY <2>1, <2>2
<1>19. \A i \in Collecting!Integrations :
          \/ RowsOf(f, i, L + 1) = Len(returned[i]) \/ i \in unfiled'
          \/ rest # <<>> /\ i = T
  <2> TAKE i \in Collecting!Integrations
  <2>1. CASE i = T
    <3>1. CASE rest = Tail(items) /\ rest = <<>>
      <4>1. Len(items) = 1
        BY <1>5, <3>1
      <4> QED BY <1>8, <1>12, <2>1, <4>1 DEF all
    <3> QED BY <2>1, <3>1 DEF T
  <2>2. CASE i # T
    BY <1>12, <2>2 DEF EvidenceInv, FiledInv, L, T
  <2> QED BY <2>1, <2>2
<1>20. FiledInv'
  <2>1. \A n \in DOMAIN f : FiledOK(f, n, returned)
    BY <1>7, <1>18
  <2>2. \A i \in Collecting!Integrations :
           \/ RowsOf(f, i, Len(f)) = Len(returned[i]) \/ i \in unfiled'
           \/ items' # <<>> /\ i = Collecting!Turn'
    BY <1>1, <1>4, <1>7, <1>19
  <2> QED BY <1>1, <1>4, <2>1, <2>2 DEF FiledInv, f
<1>21. recorded' <= Len(filed') /\ (unfiled' = {} => recorded' = Len(filed'))
  BY <1>7 DEF f, L
<1> QED BY <1>14, <1>15, <1>16, <1>17, <1>20, <1>21 DEF EvidenceInv

LEMMA EvidenceStep == EvidenceInv /\ [Collecting!CollectorsNext]_evidence => EvidenceInv'
<1> SUFFICES ASSUME EvidenceInv, [Collecting!CollectorsNext]_evidence PROVE EvidenceInv'
  OBVIOUS
<1>1. /\ EvidenceTypes /\ recorded \in Nat /\ Len(filed) \in Nat
      /\ recorded <= Len(filed) /\ (unfiled = {} => recorded = Len(filed))
  BY LenProperties DEF EvidenceInv, EvidenceTypes
<1>2. ASSUME UNCHANGED <<connected, demo, turn, items, filed, recorded, returned,
                         answered, unfiled>>
      PROVE  EvidenceInv'
  BY <1>2 DEF EvidenceInv, EvidenceTypes, AnswerInv, AheadInv, RestInv, FiledInv, Rows,
     Collecting!Integrations, Collecting!Turn
<1>3. CASE UNCHANGED evidence
  BY <1>2, <1>3 DEF evidence
<1>4. CASE Collecting!Skip
  BY <1>4, EvidencePassed
     DEF Collecting!Skip, Collecting!Idle, Collecting!InTurn, Collecting!given
<1>5. CASE Collecting!CollectDemo
  <2>1. Collecting!ItemsUnasked \in Listed
    BY <1>5, ItemsCollected DEF Collecting!CollectDemo, Collecting!ItemsUnasked
  <2> QED BY <1>5, <2>1, EvidenceReturned DEF Collecting!CollectDemo
<1>6. CASE Collecting!CollectNothing
  <2>1. Collecting!ItemsUnasked \in Listed /\ NoPass(Collecting!ItemsUnasked)
    BY <1>6, ItemsCollected DEF Collecting!CollectNothing, Collecting!ItemsUnasked
  <2> QED BY <1>6, <2>1, EvidenceReturned DEF Collecting!CollectNothing, NoPass
<1>7. CASE Collecting!AssumeNoRole
  BY <1>7, ItemLists, EvidenceReturned DEF Collecting!AssumeNoRole, NoPass
<1>8. CASE Collecting!CollectLive
  <2>1. PICK first \in Collecting!Replies, second \in Collecting!Replies,
             branches \in {"pass", "warn"}, boto3 \in BOOLEAN :
           /\ Collecting!Return(Collecting!Items(first, second, branches, boto3))
           /\ answered' = IF "ok" \in {first, second}
                            THEN answered \cup {Collecting!Turn} ELSE answered
    BY <1>8, Zenon DEF Collecting!CollectLive
  <2> DEFINE s == Collecting!Items(first, second, branches, boto3)
  <2>2. Collecting!Idle /\ Collecting!Turn \in Collecting!Collected /\ ~demo
    BY <1>8 DEF Collecting!CollectLive
  <2>3. s \in Listed /\ (first # "ok" /\ second # "ok" => NoPass(s))
    BY <2>2, ItemsCollected
  <2>4. Collecting!Return(s)
    BY <2>1
  <2> HIDE DEF s
  <2>5. \A k \in DOMAIN s : s[k] = "pass" => Collecting!Turn \in answered'
    BY <2>1, <2>3 DEF NoPass
  <2>6. answered \subseteq answered'
    BY <2>1
  <2> QED BY <2>2, <2>3, <2>4, <2>5, <2>6, EvidenceReturned
<1>9. CASE Collecting!File
  <2> DEFINE rest == Tail(items)
  <2>1. /\ items # <<>> /\ filed' = Append(filed, Collecting!Row)
        /\ recorded' = recorded + 1 /\ Collecting!Onward(rest) /\ unfiled' = unfiled
    BY <1>9 DEF Collecting!File
  <2>2. /\ recorded' \in Nat /\ recorded' <= Len(filed) + 1
        /\ unfiled' = {} => recorded' = Len(filed) + 1
    BY <1>1, <2>1
  <2>3. rest = Tail(items)
    OBVIOUS
  <2> HIDE DEF rest
  <2> QED BY <2>1, <2>2, <2>3, EvidenceFiled
<1>10. CASE Collecting!FailToFile
  BY <1>1, <1>10, EvidencePassed
     DEF Collecting!FailToFile, Collecting!Onward, Collecting!given, EvidenceTypes
<1>11. CASE Collecting!LoseCommit
  BY <1>1, <1>11, EvidenceFiled DEF Collecting!LoseCommit
<1>12. ASSUME NEW i, \/ Collecting!ExpireAccess(i) \/ Collecting!EndRefresh(i)
                     \/ Collecting!ProbeRefreshing(i) \/ Collecting!LoseProbe(i)
                     \/ Collecting!ProbeStored(i)
       PROVE  EvidenceInv'
  <2>1. UNCHANGED <<Collecting!given, Collecting!passVars>>
    BY <1>12, Zenon DEF Collecting!ExpireAccess, Collecting!EndRefresh,
       Collecting!ProbeRefreshing, Collecting!LoseProbe, Collecting!ProbeStored
  <2> QED BY <1>2, <2>1 DEF Collecting!given, Collecting!passVars
<1> QED
  BY <1>3, <1>4, <1>5, <1>6, <1>7, <1>8, <1>9, <1>10, <1>11, <1>12
     DEF Collecting!CollectorsNext

-----------------------------------------------------------------------------
LEMMA EvidenceIsTrue == EvidenceInv => Collecting!EvidenceTrue
<1> SUFFICES ASSUME EvidenceInv PROVE Collecting!EvidenceTrue
  OBVIOUS
<1>1. EvidenceTypes /\ DOMAIN filed = 1..Len(filed)
  BY LenProperties DEF EvidenceInv, EvidenceTypes
<1>2. ASSUME NEW n \in DOMAIN filed
      PROVE  LET i == filed[n].of
                 k == RowsOf(filed, i, n)
             IN  /\ filed[n].status = "pass" => demo \/ i \in answered
                 /\ k \in DOMAIN returned[i] /\ filed[n].status = returned[i][k]
  <2> DEFINE i == filed[n].of
             k == RowsOf(filed, i, n)
  <2>1. filed[n] \in Rows
    BY <1>1, ElementOfSeq DEF EvidenceTypes
  <2>2. i \in Collecting!Integrations
    BY <2>1 DEF Rows
  <2>3. k \in DOMAIN returned[i] /\ filed[n].status = returned[i][k]
    BY DEF EvidenceInv, FiledInv, FiledOK
  <2> HIDE DEF i, k
  <2>4. filed[n].status = "pass" => demo \/ i \in answered
    BY <2>2, <2>3 DEF EvidenceInv, AnswerInv
  <2> QED BY <2>3, <2>4 DEF i, k
<1> QED BY <1>2 DEF EvidenceInv, FiledInv, RowsOf, Collecting!EvidenceTrue

(* What is filed as evidence was returned by its collector, in its order,  *)
(* and a pass among it was said by an integration that answered, but in a  *)
(* demonstration; a metric's value is what the SIEM said, unless it was    *)
(* not asked or failed, for any integrations, metrics and numbers of       *)
(* events.                                                                 *)
THEOREM SourcesAreTrue == GovernanceSpec => []SourcesTrue
<1>1. GovernanceInit => EvidenceInv /\ ValueInv
  BY EvidenceInitially, ValueInitially
<1>2. EvidenceInv /\ [GovernanceNext]_governanceVars => EvidenceInv'
  BY EvidenceMoves, EvidenceStep
<1>3. ValueInv /\ [GovernanceNext]_governanceVars => ValueInv'
  BY MetricsMove, ValueStep
<1>4. EvidenceInv => Collecting!EvidenceTrue
  BY EvidenceIsTrue
<1>5. ValueInv => Measuring!ValuesTrue
  BY DEF ValueInv, ValueOK, Measuring!ValuesTrue
<1> QED BY <1>1, <1>2, <1>3, <1>4, <1>5, PTL DEF GovernanceSpec, SourcesTrue

-----------------------------------------------------------------------------
(* The bounds of tickets, lists, defaults, passes and servers              *)

(* A provider knows the keys that were given out, and asks are for those.  *)
TicketBounds ==
    /\ keys <= MaxKeys /\ assets \in [{"live", "demo"} -> 0..MaxSyncs]
    /\ opened \subseteq 1..keys /\ closed \subseteq 1..keys /\ lost \subseteq 1..keys
    /\ contested \subseteq Tasks
    /\ \A h \in Requests : ticketing[h].ask \subseteq 1..keys

LEMMA TicketBoundsInitially == GovernanceInit => TicketBounds
<1> SUFFICES ASSUME GovernanceInit PROVE TicketBounds
  OBVIOUS
<1>1. /\ ticketing = [h \in Requests |-> Ticketing!Resting]
      /\ assets = [origin \in {"live", "demo"} |-> 0]
      /\ keys = 0 /\ opened = {} /\ closed = {} /\ lost = {} /\ contested = {}
  BY DEF GovernanceInit, Ticketing!TicketsInit
<1>2. MaxKeys \in Nat /\ MaxSyncs \in Nat
  BY GovernanceAssumption
<1>3. \A h \in Requests : ticketing[h].ask = {}
  BY <1>1 DEF Ticketing!Resting
<1> QED BY <1>1, <1>2, <1>3 DEF TicketBounds

LEMMA TicketBoundsStep ==
    TicketInv /\ TicketBounds /\ [Ticketing!TicketsNext]_tickets => TicketBounds'
<1> SUFFICES ASSUME TicketInv, TicketBounds, [Ticketing!TicketsNext]_tickets
             PROVE  TicketBounds'
  OBVIOUS
<1>1. /\ keys \in Nat /\ keys <= MaxKeys /\ MaxKeys \in Nat /\ MaxSyncs \in Nat
      /\ assets \in [{"live", "demo"} -> 0..MaxSyncs]
      /\ opened \subseteq 1..keys /\ closed \subseteq 1..keys /\ lost \subseteq 1..keys
      /\ contested \subseteq Tasks
      /\ ticketing \in [Requests -> TicketRequests]
      /\ \A h \in Requests : ticketing[h].ask \subseteq 1..keys
  BY GovernanceAssumption DEF TicketInv, TicketTypes, TicketBounds
<1>2. Ticketing!Resting \in TicketRequests /\ Ticketing!Resting.ask = {}
  BY RestingTicket DEF Ticketing!Resting
(* A step that changes one request, and gives out no key.                  *)
<1>3. ASSUME UNCHANGED <<keys, assets>>, contested' \subseteq Tasks,
             opened' \subseteq 1..keys, closed' \subseteq 1..keys, lost' \subseteq 1..keys,
             \/ UNCHANGED ticketing
             \/ \E h \in Requests : \E r \in TicketRequests :
                   ticketing' = [ticketing EXCEPT ![h] = r] /\ r.ask \subseteq 1..keys
      PROVE  TicketBounds'
  <2>1. \A h \in Requests : ticketing'[h].ask \subseteq 1..keys
    BY <1>1, <1>3
  <2> QED BY <1>1, <1>3, <2>1 DEF TicketBounds
<1>4. CASE Ticketing!SyncCmdb
  <2>1. PICK origin \in {"live", "demo"} :
           /\ assets["live"] + assets["demo"] < MaxSyncs
           /\ assets' = [assets EXCEPT ![origin] = @ + 1]
    BY <1>4 DEF Ticketing!SyncCmdb
  <2>2. assets["live"] \in 0..MaxSyncs /\ assets["demo"] \in 0..MaxSyncs
    BY <1>1
  <2>3. assets[origin] + 1 \in 0..MaxSyncs
    BY <1>1, <2>1, <2>2
  <2>4. assets' \in [{"live", "demo"} -> 0..MaxSyncs]
    BY <1>1, <2>1, <2>3
  <2> QED BY <1>1, <1>4, <2>4 DEF Ticketing!SyncCmdb, Ticketing!providerVars, TicketBounds
<1>5. ASSUME NEW t \in Tasks, Ticketing!CreateFromGap(t) \/ Ticketing!UpdateTask(t)
      PROVE  TicketBounds'
  BY <1>1, <1>3, <1>5 DEF Ticketing!CreateFromGap, Ticketing!UpdateTask,
     Ticketing!providerVars
<1>6. ASSUME NEW key \in Ticketing!Keys, Ticketing!CloseTicket(key) PROVE TicketBounds'
  BY <1>1, <1>3, <1>6 DEF Ticketing!CloseTicket, Ticketing!taskVars
<1>7. ASSUME NEW h \in Requests, NEW op \in {"create", "sync", "pull"},
             NEW todo \in SUBSET Tasks, NEW ask \in SUBSET (1..keys),
             Ticketing!Enter(h, op, todo, ask)
      PROVE  \E r \in TicketRequests :
                ticketing' = [ticketing EXCEPT ![h] = r] /\ r.ask \subseteq 1..keys
  <2> DEFINE r == [Ticketing!Resting EXCEPT !.op = op, !.todo = todo, !.ask = ask]
  <2>1. ask \subseteq Nat
    BY <1>1
  <2>2. r \in TicketRequests /\ r.ask = ask
    BY <2>1 DEF Ticketing!Resting, TicketRequests
  <2> QED BY <1>7, <2>2 DEF Ticketing!Enter, Ticketing!Set
<1>8. ASSUME NEW h \in Requests, NEW t \in Tasks, Ticketing!BeginCreate(h, t)
      PROVE  TicketBounds'
  <2>1. /\ UNCHANGED <<keys, assets, opened, closed, lost, contested>>
        /\ Ticketing!Enter(h, "create", {t}, {}) \/ UNCHANGED ticketing
    BY <1>8 DEF Ticketing!BeginCreate, Ticketing!providerVars
  <2>2. {t} \in SUBSET Tasks /\ {} \in SUBSET (1..keys)
    OBVIOUS
  <2>3. \/ UNCHANGED ticketing
        \/ \E r \in TicketRequests :
              ticketing' = [ticketing EXCEPT ![h] = r] /\ r.ask \subseteq 1..keys
    BY <1>7, <2>1, <2>2
  <2> QED BY <1>1, <1>3, <2>1, <2>3
<1>9. ASSUME NEW h \in Requests, Ticketing!BeginSync(h) PROVE TicketBounds'
  <2>1. /\ UNCHANGED <<keys, assets, opened, closed, lost>>
        /\ contested' \subseteq contested \cup Ticketing!Unticketed
        /\ Ticketing!Enter(h, "sync", Ticketing!Unticketed, {})
    BY <1>9 DEF Ticketing!BeginSync, Ticketing!providerVars, Ticketing!taskVars
  <2>2. Ticketing!Unticketed \in SUBSET Tasks /\ {} \in SUBSET (1..keys)
    BY DEF Ticketing!Unticketed
  <2>3. \E r \in TicketRequests :
           ticketing' = [ticketing EXCEPT ![h] = r] /\ r.ask \subseteq 1..keys
    BY <1>7, <2>1, <2>2
  <2> QED BY <1>1, <1>3, <2>1, <2>2, <2>3
<1>10. ASSUME NEW h \in Requests, Ticketing!BeginPull(h) PROVE TicketBounds'
  <2>1. UNCHANGED <<keys, assets, opened, closed, lost, contested>>
    BY <1>10 DEF Ticketing!BeginPull, Ticketing!providerVars, Ticketing!taskVars
  <2>2. /\ {} \in SUBSET Tasks
        /\ {r.key : r \in records} \ closedHere \in SUBSET (1..keys)
    BY DEF TicketInv, KeyInv
  <2>3. Ticketing!Enter(h, "pull", {}, {r.key : r \in records} \ closedHere)
    BY <1>10 DEF Ticketing!BeginPull
  <2>4. \E r \in TicketRequests :
           ticketing' = [ticketing EXCEPT ![h] = r] /\ r.ask \subseteq 1..keys
    BY <1>7, <2>2, <2>3
  <2> QED BY <1>1, <1>3, <2>1, <2>4
<1>11. ASSUME NEW h \in Requests, Ticketing!Set(h, Ticketing!Resting),
              UNCHANGED <<keys, assets, opened, closed, contested>>,
              lost' \subseteq 1..keys
       PROVE  TicketBounds'
  BY <1>1, <1>2, <1>3, <1>11 DEF Ticketing!Set
<1>12. ASSUME NEW h \in Requests,
              \/ Ticketing!CommitTickets(h) \/ Ticketing!Abort(h)
              \/ Ticketing!CommitPull(h)
       PROVE  TicketBounds'
  <2>1. CASE Ticketing!CommitTickets(h)
    BY <1>1, <1>11, <2>1 DEF Ticketing!CommitTickets, Ticketing!providerVars
  <2>2. CASE Ticketing!Abort(h)
    <3>1. lost' \subseteq lost \cup opened
      BY <2>2 DEF Ticketing!Abort
    <3> QED BY <1>1, <1>11, <2>2, <3>1 DEF Ticketing!Abort, Ticketing!taskVars
  <2>3. CASE Ticketing!CommitPull(h)
    BY <1>1, <1>11, <2>3 DEF Ticketing!CommitPull, Ticketing!providerVars
  <2> QED BY <1>12, <2>1, <2>2, <2>3
<1>13. ASSUME NEW h \in Requests, Ticketing!PullStatus(h) PROVE TicketBounds'
  <2>1. PICK key \in ticketing[h].ask :
           Ticketing!Set(h, [ticketing[h] EXCEPT !.ask = @ \ {key}, !.seen = @ \cup {key}])
    BY <1>13 DEF Ticketing!PullStatus
  <2> DEFINE q == ticketing[h]
             more == q.seen \cup {key}
             r == [q EXCEPT !.ask = q.ask \ {key}, !.seen = more]
  <2>2. q \in TicketRequests /\ q.ask \subseteq 1..keys /\ key \in Nat
    BY <1>1 DEF TicketRequests
  <2>3. more \subseteq Nat
    BY <2>2 DEF TicketRequests
  <2> HIDE DEF more
  <2>4. r \in TicketRequests /\ r.ask \subseteq 1..keys
    BY <2>2, <2>3 DEF TicketRequests
  <2>5. ticketing' = [ticketing EXCEPT ![h] = r]
    BY <2>1 DEF Ticketing!Set, more
  <2>6. UNCHANGED <<keys, assets, opened, closed, lost, contested>>
    BY <1>13 DEF Ticketing!PullStatus, Ticketing!taskVars, Ticketing!providerVars
  <2> QED BY <1>1, <1>3, <2>4, <2>5, <2>6
(* A key that is given out, and the one before it whose answer was lost.   *)
<1>14. ASSUME NEW h \in Requests, NEW k \in Nat, keys < k, k <= MaxKeys, keys' = k,
              NEW t, ticketing' = [ticketing EXCEPT ![h] = WithTicket(ticketing[h], t, k)],
              UNCHANGED <<assets, closed, contested>>,
              opened' \subseteq 1..k, lost' \subseteq 1..k
       PROVE  TicketBounds'
  <2>1. 1..keys \subseteq 1..k
    BY <1>1, <1>14
  <2>2. WithTicket(ticketing[h], t, k).ask = ticketing[h].ask
    BY <1>1 DEF TicketRequests, WithTicket
  <2>3. \A g \in Requests : ticketing'[g].ask = ticketing[g].ask
    BY <1>1, <1>14, <2>2
  <2>4. \A g \in Requests : ticketing'[g].ask \subseteq 1..k
    BY <1>1, <2>1, <2>3
  <2> QED BY <1>1, <1>14, <2>1, <2>4 DEF TicketBounds
<1>15. ASSUME NEW h \in Requests, Ticketing!OpenTicket(h) PROVE TicketBounds'
  <2> DEFINE k == keys + 1
  <2>1. PICK t \in ticketing[h].todo :
           ticketing' = [ticketing EXCEPT ![h] = WithTicket(ticketing[h], t, k)]
    BY <1>15 DEF Ticketing!OpenTicket, Ticketing!Set, WithTicket
  <2>2. /\ keys < MaxKeys /\ keys' = k /\ UNCHANGED <<assets, closed, contested, lost>>
        /\ opened' \subseteq opened \cup {k}
    BY <1>15 DEF Ticketing!OpenTicket, Ticketing!taskVars
  <2>3. k \in Nat /\ keys < k /\ k <= MaxKeys /\ 1..keys \subseteq 1..k /\ k \in 1..k
    BY <1>1, <2>2
  <2>4. opened' \subseteq 1..k /\ lost' \subseteq 1..k
    BY <1>1, <2>2, <2>3
  <2> HIDE DEF k
  <2> QED BY <1>14, <2>1, <2>2, <2>3, <2>4
<1>16. ASSUME NEW h \in Requests, Ticketing!LoseAnswer(h) PROVE TicketBounds'
  <2> DEFINE k == keys + 2
  <2>1. PICK t \in ticketing[h].todo :
           ticketing' = [ticketing EXCEPT ![h] = WithTicket(ticketing[h], t, k)]
    BY <1>16 DEF Ticketing!LoseAnswer, Ticketing!Set, WithTicket
  <2>2. /\ k <= MaxKeys /\ keys' = k /\ UNCHANGED <<assets, closed, contested>>
        /\ opened' = opened \cup {keys + 1} /\ lost' = lost \cup {keys + 1}
    BY <1>16 DEF Ticketing!LoseAnswer, Ticketing!taskVars
  <2>3. k \in Nat /\ keys < k /\ 1..keys \subseteq 1..k /\ keys + 1 \in 1..k
    BY <1>1
  <2>4. opened' \subseteq 1..k /\ lost' \subseteq 1..k
    BY <1>1, <2>2, <2>3
  <2> HIDE DEF k
  <2> QED BY <1>14, <2>1, <2>2, <2>3, <2>4
<1>17. CASE UNCHANGED tickets
  BY <1>1, <1>17 DEF tickets, TicketBounds
<1> QED BY <1>4, <1>5, <1>6, <1>8, <1>9, <1>10, <1>12, <1>13, <1>15, <1>16, <1>17
        DEF Ticketing!TicketsNext

LEMMA TicketsTyped == TicketInv /\ TicketBounds => Ticketing!TicketsTypeOK
<1> SUFFICES ASSUME TicketInv, TicketBounds PROVE Ticketing!TicketsTypeOK
  OBVIOUS
<1>1. keys \in Nat /\ keys <= MaxKeys /\ MaxKeys \in Nat
  BY GovernanceAssumption DEF TicketInv, TicketTypes, TicketBounds
<1>2. 1..keys \subseteq Ticketing!Keys
  BY <1>1 DEF Ticketing!Keys
<1>3. records \subseteq Ticketing!Pairs
  <2>1. \A x \in records : x \in Ticketed /\ x.key \in 1..keys
    BY DEF TicketInv, TicketTypes, KeyInv
  <2> QED BY <1>2, <2>1 DEF Ticketed, Ticketing!Pairs
<1>4. closedHere \subseteq Ticketing!Keys
  BY <1>2 DEF TicketInv, OpenInv, TicketBounds
<1>5. ASSUME NEW t \in Tasks
      PROVE  tasks[t] \in [status: {"absent", "open", "completed"},
                           ticket: Ticketing!Keys \cup {Ticketing!None}]
  <2>1. /\ tasks[t] \in [status: {"absent", "open", "completed"}, ticket: Nat]
        /\ tasks[t].ticket # 0
              => [task |-> t, key |-> tasks[t].ticket] \in records
    BY DEF TicketInv, TicketTypes, TaskInv
  <2>2. [task |-> t, key |-> tasks[t].ticket] \in records
           => tasks[t].ticket \in Ticketing!Keys
    BY <1>3 DEF Ticketing!Pairs
  <2> QED BY <2>1, <2>2 DEF Ticketing!None
<1>6. tasks \in [Tasks -> [status: {"absent", "open", "completed"},
                           ticket: Ticketing!Keys \cup {Ticketing!None}]]
  BY <1>5 DEF TicketInv, TicketTypes
<1>7. ASSUME NEW h \in Requests
      PROVE  ticketing[h] \in [op: {"idle", "create", "sync", "pull"},
                               todo: SUBSET Tasks, got: SUBSET Ticketing!Pairs,
                               ask: SUBSET Ticketing!Keys, seen: SUBSET Ticketing!Keys]
  <2>1. /\ ticketing[h] \in TicketRequests /\ ticketing[h].ask \subseteq 1..keys
        /\ ticketing[h].seen \subseteq 1..keys
        /\ \A x \in ticketing[h].got : x.key \in 1..keys
    BY DEF TicketInv, TicketTypes, TicketBounds, KeyInv, RequestOK
  <2>2. ticketing[h].got \subseteq Ticketing!Pairs
    <3>1. \A x \in ticketing[h].got : x \in Ticketed
      BY <2>1 DEF TicketRequests
    <3> QED BY <1>2, <2>1, <3>1 DEF Ticketed, Ticketing!Pairs
  <2> QED BY <1>2, <2>1, <2>2 DEF TicketRequests
<1>8. ticketing \in [Requests ->
                        [op: {"idle", "create", "sync", "pull"},
                         todo: SUBSET Tasks, got: SUBSET Ticketing!Pairs,
                         ask: SUBSET Ticketing!Keys, seen: SUBSET Ticketing!Keys]]
  BY <1>7 DEF TicketInv, TicketTypes
<1> QED BY <1>3, <1>4, <1>6, <1>8 DEF TicketBounds, Ticketing!TicketsTypeOK

-----------------------------------------------------------------------------
(* The bounds of lists: a row entered by hand is a row, and the words are  *)
(* those of the list.                                                      *)
Count == [Items -> 0..MaxRows]
Tally == [Items -> 0..(MaxRows + MaxGiven)]
Said == Lists!States(list) \cup {"absent"}

RosterWords ==
    /\ source \in [Items -> Said] /\ state \in [Items -> Said]
    /\ ever \in [Items -> SUBSET Lists!States(list)]
    /\ \A h \in Requests : passing[h].fetched \in [Items -> Said]

RosterCounts ==
    /\ rows \in Count /\ byHand \in Count
    /\ incidents \in Tally /\ scored \in Tally /\ given \in [Items -> 0..MaxGiven]
    /\ list = "devices" => \A i \in Items : byHand[i] <= rows[i]
    /\ \A h \in Requests :
          passing[h].counts \in Tally /\ passing[h].at \in 0..(Last + 1)

RosterFlags == handled \in BOOLEAN /\ missed \subseteq {"twice", "page", "failed"}

LEMMA RosterInitially == GovernanceInit => RosterWords /\ RosterCounts /\ RosterFlags
<1> SUFFICES ASSUME GovernanceInit PROVE RosterWords /\ RosterCounts /\ RosterFlags
  OBVIOUS
<1>1. /\ source = [i \in Items |-> "absent"] /\ state = [i \in Items |-> "absent"]
      /\ rows = [i \in Items |-> 0] /\ byHand = [i \in Items |-> 0]
      /\ incidents = [i \in Items |-> 0] /\ given = [i \in Items |-> 0]
      /\ scored = [i \in Items |-> 0]
      /\ passing = [h \in Requests |-> Lists!Resting]
      /\ ever = [i \in Items |-> {}]
  BY DEF GovernanceInit, Lists!RosterInit, Lists!Nothing, Lists!Zero, Items
<1>2. RosterFlags
  BY DEF GovernanceInit, Lists!RosterInit, RosterFlags
<1>3. MaxRows \in Nat /\ MaxGiven \in Nat /\ Last \in Nat
  BY GovernanceAssumption
<1>4. RosterWords
  BY <1>1, RestingPass DEF RosterWords, Said
<1>5. RosterCounts
  <2>1. /\ [i \in Items |-> 0] \in Count /\ [i \in Items |-> 0] \in Tally
        /\ [i \in Items |-> 0] \in [Items -> 0..MaxGiven]
    BY <1>3 DEF Count, Tally
  <2>2. 0 \in 0..(Last + 1)
    BY <1>3
  <2> QED BY <1>1, <2>1, <2>2, RestingPass DEF RosterCounts
<1> QED BY <1>2, <1>4, <1>5

(* What a request comes to holds words and counts of the tables.           *)
LEMMA PassBounded ==
    ASSUME ListInv, RosterWords, RosterCounts, NEW h \in Requests, NEW r \in Passes,
           passing' = [passing EXCEPT ![h] = r],
           r.fetched \in [Items -> Said], r.counts \in Tally, r.at \in 0..(Last + 1)
    PROVE  \A g \in Requests :
              /\ passing'[g].fetched \in [Items -> Said]
              /\ passing'[g].counts \in Tally /\ passing'[g].at \in 0..(Last + 1)
<1>1. /\ passing'[h] = r
      /\ \A g \in Requests \ {h} : passing'[g] = passing[g]
  BY DEF ListInv, ListTypes
<1> QED BY <1>1 DEF RosterWords, RosterCounts

(* A pass takes the next item, or leaves the rest out.                     *)
LEMMA PassAdvances ==
    ASSUME ListInv, RosterWords, RosterCounts, NEW h \in Requests,
           NEW at \in 0..(Last + 1), NEW ins \in SUBSET Items, NEW upd \in SUBSET Items,
           Lists!Set(h, [passing[h] EXCEPT !.at = at, !.ins = ins, !.upd = upd])
    PROVE  \A g \in Requests :
              /\ passing'[g].fetched \in [Items -> Said]
              /\ passing'[g].counts \in Tally /\ passing'[g].at \in 0..(Last + 1)
<1> DEFINE q == passing[h]
           r == [q EXCEPT !.at = at, !.ins = ins, !.upd = upd]
<1>1. q \in Passes /\ at \in Nat
  BY GovernanceAssumption DEF ListInv, ListTypes
<1>2. /\ r \in Passes /\ r.fetched = q.fetched /\ r.counts = q.counts /\ r.at = at
  BY <1>1 DEF Passes
<1>3. q.fetched \in [Items -> Said] /\ q.counts \in Tally
  BY DEF RosterWords, RosterCounts
<1>4. passing' = [passing EXCEPT ![h] = r]
  BY DEF Lists!Set
<1> HIDE DEF r, q
<1> QED BY <1>2, <1>3, <1>4, PassBounded

LEMMA RosterStep ==
    ListInv /\ RosterWords /\ RosterCounts /\ RosterFlags /\ [Lists!RosterNext]_lists
        => RosterWords' /\ RosterCounts' /\ RosterFlags'
<1> SUFFICES ASSUME ListInv, RosterWords, RosterCounts, RosterFlags,
                    [Lists!RosterNext]_lists
             PROVE  RosterWords' /\ RosterCounts' /\ RosterFlags'
  OBVIOUS
<1> DEFINE PassesOK == \A g \in Requests :
              /\ passing'[g].fetched \in [Items -> Said]
              /\ passing'[g].counts \in Tally /\ passing'[g].at \in 0..(Last + 1)
           TablesStay == UNCHANGED <<rows, state, incidents, given, scored, byHand, handled>>
<1>1. /\ source \in [Items -> Said] /\ state \in [Items -> Said]
      /\ ever \in [Items -> SUBSET Lists!States(list)]
      /\ rows \in Count /\ byHand \in Count
      /\ incidents \in Tally /\ scored \in Tally /\ given \in [Items -> 0..MaxGiven]
      /\ \A h \in Requests : /\ passing[h] \in Passes
                             /\ passing[h].fetched \in [Items -> Said]
                             /\ passing[h].counts \in Tally
                             /\ passing[h].at \in 0..(Last + 1)
      /\ MaxRows \in Nat /\ MaxRows # 0 /\ MaxGiven \in Nat /\ Last \in Nat
  BY GovernanceAssumption DEF ListInv, ListTypes, RosterWords, RosterCounts
<1>2. ASSUME list' = list, source' \in [Items -> Said], state' \in [Items -> Said],
             ever' \in [Items -> SUBSET Lists!States(list)], PassesOK
      PROVE  RosterWords'
  BY <1>2 DEF RosterWords, Said
<1>3. ASSUME list' = list, PassesOK, rows' \in Count, byHand' \in Count,
             incidents' \in Tally, scored' \in Tally, given' \in [Items -> 0..MaxGiven],
             list = "devices" => \A i \in Items : byHand'[i] <= rows'[i]
      PROVE  RosterCounts'
  BY <1>3 DEF RosterCounts, Count, Tally
<1>4. ASSUME UNCHANGED passing PROVE PassesOK
  BY <1>1, <1>4
<1>5. ASSUME list' = list, TablesStay, PassesOK, missed' \subseteq {"twice", "page", "failed"},
             source' \in [Items -> Said], ever' \in [Items -> SUBSET Lists!States(list)]
      PROVE  RosterWords' /\ RosterCounts' /\ RosterFlags'
  BY <1>1, <1>2, <1>3, <1>5 DEF RosterCounts, RosterFlags
<1>6. RosterFlags => missed \subseteq {"twice", "page", "failed"}
  BY DEF RosterFlags
<1>7. ASSUME NEW i \in Items, NEW s \in Lists!States(list), Lists!Change(i, s)
      PROVE  RosterWords' /\ RosterCounts' /\ RosterFlags'
  <2>1. /\ source' = [source EXCEPT ![i] = s]
        /\ ever' = [ever EXCEPT ![i] = ever[i] \cup {s}]
        /\ TablesStay /\ UNCHANGED <<list, passing, missed>>
    BY <1>7 DEF Lists!Change, Lists!tableVars
  <2>2. source' \in [Items -> Said] /\ ever' \in [Items -> SUBSET Lists!States(list)]
    BY <1>1, <2>1 DEF Said
  <2> QED BY <1>4, <1>5, <1>6, <2>1, <2>2
<1>8. ASSUME NEW i \in Items, NEW s \in Lists!States(list), Lists!RegisterDevice(i, s)
      PROVE  RosterWords' /\ RosterCounts' /\ RosterFlags'
  <2>1. /\ list = "devices" /\ rows[i] < MaxRows
        /\ rows' = [rows EXCEPT ![i] = rows[i] + 1]
        /\ byHand' = [byHand EXCEPT ![i] = byHand[i] + 1]
        /\ state' = [state EXCEPT ![i] = IF state[i] = "absent" THEN s ELSE state[i]]
        /\ ever' = [ever EXCEPT ![i] = ever[i] \cup {s}]
        /\ UNCHANGED <<list, source, incidents, given, scored, handled, passing, missed>>
    BY <1>8 DEF Lists!RegisterDevice
  <2>2. /\ state' \in [Items -> Said]
        /\ ever' \in [Items -> SUBSET Lists!States(list)]
    BY <1>1, <2>1 DEF Said
  <2>3. \A j \in Items : /\ rows[j] \in 0..MaxRows /\ byHand[j] \in 0..MaxRows
                         /\ byHand[j] <= rows[j]
    BY <1>1, <2>1 DEF RosterCounts, Count
  <2>4. rows[i] + 1 \in 0..MaxRows /\ byHand[i] + 1 \in 0..MaxRows
    BY <1>1, <2>1, <2>3
  <2>5. rows' \in Count /\ byHand' \in Count
    BY <1>1, <2>1, <2>4 DEF Count
  <2>6. \A j \in Items : byHand'[j] <= rows'[j]
    BY <1>1, <2>1, <2>3 DEF Count
  <2> QED BY <1>1, <1>2, <1>3, <1>4, <1>6, <2>1, <2>2, <2>5, <2>6 DEF RosterFlags
<1>9. ASSUME NEW i \in Items, Lists!CreateEvent(i)
      PROVE  RosterWords' /\ RosterCounts' /\ RosterFlags'
  <2>1. /\ list = "people" /\ byHand' = [byHand EXCEPT ![i] = 1]
        /\ UNCHANGED <<list, source, rows, state, incidents, given, scored, handled, passing,
                       ever, missed>>
    BY <1>9 DEF Lists!CreateEvent
  <2>2. 1 \in 0..MaxRows
    BY <1>1
  <2>3. byHand' \in Count
    BY <1>1, <2>1, <2>2 DEF Count
  <2> QED BY <1>1, <1>2, <1>3, <1>4, <1>6, <2>1, <2>3 DEF RosterFlags
<1>10. ASSUME NEW i \in Items, Lists!Review(i) \/ Lists!Acknowledge(i)
       PROVE  RosterWords' /\ RosterCounts' /\ RosterFlags'
  <2>1. /\ handled' = TRUE
        /\ UNCHANGED <<list, source, rows, state, incidents, given, scored, byHand, passing,
                       ever, missed>>
    BY <1>10 DEF Lists!Review, Lists!Acknowledge
  <2> QED BY <1>1, <1>2, <1>3, <1>4, <1>6, <2>1 DEF RosterFlags, RosterCounts
<1>11. ASSUME NEW i \in Items, Lists!Rescore(i)
       PROVE  RosterWords' /\ RosterCounts' /\ RosterFlags'
  <2>1. /\ scored' = [scored EXCEPT ![i] = incidents[i]]
        /\ UNCHANGED <<list, source, rows, state, incidents, given, handled, byHand, passing,
                       ever, missed>>
    BY <1>11 DEF Lists!Rescore
  <2>2. scored' \in Tally
    BY <1>1, <2>1 DEF Tally
  <2> QED BY <1>1, <1>2, <1>3, <1>4, <1>6, <2>1, <2>2 DEF RosterFlags, RosterCounts
<1>23. ASSUME NEW i \in Items, NEW n \in 0..MaxGiven, Lists!CreateVendor(i, n)
       PROVE  RosterWords' /\ RosterCounts' /\ RosterFlags'
  <2>1. /\ list = "vendors" /\ source' = [source EXCEPT ![i] = "listed"]
        /\ ever' = [ever EXCEPT ![i] = ever[i] \cup {"listed"}]
        /\ incidents' = [incidents EXCEPT ![i] = n] /\ given' = [given EXCEPT ![i] = n]
        /\ scored' = [scored EXCEPT ![i] = n]
        /\ UNCHANGED <<list, rows, state, byHand, handled, passing, missed>>
    BY <1>23 DEF Lists!CreateVendor
  <2>2. "listed" \in Said /\ "listed" \in Lists!States(list)
    BY <2>1 DEF Said, Lists!States
  <2>3. source' \in [Items -> Said] /\ ever' \in [Items -> SUBSET Lists!States(list)]
    BY <1>1, <2>1, <2>2
  <2>4. n \in 0..(MaxRows + MaxGiven)
    BY <1>1, <1>23
  <2>5. incidents' \in Tally /\ scored' \in Tally /\ given' \in [Items -> 0..MaxGiven]
    BY <1>1, <2>1, <2>4 DEF Tally
  <2> QED BY <1>1, <1>2, <1>3, <1>4, <1>6, <2>1, <2>3, <2>5 DEF RosterFlags
<1>12. ASSUME NEW h \in Requests, NEW page \in SUBSET Lists!Listed,
              Lists!BeginPass(h, page)
       PROVE  RosterWords' /\ RosterCounts' /\ RosterFlags'
  <2> DEFINE f == [i \in Items |-> IF i \in page THEN source[i] ELSE "absent"]
             r == [Lists!Resting EXCEPT !.at = 1, !.counts = incidents, !.fetched = f]
  <2>1. /\ passing' = [passing EXCEPT ![h] = r]
        /\ TablesStay /\ UNCHANGED <<list, source, ever>>
        /\ missed' \subseteq missed \cup {"page"}
    BY <1>12 DEF Lists!BeginPass, Lists!tableVars, Lists!Set, Items
  <2>2. source \in [Items -> Words] /\ incidents \in [Items -> Nat]
    BY DEF ListInv, ListTypes
  <2>3. f \in [Items -> Words] /\ f \in [Items -> Said]
    BY <1>1, <2>2 DEF Said, Words
  <2> HIDE DEF f
  <2>4. /\ r \in Passes /\ r.fetched = f /\ r.counts = incidents /\ r.at = 1
    BY <2>2, <2>3, RestingPass DEF Passes
  <2>5. 1 \in 0..(Last + 1)
    BY <1>1
  <2> HIDE DEF r
  <2>6. PassesOK
    BY <1>1, <2>1, <2>3, <2>4, <2>5, PassBounded
  <2> QED BY <1>1, <1>5, <1>6, <2>1, <2>6
<1>13. ASSUME NEW h \in Requests, NEW at \in 0..(Last + 1), NEW ins \in SUBSET Items,
              NEW upd \in SUBSET Items,
              Lists!Set(h, [passing[h] EXCEPT !.at = at, !.ins = ins, !.upd = upd])
       PROVE  PassesOK
  BY <1>13, PassAdvances
<1>14. ASSUME NEW h \in Requests, Lists!OnItem(h), Lists!Skip(h) PROVE PassesOK
  <2> DEFINE q == passing[h]
  <2>1. q \in Passes /\ q.at \in 1..Last
    BY <1>1, <1>14 DEF Lists!OnItem, Lists!Item, Lists!Items
  <2>2. q.at + 1 \in 0..(Last + 1) /\ q.ins \subseteq Items /\ q.upd \subseteq Items
    BY <1>1, <2>1 DEF Passes
  <2>3. [q EXCEPT !.at = q.at + 1]
           = [q EXCEPT !.at = q.at + 1, !.ins = q.ins, !.upd = q.upd]
    BY <2>1 DEF Passes
  <2>4. Lists!Set(h, [q EXCEPT !.at = q.at + 1, !.ins = q.ins, !.upd = q.upd])
    BY <1>14, <2>3 DEF Lists!Skip
  <2> QED BY <2>2, <2>4, <1>13
<1>15. ASSUME NEW h \in Requests, Lists!OnItem(h), Lists!Insert(h) PROVE PassesOK
  <2> DEFINE q == passing[h]
  <2>1. q \in Passes /\ q.at \in 1..Last /\ q.at \in Items
    BY <1>1, <1>15 DEF Lists!OnItem, Lists!Item, Lists!Items, Items
  <2>2. /\ q.at + 1 \in 0..(Last + 1) /\ q.ins \cup {q.at} \subseteq Items
        /\ q.upd \subseteq Items
    BY <1>1, <2>1 DEF Passes
  <2>3. [q EXCEPT !.at = q.at + 1, !.ins = q.ins \cup {q.at}]
           = [q EXCEPT !.at = q.at + 1, !.ins = q.ins \cup {q.at}, !.upd = q.upd]
    BY <2>1 DEF Passes
  <2>4. Lists!Set(h, [q EXCEPT !.at = q.at + 1, !.ins = q.ins \cup {q.at},
                              !.upd = q.upd])
    BY <1>15, <2>3 DEF Lists!Insert, Lists!Item
  <2> QED BY <2>2, <2>4, <1>13
<1>16. ASSUME NEW h \in Requests, Lists!Set(h, Lists!Resting) PROVE PassesOK
  <2>1. 0 \in 0..(Last + 1) /\ [i \in Items |-> 0] \in Tally
    BY <1>1 DEF Tally
  <2>2. [i \in Items |-> "absent"] \in [Items -> Said]
    BY DEF Said
  <2> QED BY <1>16, <2>1, <2>2, PassBounded, RestingPass DEF Lists!Set
<1>24. ASSUME NEW h \in Requests, NEW cause \in {"twice", "failed"}, Lists!OnItem(h),
              Lists!LeaveRest(h, cause), TablesStay, UNCHANGED <<list, source, ever>>
       PROVE  RosterWords' /\ RosterCounts' /\ RosterFlags'
  <2> DEFINE q == passing[h]
  <2>1. /\ Lists!Set(h, [q EXCEPT !.at = Last + 1]) /\ missed' = missed \cup {cause}
    BY <1>24 DEF Lists!LeaveRest
  <2>2. /\ q \in Passes /\ q.ins \in SUBSET Items /\ q.upd \in SUBSET Items
        /\ Last + 1 \in 0..(Last + 1)
    BY <1>1 DEF Passes
  <2>3. [q EXCEPT !.at = Last + 1]
           = [q EXCEPT !.at = Last + 1, !.ins = q.ins, !.upd = q.upd]
    BY <2>2 DEF Passes
  <2>4. Lists!Set(h, [q EXCEPT !.at = Last + 1, !.ins = q.ins, !.upd = q.upd])
    BY <2>1, <2>3
  <2> HIDE DEF q
  <2>5. PassesOK
    BY <1>13, <2>2, <2>4 DEF q
  <2> QED BY <1>1, <1>5, <1>6, <1>24, <2>1, <2>5
<1>17. ASSUME NEW h \in Requests, Lists!SyncPerson(h)
       PROVE  RosterWords' /\ RosterCounts' /\ RosterFlags'
  <2>1. /\ Lists!OnItem(h) /\ (Lists!Skip(h) \/ Lists!Insert(h))
        /\ TablesStay /\ UNCHANGED <<list, source, ever, missed>>
    BY <1>17 DEF Lists!SyncPerson, Lists!tableVars
  <2> QED BY <1>1, <1>5, <1>6, <1>14, <1>15, <2>1
<1>18. ASSUME NEW h \in Requests, Lists!SyncDevice(h)
       PROVE  RosterWords' /\ RosterCounts' /\ RosterFlags'
  <2> DEFINE q == passing[h]
             i == q.at
  <2>1. /\ Lists!OnItem(h) /\ TablesStay /\ UNCHANGED <<list, source, ever>>
    BY <1>18 DEF Lists!SyncDevice, Lists!tableVars
  <2>2. q \in Passes /\ i \in 1..Last /\ i \in Items
    BY <1>1, <2>1 DEF Lists!OnItem, Lists!Item, Lists!Items, Items
  <2>3. q.ins \subseteq Items /\ q.upd \subseteq Items
    BY <2>2 DEF Passes
  <2>4. CASE q.fetched[i] = "absent"
    BY <1>1, <1>5, <1>6, <1>14, <1>18, <2>1, <2>4 DEF Lists!SyncDevice, Lists!Item
  <2>5. CASE q.fetched[i] # "absent" /\ rows[i] = 0
    BY <1>1, <1>5, <1>6, <1>15, <1>18, <2>1, <2>5 DEF Lists!SyncDevice, Lists!Item
  <2>6. CASE q.fetched[i] # "absent" /\ rows[i] = 1
    <3> DEFINE upd == IF q.fetched[i] # state[i] THEN q.upd \cup {i} ELSE q.upd
    <3>1. /\ Lists!Set(h, [q EXCEPT !.at = i + 1, !.upd = upd]) /\ UNCHANGED missed
      BY <1>18, <2>6 DEF Lists!SyncDevice, Lists!Item
    <3>2. upd \in SUBSET Items /\ i + 1 \in 0..(Last + 1)
      BY <1>1, <2>2, <2>3
    <3>3. [q EXCEPT !.at = i + 1, !.upd = upd]
             = [q EXCEPT !.at = i + 1, !.ins = q.ins, !.upd = upd]
      BY <2>2 DEF Passes
    <3>4. Lists!Set(h, [q EXCEPT !.at = i + 1, !.ins = q.ins, !.upd = upd])
      BY <3>1, <3>3
    <3> HIDE DEF upd
    <3>5. PassesOK
      BY <1>13, <2>3, <3>2, <3>4
    <3> QED BY <1>1, <1>5, <1>6, <2>1, <3>1, <3>5
  <2>7. CASE q.fetched[i] # "absent" /\ rows[i] > 1
    <3>1. Lists!LeaveRest(h, "twice")
      <4>1. rows[i] # 0 /\ rows[i] # 1
        BY <1>1, <2>2, <2>7 DEF Count
      <4> QED BY <1>18, <2>7, <4>1 DEF Lists!SyncDevice, Lists!Item
    <3> QED BY <1>24, <2>1, <3>1
  <2>8. rows[i] \in Nat
    BY <1>1, <2>2 DEF Count
  <2>9. rows[i] = 0 \/ rows[i] = 1 \/ rows[i] > 1
    BY <2>8
  <2> QED BY <2>4, <2>5, <2>6, <2>7, <2>9
<1>19. ASSUME NEW h \in Requests, Lists!ScanVendor(h)
       PROVE  RosterWords' /\ RosterCounts' /\ RosterFlags'
  <2> DEFINE i == passing[h].at
  <2>1. /\ Lists!OnItem(h) /\ TablesStay /\ UNCHANGED <<list, source, ever>>
    BY <1>19 DEF Lists!ScanVendor, Lists!tableVars
  <2>2. rows[i] \in Nat
    BY <1>1, <2>1 DEF Count, Lists!OnItem, Lists!Item, Lists!Items, Items
  <2>3. CASE passing[h].fetched[i] = "absent" \/ rows[i] = 1
    <3>1. Lists!Skip(h) /\ UNCHANGED missed
      <4>1. /\ ~ (passing[h].fetched[i] # "absent" /\ rows[i] = 0)
            /\ ~ (passing[h].fetched[i] # "absent" /\ rows[i] > 1)
        BY <2>2, <2>3
      <4> HIDE DEF i
      <4> QED BY <1>19, <2>3, <4>1 DEF Lists!ScanVendor, Lists!Item, i
    <3> QED BY <1>1, <1>5, <1>6, <1>14, <2>1, <3>1
  <2>4. CASE passing[h].fetched[i] # "absent" /\ rows[i] = 0
    <3>1. Lists!Insert(h) /\ UNCHANGED missed
      BY <1>19, <2>2, <2>4 DEF Lists!ScanVendor, Lists!Item
    <3> QED BY <1>1, <1>5, <1>6, <1>15, <2>1, <3>1
  <2>5. CASE passing[h].fetched[i] # "absent" /\ rows[i] > 1
    <3>1. Lists!Set(h, Lists!Resting) /\ missed' = missed \cup {"twice"}
      <4>1. rows[i] # 0 /\ rows[i] # 1
        BY <2>2, <2>5
      <4> QED BY <1>19, <2>5, <4>1 DEF Lists!ScanVendor, Lists!Item
    <3> QED BY <1>1, <1>5, <1>6, <1>16, <2>1, <3>1
  <2>6. rows[i] = 0 \/ rows[i] = 1 \/ rows[i] > 1
    BY <2>2
  <2> QED BY <2>3, <2>4, <2>5, <2>6
<1>20. ASSUME NEW h \in Requests, Lists!CommitPass(h)
       PROVE  RosterWords' /\ RosterCounts' /\ RosterFlags'
  <2> DEFINE r == passing[h]
  <2>1. /\ \A i \in r.ins : rows[i] < MaxRows
        /\ rows' = [i \in Items |-> rows[i] + IF i \in r.ins THEN 1 ELSE 0]
        /\ state' = [i \in Items |-> IF i \in r.upd \/ (i \in r.ins /\ rows[i] = 0)
                                       THEN r.fetched[i] ELSE state[i]]
        /\ incidents' = [i \in Items |-> IF list = "vendors" /\ i \in r.ins
                                           THEN r.counts[i] + 1 ELSE incidents[i]]
        /\ Lists!Set(h, Lists!Resting)
        /\ UNCHANGED <<list, source, given, scored, byHand, handled, ever, missed>>
    BY <1>20 DEF Lists!CommitPass, Items
  <2>2. state' \in [Items -> Said]
    BY <1>1, <2>1
  <2>3. \A i \in Items : rows[i] \in 0..MaxRows /\ byHand[i] \in 0..MaxRows
    BY <1>1 DEF Count
  <2>4. ASSUME NEW i \in Items
        PROVE  rows'[i] \in 0..MaxRows /\ rows[i] <= rows'[i]
    BY <1>1, <2>1, <2>3
  <2>5. rows' \in Count
    BY <2>1, <2>4 DEF Count
  <2>6. ASSUME NEW i \in Items PROVE incidents'[i] \in 0..(MaxRows + MaxGiven)
    <3>1. given[i] \in 0..MaxGiven /\ incidents[i] \in 0..(MaxRows + MaxGiven)
      BY <1>1 DEF Tally
    <3>2. CASE list = "vendors" /\ i \in r.ins
      <4>1. r.counts[i] = given[i]
        BY <3>2 DEF ListInv, VendorInv
      <4>2. incidents'[i] = given[i] + 1
        BY <2>1, <3>2, <4>1
      <4> QED BY <1>1, <3>1, <4>2
    <3> QED BY <2>1, <3>1, <3>2
  <2>7. incidents' \in Tally
    BY <2>1, <2>6 DEF Tally
  <2>8. list = "devices" => \A i \in Items : byHand'[i] <= rows'[i]
    <3> SUFFICES ASSUME list = "devices", NEW i \in Items PROVE byHand'[i] <= rows'[i]
      OBVIOUS
    <3>1. byHand[i] <= rows[i] /\ byHand' = byHand
      BY <2>1 DEF RosterCounts
    <3>2. byHand[i] <= rows'[i]
      BY <1>1, <2>3, <2>4, <3>1
    <3> QED BY <3>1, <3>2
  <2> QED BY <1>1, <1>2, <1>3, <1>6, <1>16, <2>1, <2>2, <2>5, <2>7, <2>8 DEF RosterFlags
<1>21. ASSUME NEW h \in Requests, Lists!AbortPass(h)
       PROVE  RosterWords' /\ RosterCounts' /\ RosterFlags'
  <2>1. Lists!Set(h, Lists!Resting) /\ TablesStay /\ UNCHANGED <<list, source, ever, missed>>
    BY <1>21 DEF Lists!AbortPass, Lists!tableVars
  <2> QED BY <1>1, <1>5, <1>6, <1>16, <2>1
<1>22. CASE UNCHANGED lists
  <2>1. TablesStay /\ UNCHANGED <<list, source, ever, missed, passing>>
    BY <1>22 DEF lists
  <2> QED BY <1>1, <1>4, <1>5, <1>6, <2>1
<1>25. ASSUME NEW h \in Requests, Lists!FailPass(h)
       PROVE  RosterWords' /\ RosterCounts' /\ RosterFlags'
  <2>1. /\ Lists!OnItem(h) /\ Lists!LeaveRest(h, "failed")
        /\ TablesStay /\ UNCHANGED <<list, source, ever>>
    BY <1>25 DEF Lists!FailPass, Lists!tableVars
  <2> QED BY <1>24, <2>1
<1> QED BY <1>7, <1>8, <1>9, <1>10, <1>11, <1>12, <1>17, <1>18, <1>19, <1>20, <1>21, <1>22,
           <1>23, <1>25
        DEF Lists!RosterNext, Items

LEMMA ListsTyped ==
    ListInv /\ RosterWords /\ RosterCounts /\ RosterFlags => Lists!RosterTypeOK
<1> SUFFICES ASSUME ListInv, RosterWords, RosterCounts, RosterFlags
             PROVE  Lists!RosterTypeOK
  OBVIOUS
<1>1. passing \in [Requests -> Passes] /\ doubled \subseteq Items
  BY DEF ListInv, ListTypes
<1>2. ASSUME NEW h \in Requests
      PROVE  passing[h] \in [at: 0..(Last + 1), fetched: [Items -> Said], counts: Tally,
                             ins: SUBSET Items, upd: SUBSET Items]
  BY <1>1 DEF Passes, RosterWords, RosterCounts
<1>3. passing \in [Requests -> [at: 0..(Last + 1), fetched: [Items -> Said],
                                counts: Tally, ins: SUBSET Items, upd: SUBSET Items]]
  BY <1>1, <1>2
<1> QED BY <1>1, <1>3 DEF RosterWords, RosterCounts, RosterFlags, Count, Tally, Said, Items,
           Lists!RosterTypeOK

-----------------------------------------------------------------------------
(* The bounds of defaults: copies are counted up to the bound.             *)
SeedCounts == copies <= MaxCopies /\ requested \in 0..MaxCopies
SeedFlags == own \in BOOLEAN /\ refused \in BOOLEAN

LEMMA SeedBoundsInitially == GovernanceInit => SeedCounts /\ SeedFlags
<1> SUFFICES ASSUME GovernanceInit PROVE SeedCounts /\ SeedFlags
  OBVIOUS
<1>1. copies = 0 /\ requested = 0 /\ MaxCopies \in Nat
  BY GovernanceAssumption DEF GovernanceInit, Seeding!SeedsInit
<1>2. SeedFlags
  BY DEF GovernanceInit, Seeding!SeedsInit, SeedFlags
<1> QED BY <1>1, <1>2 DEF SeedCounts

LEMMA SeedBoundsStep ==
    SeedInv /\ SeedCounts /\ SeedFlags /\ [Seeding!SeedsNext]_seeds
        => SeedCounts' /\ SeedFlags'
<1> SUFFICES ASSUME SeedInv, SeedCounts, SeedFlags, [Seeding!SeedsNext]_seeds
             PROVE  SeedCounts' /\ SeedFlags'
  OBVIOUS
<1>1. /\ copies \in Nat /\ copies <= MaxCopies /\ requested \in 0..MaxCopies
      /\ MaxCopies \in Nat
  BY GovernanceAssumption DEF SeedInv, SeedCounts
<1>2. ASSUME UNCHANGED <<copies, requested, own, refused>>
      PROVE  SeedCounts' /\ SeedFlags'
  BY <1>2 DEF SeedCounts, SeedFlags
<1>3. ASSUME NEW t, Seeding!AddOwn(t) PROVE SeedCounts' /\ SeedFlags'
  <2>1. UNCHANGED <<copies, requested>>
    BY <1>3 DEF Seeding!AddOwn
  <2>2. own' = TRUE /\ refused' = refused
    BY <1>3 DEF Seeding!AddOwn
  <2>3. SeedCounts'
    BY <2>1 DEF SeedCounts
  <2> QED BY <2>2, <2>3 DEF SeedFlags
<1>4. CASE Seeding!DeletePolicies
  <2>1. copies' = 0 /\ requested' = 0
    BY <1>4 DEF Seeding!DeletePolicies
  <2>2. own' = FALSE /\ refused' = refused
    BY <1>4 DEF Seeding!DeletePolicies
  <2>3. SeedCounts'
    BY <1>1, <2>1 DEF SeedCounts
  <2> QED BY <2>2, <2>3 DEF SeedFlags
<1>5. ASSUME NEW t, Seeding!Seed(t) PROVE SeedCounts' /\ SeedFlags'
  <2>1. requested + copies < MaxCopies /\ requested' = requested + 1 /\ copies' = copies
    BY <1>5 DEF Seeding!Seed
  <2>2. own' = TRUE /\ refused' = refused
    BY <1>5 DEF Seeding!Seed
  <2>3. SeedCounts'
    BY <1>1, <2>1 DEF SeedCounts
  <2> QED BY <2>2, <2>3 DEF SeedFlags
<1>6. ASSUME NEW h \in Requests, Seeding!Commit(h) PROVE SeedCounts' /\ SeedFlags'
  <2>1. /\ requested' = requested
        /\ copies' = copies \/ (copies < MaxCopies /\ copies' = copies + 1)
    <3>1. requested' = requested
      BY <1>6 DEF Seeding!Commit
    <3>2. copies' = copies \/ (copies < MaxCopies /\ copies' = copies + 1)
      BY <1>6, Zenon DEF Seeding!Commit
    <3> QED BY <3>1, <3>2
  <2>2. own' = own
    BY <1>6 DEF Seeding!Commit
  <2>3. refused' \in BOOLEAN
    <3>1. refused' = TRUE \/ UNCHANGED refused
      BY <1>6, Zenon DEF Seeding!Commit
    <3> QED BY <3>1 DEF SeedFlags
  <2>4. SeedCounts'
    BY <1>1, <2>1 DEF SeedCounts
  <2> QED BY <2>2, <2>3, <2>4 DEF SeedFlags
<1>7. ASSUME NEW h \in Requests, NEW next, Seeding!Found(h, next)
      PROVE  SeedCounts' /\ SeedFlags'
  BY <1>2, <1>7 DEF Seeding!Found
<1>8. ASSUME NEW h \in Requests, Seeding!RecheckTitles(h) \/ Seeding!Abort(h)
      PROVE  SeedCounts' /\ SeedFlags'
  BY <1>2, <1>8 DEF Seeding!RecheckTitles, Seeding!Abort
<1>9. ASSUME NEW h \in Requests, Seeding!LookForAny(h) \/ Seeding!LookForEach(h)
      PROVE  SeedCounts' /\ SeedFlags'
  BY <1>7, <1>9 DEF Seeding!LookForAny, Seeding!LookForEach
<1>10. CASE UNCHANGED seeds
  BY <1>2, <1>10 DEF seeds
<1>11. ASSUME NEW h \in Requests, Seeding!ListFindings(h)
       PROVE  SeedCounts' /\ SeedFlags'
  BY <1>7, <1>11 DEF Seeding!ListFindings
<1> QED BY <1>3, <1>4, <1>5, <1>6, <1>8, <1>9, <1>10, <1>11
        DEF Seeding!SeedsNext, Seeding!CreateFinding, Seeding!CreatePolicy,
            Seeding!CreatePentest, Seeding!CreateBusinessUnit, Seeding!CreateWorkflow,
            Seeding!CreateAssessment, Seeding!SeedTemplates, Seeding!SeedCourses,
            Seeding!EnsureVendors, Seeding!SyncCourses,
            Seeding!EnsureTenants, Seeding!EnsureDevices, Seeding!EnsureBusinessUnits,
            Seeding!EnsureWorkflows, Seeding!EnsurePersonnel, Seeding!EnsurePolicies,
            Seeding!EnsurePentests, Seeding!EnsureTreatments, Seeding!EnsureAssessments,
            Seeding!EnsureRemediation, Seeding!EnsureTimeline, Seeding!EnsureFirms,
            Seeding!EnsureTrustConfig, Seeding!EnsureProfile, Seeding!SeedUsers

LEMMA SeedsTyped == SeedInv /\ SeedCounts /\ SeedFlags => Seeding!SeedsTypeOK
<1> SUFFICES ASSUME SeedInv, SeedCounts, SeedFlags PROVE Seeding!SeedsTypeOK
  OBVIOUS
<1>1. copies \in 0..MaxCopies
  BY GovernanceAssumption DEF SeedInv, SeedCounts
<1> QED BY <1>1 DEF SeedInv, SeedCounts, SeedFlags, Seeding!SeedsTypeOK

-----------------------------------------------------------------------------
(* The bounds of a pass over the integrations: it stops behind the last.   *)
PassBounds ==
    /\ turn <= Len(connected) + 1 /\ session \in {"usable", "broken"}
    /\ access \subseteq Collecting!Integrations
    /\ \A i \in Collecting!Integrations : probes[i] <= MaxProbes

LEMMA PassBoundsInitially == GovernanceInit => PassBounds
<1> SUFFICES ASSUME GovernanceInit PROVE PassBounds
  OBVIOUS
<1>1. /\ turn = 1 /\ session = "usable" /\ access \subseteq Collecting!Integrations
      /\ probes = [i \in Collecting!Integrations |-> 0] /\ connected \in Orders
  BY DEF GovernanceInit, Collecting!CollectorsInit
<1>2. Len(connected) \in Nat /\ MaxProbes \in Nat
  BY <1>1, GovernanceAssumption
<1> QED BY <1>1, <1>2 DEF PassBounds

LEMMA PassBoundsStep ==
    EvidenceInv /\ ProbeInv /\ PassBounds /\ [Collecting!CollectorsNext]_evidence
        => PassBounds'
<1> SUFFICES ASSUME EvidenceInv, ProbeInv, PassBounds,
                    [Collecting!CollectorsNext]_evidence
             PROVE  PassBounds'
  OBVIOUS
<1> DEFINE I == Collecting!Integrations
<1>1. /\ turn \in Nat /\ Len(connected) \in Nat /\ turn <= Len(connected) + 1
      /\ (items # <<>> => turn <= Len(connected)) /\ MaxProbes \in Nat
      /\ probes \in [I -> Nat] /\ \A i \in I : probes[i] <= MaxProbes
      /\ access \subseteq I /\ session \in {"usable", "broken"}
  <2>1. connected \in Seq(STRING) /\ turn \in Nat \ {0}
    BY DEF EvidenceInv, EvidenceTypes
  <2>2. items # <<>> => turn <= Len(connected)
    BY DEF EvidenceInv, EvidenceTypes
  <2>3. Len(connected) \in Nat
    BY <2>1
  <2>4. probes \in [I -> Nat]
    BY DEF ProbeInv
  <2>5. MaxProbes \in Nat
    BY GovernanceAssumption
  <2>6. /\ turn <= Len(connected) + 1 /\ \A i \in I : probes[i] <= MaxProbes
        /\ access \subseteq I /\ session \in {"usable", "broken"}
    BY DEF PassBounds
  <2> QED BY <2>1, <2>2, <2>3, <2>4, <2>5, <2>6
<1>2. connected' = connected => I' = I
  BY DEF Collecting!Integrations
<1> HIDE DEF I
<1>3. ASSUME connected' = connected, access' \subseteq access, UNCHANGED probes,
             session' \in {"usable", "broken"},
             turn' = turn \/ (turn <= Len(connected) /\ turn' = turn + 1)
      PROVE  PassBounds'
  <2>1. turn' <= Len(connected') + 1
    BY <1>1, <1>3
  <2> QED BY <1>1, <1>2, <1>3, <2>1 DEF PassBounds, I
<1>4. CASE Collecting!Skip
  BY <1>1, <1>3, <1>4 DEF Collecting!Skip, Collecting!Idle, Collecting!InTurn,
     Collecting!given, Collecting!tokenVars
<1>5. CASE \/ Collecting!CollectDemo \/ Collecting!CollectNothing
           \/ Collecting!AssumeNoRole \/ Collecting!CollectLive
  BY <1>1, <1>3, <1>5 DEF Collecting!CollectDemo, Collecting!CollectNothing,
     Collecting!AssumeNoRole, Collecting!CollectLive, Collecting!Return,
     Collecting!given, Collecting!tokenVars
<1>6. CASE Collecting!File \/ Collecting!FailToFile \/ Collecting!LoseCommit
  BY <1>1, <1>3, <1>6 DEF Collecting!File, Collecting!FailToFile, Collecting!LoseCommit,
     Collecting!Onward, Collecting!given, Collecting!tokenVars
<1>7. ASSUME NEW i \in I, Collecting!ProbeRefreshing(i) PROVE PassBounds'
  <2>1. /\ probes[i] < MaxProbes /\ probes' = [probes EXCEPT ![i] = probes[i] + 1]
        /\ UNCHANGED <<connected, turn, session, access>>
    BY <1>7 DEF Collecting!ProbeRefreshing, Collecting!given, Collecting!passVars
  <2>2. \A j \in I : probes'[j] <= MaxProbes
    BY <1>1, <1>7, <2>1
  <2> QED BY <1>1, <1>2, <2>1, <2>2 DEF PassBounds, I
<1>8. ASSUME NEW i \in I,
             \/ Collecting!ExpireAccess(i) \/ Collecting!EndRefresh(i)
             \/ Collecting!LoseProbe(i) \/ Collecting!ProbeStored(i)
      PROVE  PassBounds'
  BY <1>1, <1>3, <1>8 DEF Collecting!ExpireAccess, Collecting!EndRefresh,
     Collecting!LoseProbe, Collecting!ProbeStored, Collecting!given, Collecting!passVars
<1>9. CASE UNCHANGED evidence
  BY <1>1, <1>3, <1>9 DEF evidence
<1> QED BY <1>4, <1>5, <1>6, <1>7, <1>8, <1>9 DEF Collecting!CollectorsNext, I

LEMMA CollectorsTyped ==
    EvidenceInv /\ ProbeInv /\ PassBounds => Collecting!CollectorsTypeOK
<1> SUFFICES ASSUME EvidenceInv, ProbeInv, PassBounds
             PROVE  Collecting!CollectorsTypeOK
  OBVIOUS
<1>1. turn \in 1..(Len(connected) + 1)
  <2>1. turn \in Nat \ {0} /\ Len(connected) \in Nat /\ turn <= Len(connected) + 1
    BY DEF EvidenceInv, EvidenceTypes, PassBounds
  <2> QED BY <2>1
<1>2. probes \in [Collecting!Integrations -> 0..MaxProbes]
  <2>1. \A i \in Collecting!Integrations : probes[i] \in Nat /\ probes[i] <= MaxProbes
    BY DEF ProbeInv, PassBounds
  <2>2. \A i \in Collecting!Integrations : probes[i] \in 0..MaxProbes
    BY <2>1, GovernanceAssumption
  <2> QED BY <2>2 DEF ProbeInv
<1> QED BY <1>1, <1>2 DEF EvidenceInv, EvidenceTypes, ProbeInv, PassBounds, Rows,
           Collecting!InTurn, Collecting!CollectorsTypeOK

-----------------------------------------------------------------------------
(* The bounds of a metric run: tickets come after all values.              *)
Phases == {"idle", "query", "poll", "pages", "tickets", "done", "failed", "dead"}

RunBounds ==
    /\ phase \in Phases
    /\ polls \in 0..(MaxPolls - 1) /\ runs <= MaxRuns /\ earlier \in 0..3
    /\ Len(values) <= Len(definitions) /\ Len(names) <= Len(values)
    /\ phase = "tickets" => Len(values) = Len(definitions)
    /\ phase \in {"query", "poll", "pages"} => Len(names) = 0
    /\ failed \subseteq DOMAIN definitions

LEMMA RunBoundsInitially == GovernanceInit => RunBounds
<1> SUFFICES ASSUME GovernanceInit PROVE RunBounds
  OBVIOUS
<1>1. /\ definitions \in Catalogs /\ phase = "idle" /\ values = <<>> /\ names = <<>>
      /\ polls = 0 /\ runs = 0 /\ earlier \in {0, 3} /\ failed = {}
  BY DEF GovernanceInit, Measuring!RunInit
<1>2. /\ MaxPolls \in Nat \ {0} /\ MaxRuns \in Nat /\ Len(definitions) \in Nat
  <2>1. MaxPolls \in Nat \ {0}
    BY GovernanceAssumption
  <2>4. MaxRuns \in Nat
    BY GovernanceAssumption
  <2>2. definitions \in Seq([kind: STRING, suffix: Nat])
    BY <1>1, GovernanceAssumption
  <2>3. Len(definitions) \in Nat
    BY <2>2
  <2> QED BY <2>1, <2>3, <2>4
<1>3. Len(values) = 0 /\ Len(names) = 0
  BY <1>1
<1> QED BY <1>1, <1>2, <1>3 DEF RunBounds, Phases

LEMMA RunBoundsStep ==
    NameInv /\ ValueInv /\ RunBounds /\ [Measuring!RunNext]_metrics => RunBounds'
<1> SUFFICES ASSUME NameInv, ValueInv, RunBounds, [Measuring!RunNext]_metrics
             PROVE  RunBounds'
  OBVIOUS
<1> DEFINE N == Len(definitions)
<1>1. /\ phase \in Phases /\ polls \in 0..(MaxPolls - 1) /\ earlier \in 0..3
      /\ Len(values) \in Nat /\ Len(names) \in Nat /\ N \in Nat /\ runs \in Nat
      /\ Len(values) <= N /\ Len(names) <= Len(values) /\ runs <= MaxRuns
      /\ failed \subseteq DOMAIN definitions /\ DOMAIN definitions = 1..N
      /\ MaxPolls \in Nat \ {0} /\ MaxRuns \in Nat
  <2>1. definitions \in Seq([kind: STRING, suffix: Nat])
    BY DEF NameInv, NameTypes
  <2>2. N \in Nat /\ DOMAIN definitions = 1..N
    BY <2>1
  <2>3. Len(values) \in Nat
    BY DEF ValueInv, ValueTypes
  <2>4. Len(names) \in Nat /\ runs \in Nat
    BY DEF NameInv, NameTypes
  <2>5. MaxPolls \in Nat \ {0} /\ MaxRuns \in Nat
    BY GovernanceAssumption
  <2> QED BY <2>2, <2>3, <2>4, <2>5 DEF RunBounds
<1>2. /\ phase = "tickets" => Len(values) = N
      /\ phase \in {"query", "poll", "pages"} => Len(names) = 0
      /\ phase \in {"query", "poll", "pages"} => Len(values) + 1 <= N
  <2>1. phase \in {"query", "poll", "pages"} => Len(values) + 1 \in 1..N
    BY <1>1 DEF ValueInv, PageInv
  <2> QED BY <1>1, <2>1 DEF RunBounds
<1>3. ASSUME UNCHANGED <<definitions, runs>>, earlier' \in 0..3,
             polls' \in 0..(MaxPolls - 1), failed' \subseteq DOMAIN definitions,
             UNCHANGED <<values, names>>,
             \/ phase' = phase \/ phase' \in {"failed", "dead", "done"}
             \/ phase \in {"query", "poll"} /\ phase' \in {"poll", "pages"}
      PROVE  RunBounds'
  BY <1>1, <1>2, <1>3 DEF RunBounds, Phases
<1>4. 0 \in 0..(MaxPolls - 1)
  BY <1>1
<1>5. CASE Measuring!StartRun
  <2>1. /\ runs < MaxRuns /\ runs' = runs + 1 /\ values' = <<>> /\ names' = <<>>
        /\ failed' = {} /\ phase' = IF definitions = <<>> THEN "tickets" ELSE "query"
        /\ UNCHANGED <<definitions, earlier, polls>>
    BY <1>5 DEF Measuring!StartRun, Measuring!runGiven
  <2>2. Len(values') = 0 /\ Len(names') = 0 /\ runs' <= MaxRuns
    BY <1>1, <2>1
  <2>3. definitions = <<>> => N = 0
    OBVIOUS
  <2> QED BY <1>1, <2>1, <2>2, <2>3 DEF RunBounds, Phases
<1>6. CASE Measuring!Die
  BY <1>1, <1>3, <1>4, <1>6 DEF Measuring!Die, Measuring!runGiven
(* The next value, after which the tickets come or the next query.         *)
<1>7. ASSUME NEW sum, NEW events, NEW origin, Measuring!Compute(sum, events, origin),
             phase \in {"query", "poll", "pages"},
             UNCHANGED <<definitions, runs, earlier, names>>,
             failed' \subseteq DOMAIN definitions
      PROVE  RunBounds'
  <2>1. /\ phase' = IF Len(values) + 1 = N THEN "tickets" ELSE "query"
        /\ polls' = 0
        /\ values' = Append(values, Measuring!Value(sum, events, origin))
    BY <1>7 DEF Measuring!Compute, Measuring!Current
  <2>2. Len(values') = Len(values) + 1
    BY <2>1 DEF ValueInv, ValueTypes
  <2>3. /\ Len(values') <= N /\ Len(names') = 0
        /\ phase' = "tickets" => Len(values') = N
        /\ Len(names') <= Len(values')
    <3>1. Len(values) + 1 <= N /\ Len(names) = 0
      BY <1>2, <1>7
    <3>2. names' = names
      BY <1>7
    <3>3. Len(values') <= N /\ Len(values') >= 0
      BY <1>1, <2>2, <3>1
    <3>4. phase' = "tickets" => Len(values) + 1 = N
      BY <2>1
    <3> QED BY <2>2, <3>1, <3>2, <3>3, <3>4
  <2> QED BY <1>1, <1>4, <1>7, <2>1, <2>3 DEF RunBounds, Phases
<1>8. ASSUME Measuring!Invent, phase \in {"query", "poll", "pages"},
             UNCHANGED <<definitions, runs, earlier, names>>,
             failed' \subseteq DOMAIN definitions
      PROVE  RunBounds'
  BY <1>7, <1>8 DEF Measuring!Invent
<1>9. ASSUME phase \in {"query", "poll", "pages"}, Measuring!CurrentFails
      PROVE  failed' \subseteq DOMAIN definitions
  BY <1>1, <1>9 DEF Measuring!CurrentFails, Measuring!Current, ValueInv, PageInv
<1>10. ASSUME Measuring!Abort, UNCHANGED <<definitions, runs, earlier, names>>,
              failed' \subseteq DOMAIN definitions
       PROVE  RunBounds'
  BY <1>1, <1>3, <1>4, <1>10 DEF Measuring!Abort
<1>11. CASE Measuring!QueryPlaceholder
  BY <1>1, <1>8, <1>11 DEF Measuring!QueryPlaceholder, Measuring!runRest,
     Measuring!runGiven
<1>12. CASE Measuring!SearchElastic \/ Measuring!QuerySentinel
  BY <1>1, <1>7, <1>12 DEF Measuring!SearchElastic, Measuring!QuerySentinel,
     Measuring!runRest, Measuring!runGiven
<1>13. CASE Measuring!FailElastic \/ Measuring!FailSentinel \/ Measuring!FailJob
  <2>1. /\ phase = "query" /\ Measuring!CurrentFails
        /\ Measuring!Invent \/ Measuring!Abort
        /\ UNCHANGED <<definitions, runs, earlier, names>>
    BY <1>13 DEF Measuring!FailElastic, Measuring!FailSentinel, Measuring!FailJob,
       Measuring!runRest, Measuring!runGiven
  <2> QED BY <1>8, <1>9, <1>10, <2>1
<1>14. CASE Measuring!CreateJob
  BY <1>1, <1>3, <1>14 DEF Measuring!CreateJob, Measuring!runRest, Measuring!runGiven
<1>15. CASE Measuring!PollJob
  <2>1. /\ phase = "poll" /\ UNCHANGED <<definitions, runs, earlier, names>>
        /\ \/ phase' = "pages" /\ UNCHANGED <<polls, values, failed>>
           \/ /\ polls < MaxPolls - 1 /\ polls' = polls + 1
              /\ UNCHANGED <<phase, values, failed>>
           \/ Measuring!Abort /\ Measuring!CurrentFails
    BY <1>15 DEF Measuring!PollJob, Measuring!runRest, Measuring!runGiven
  <2>2. polls < MaxPolls - 1 => polls + 1 \in 0..(MaxPolls - 1)
    BY <1>1
  <2>3. CASE phase' = "pages" /\ UNCHANGED <<polls, values, failed>>
    BY <1>1, <1>3, <2>1, <2>3
  <2>4. CASE /\ polls < MaxPolls - 1 /\ polls' = polls + 1
             /\ UNCHANGED <<phase, values, failed>>
    BY <1>1, <1>3, <2>1, <2>2, <2>4
  <2>5. CASE Measuring!Abort /\ Measuring!CurrentFails
    BY <1>9, <1>10, <2>1, <2>5
  <2> QED BY <2>1, <2>3, <2>4, <2>5
<1>16. CASE Measuring!FailJobRequest
  <2>1. /\ phase \in {"poll", "pages"} /\ Measuring!Abort /\ Measuring!CurrentFails
        /\ UNCHANGED <<definitions, runs, earlier, names>>
    BY <1>16 DEF Measuring!FailJobRequest, Measuring!runRest, Measuring!runGiven
  <2> QED BY <1>9, <1>10, <2>1
<1>17. CASE Measuring!ReadPage
  <2>1. /\ phase = "pages" /\ UNCHANGED <<definitions, runs, earlier, names, failed>>
        /\ \/ UNCHANGED <<phase, polls, values>>
           \/ \E last : Measuring!Compute(last, last, "siem")
    BY <1>17 DEF Measuring!ReadPage, Measuring!runRest, Measuring!runGiven
  <2> QED BY <1>1, <1>3, <1>7, <2>1
(* The next name, when all values are there.                               *)
<1>18. ASSUME phase = "tickets", Len(names) + 1 \in DOMAIN definitions,
              NEW key, names' = Append(names, key),
              UNCHANGED <<definitions, runs, earlier, phase, polls, values>>,
              failed' \subseteq DOMAIN definitions
       PROVE  RunBounds'
  <2>1. Len(names') = Len(names) + 1
    BY <1>18 DEF NameInv, NameTypes
  <2>2. Len(names') <= Len(values)
    BY <1>1, <1>2, <1>18, <2>1
  <2> QED BY <1>1, <1>2, <1>18, <2>2 DEF RunBounds, Phases
<1>19. CASE Measuring!NoTicket \/ Measuring!Dispatch \/ Measuring!DispatchNowhere
  <2>1. /\ phase = "tickets" /\ Len(names) + 1 \in DOMAIN definitions
        /\ \E key : names' = Append(names, key)
        /\ UNCHANGED <<definitions, runs, earlier, phase, polls, values, failed>>
    BY <1>19 DEF Measuring!NoTicket, Measuring!Dispatch, Measuring!DispatchNowhere,
       Measuring!Name, Measuring!Ticketed, Measuring!Metrics, Measuring!runGiven
  <2> QED BY <1>1, <1>18, <2>1
<1>20. CASE Measuring!LoseDispatch
  <2>1. /\ phase = "tickets" /\ Len(names) + 1 \in DOMAIN definitions
        /\ \E key : names' = Append(names, key)
        /\ failed' = failed \cup {Len(names) + 1}
        /\ UNCHANGED <<definitions, runs, earlier, phase, polls, values>>
    BY <1>20 DEF Measuring!LoseDispatch, Measuring!Ticketed, Measuring!Metrics,
       Measuring!runGiven
  <2> QED BY <1>1, <1>18, <2>1
<1>21. CASE Measuring!EndRun
  <2>1. /\ phase' = "done" /\ earlier' = IF earlier < 3 THEN earlier + 1 ELSE 3
        /\ UNCHANGED <<definitions, polls, values, names, failed, runs>>
    BY <1>21 DEF Measuring!EndRun, Measuring!runGiven
  <2>2. earlier' \in 0..3
    BY <1>1, <2>1
  <2> QED BY <1>1, <1>3, <2>1, <2>2
<1>22. CASE UNCHANGED metrics
  BY <1>1, <1>3, <1>22 DEF metrics
<1> QED BY <1>5, <1>6, <1>11, <1>12, <1>13, <1>14, <1>15, <1>16, <1>17, <1>19, <1>20,
           <1>21, <1>22 DEF Measuring!RunNext

LEMMA RunTyped == NameInv /\ ValueInv /\ RunBounds => Measuring!RunTypeOK
<1> SUFFICES ASSUME NameInv, ValueInv, RunBounds PROVE Measuring!RunTypeOK
  OBVIOUS
<1>1. runs \in 0..MaxRuns
  BY GovernanceAssumption DEF NameInv, NameTypes, RunBounds
<1>2. \A i \in DOMAIN definitions : sent[i] \in 0..MaxRuns
  <2>1. \A i \in DOMAIN definitions : sent[i] \in Nat /\ sent[i] <= runs
    BY DEF NameInv, NameTypes, SentInv
  <2>2. runs \in Nat /\ runs <= MaxRuns /\ MaxRuns \in Nat
    BY GovernanceAssumption DEF NameInv, NameTypes, RunBounds
  <2> QED BY <2>1, <2>2
<1>3. sent \in [Measuring!Metrics -> 0..MaxRuns]
  BY <1>2 DEF NameInv, NameTypes, Measuring!Metrics
<1> QED BY <1>1, <1>3 DEF RunBounds, Phases, ValueInv, ValueTypes, Measured,
           Measuring!Metrics, Measuring!RunTypeOK

-----------------------------------------------------------------------------
(* The bound of starts                                                     *)
StartBound == starts \in 0..MaxStarts

LEMMA StartBoundInitially == GovernanceInit => StartBound
BY GovernanceAssumption DEF GovernanceInit, Starting!StartupInit, StartBound

LEMMA StartBoundStep == StartBound /\ [Starting!StartupNext]_servers => StartBound'
<1> SUFFICES ASSUME StartBound, [Starting!StartupNext]_servers PROVE StartBound'
  OBVIOUS
<1>1. starts' = starts \/ (starts < MaxStarts /\ starts' = starts + 1)
  <2>1. ASSUME NEW p \in Servers, Starting!Start(p)
        PROVE  starts < MaxStarts /\ starts' = starts + 1
    BY <2>1 DEF Starting!Start
  <2>2. ASSUME NEW p \in Servers,
               \/ Starting!LookVersion(p) \/ Starting!ApplyUpgrade(p)
               \/ Starting!FailUpgrade(p) \/ Starting!Interrupt(p)
        PROVE  starts' = starts
    BY <2>2 DEF Starting!LookVersion, Starting!ApplyUpgrade, Starting!FailUpgrade,
       Starting!Interrupt
  <2>3. ASSUME NEW p \in Servers,
               \/ Starting!LookTables(p) \/ Starting!CreateTables(p)
               \/ Starting!FailTables(p) \/ Starting!LookColumns(p)
               \/ Starting!AddColumn(p) \/ Starting!EndSync(p)
        PROVE  starts' = starts
    BY <2>3 DEF Starting!LookTables, Starting!CreateTables, Starting!FailTables,
       Starting!LookColumns, Starting!AddColumn, Starting!EndSync
  <2>4. ASSUME NEW p \in Servers, NEW mine, Starting!Ensure(p, mine)
        PROVE  starts' = starts
    BY <2>4 DEF Starting!Ensure
  <2>5. ASSUME NEW p \in Servers, Starting!Alter(p) \/ Starting!Serve(p)
        PROVE  starts' = starts
    BY <2>5 DEF Starting!Alter, Starting!Serve
  <2>6. CASE UNCHANGED servers
    BY <2>6 DEF servers
  <2> QED BY <2>1, <2>2, <2>3, <2>4, <2>5, <2>6
          DEF Starting!StartupNext, Starting!EnsureUser, Starting!EnsureTenant,
              Starting!EnsureIntegration, Starting!EnsureVendor,
              Starting!EnsureTraining, Starting!EnsureTrust
<1>2. MaxStarts \in Nat
  BY GovernanceAssumption
<1> QED BY <1>1, <1>2 DEF StartBound

LEMMA ServersTyped == ServerInv /\ StartBound => Starting!StartupTypeOK
BY DEF ServerInv, ServerTypes, Startups, StartBound, Starting!StartupTypeOK

-----------------------------------------------------------------------------
(* The types of all parts, each from its invariant and from the bounds     *)
(* that its counters keep.                                                 *)
LEMMA RequestsTyped ==
    GovernanceSpec => [](/\ Connections!IntegrationsTypeOK /\ Login!SessionsTypeOK
                         /\ Session!TokensTypeOK /\ Ticketing!TicketsTypeOK
                         /\ Approval!ApprovalsTypeOK)
<1>1. GovernanceInit => /\ ConnectionInv /\ LoginInv /\ SessionInv /\ TokenSets
                        /\ TokenCounts /\ TicketInv /\ TicketBounds /\ ApprovalInv
  BY ConnectionInitially, LoginInitially, SessionInitially, TokensInitially,
     TicketInitially, TicketBoundsInitially, ApprovalInitially
<1>2. ConnectionInv /\ [GovernanceNext]_governanceVars => ConnectionInv'
  BY ConnectionStep, ConnectionsMove
<1>3. LoginInv /\ [GovernanceNext]_governanceVars => LoginInv'
  BY LoginStep, LoginsMove
<1>4. SessionInv /\ TokenSets /\ TokenCounts /\ [GovernanceNext]_governanceVars
        => SessionInv' /\ TokenSets' /\ TokenCounts'
  BY SessionStep, TokenSetsStep, TokenCountsStep, SessionsMove
<1>5. TicketInv /\ TicketBounds /\ [GovernanceNext]_governanceVars
        => TicketInv' /\ TicketBounds'
  BY TicketStep, TicketBoundsStep, TicketsMove
<1>6. ApprovalInv /\ [GovernanceNext]_governanceVars => ApprovalInv'
  BY ApprovalStep, ApprovalsMove
<1>7. /\ ConnectionInv => Connections!IntegrationsTypeOK
      /\ LoginInv => Login!SessionsTypeOK
      /\ SessionInv /\ TokenSets /\ TokenCounts => Session!TokensTypeOK
      /\ TicketInv /\ TicketBounds => Ticketing!TicketsTypeOK
      /\ ApprovalInv => Approval!ApprovalsTypeOK
  BY ConnectionsTyped, LoginsTyped, TokensTyped, TicketsTyped, ApprovalsTyped
<1> QED BY <1>1, <1>2, <1>3, <1>4, <1>5, <1>6, <1>7, PTL DEF GovernanceSpec

LEMMA ListsAndSeedsTyped ==
    GovernanceSpec => [](Lists!RosterTypeOK /\ Seeding!SeedsTypeOK)
<1>1. GovernanceInit => /\ ListInv /\ RosterWords /\ RosterCounts /\ RosterFlags
                        /\ SeedInv /\ SeedCounts /\ SeedFlags
  BY ListInitially, RosterInitially, SeedInitially, SeedBoundsInitially
<1>2. ListInv /\ RosterWords /\ RosterCounts /\ RosterFlags
        /\ [GovernanceNext]_governanceVars
          => ListInv' /\ RosterWords' /\ RosterCounts' /\ RosterFlags'
  BY ListStep, RosterStep, ListsMove
<1>3. SeedInv /\ SeedCounts /\ SeedFlags /\ [GovernanceNext]_governanceVars
        => SeedInv' /\ SeedCounts' /\ SeedFlags'
  BY SeedStep, SeedBoundsStep, SeedsMove
<1>4. /\ ListInv /\ RosterWords /\ RosterCounts /\ RosterFlags => Lists!RosterTypeOK
      /\ SeedInv /\ SeedCounts /\ SeedFlags => Seeding!SeedsTypeOK
  BY ListsTyped, SeedsTyped
<1> QED BY <1>1, <1>2, <1>3, <1>4, PTL DEF GovernanceSpec

LEMMA OutsideTyped ==
    GovernanceSpec => [](/\ Collecting!CollectorsTypeOK /\ Measuring!RunTypeOK
                         /\ Starting!StartupTypeOK)
<1>1. GovernanceInit => /\ EvidenceInv /\ ProbeInv /\ PassBounds /\ NameInv /\ ValueInv
                        /\ RunBounds /\ ServerInv /\ StartBound
  BY EvidenceInitially, ProbeInitially, PassBoundsInitially, NameInitially,
     ValueInitially, RunBoundsInitially, ServerInitially, StartBoundInitially
<1>2. EvidenceInv /\ ProbeInv /\ PassBounds /\ [GovernanceNext]_governanceVars
        => EvidenceInv' /\ ProbeInv' /\ PassBounds'
  BY EvidenceStep, ProbeStep, PassBoundsStep, EvidenceMoves
<1>3. NameInv /\ ValueInv /\ RunBounds /\ [GovernanceNext]_governanceVars
        => NameInv' /\ ValueInv' /\ RunBounds'
  BY NameStep, ValueStep, RunBoundsStep, MetricsMove
<1>4. ServerInv /\ StartBound /\ [GovernanceNext]_governanceVars
        => ServerInv' /\ StartBound'
  BY ServerStep, StartBoundStep, ServersMove
<1>5. /\ EvidenceInv /\ ProbeInv /\ PassBounds => Collecting!CollectorsTypeOK
      /\ NameInv /\ ValueInv /\ RunBounds => Measuring!RunTypeOK
      /\ ServerInv /\ StartBound => Starting!StartupTypeOK
  BY CollectorsTyped, RunTyped, ServersTyped
<1> QED BY <1>1, <1>2, <1>3, <1>4, <1>5, PTL DEF GovernanceSpec

(* GovernanceTypeOK: the state of every part is of its type, and every     *)
(* counter within its bound: handed out tokens, keys of tickets, copies of *)
(* a default, polls of a search, the turn of a pass.                       *)
THEOREM GovernanceTypeCorrect == GovernanceSpec => []GovernanceTypeOK
BY RequestsTyped, ListsAndSeedsTyped, OutsideTyped, PTL DEF GovernanceTypeOK
=============================================================================
