------------------------------- MODULE Governance -------------------------------
(***************************************************************************)
(* What people do in the application besides evidence, reports and users:  *)
(* connect integrations, sign in, open tickets, approve, keep lists; and   *)
(* what a pass reads from outside, and the start of servers.  The parts    *)
(* share no row of the database that they write and no key of the session  *)
(* store, so a behaviour works on one of them throughout (focus).          *)
(***************************************************************************)
EXTENDS Integers, Sequences, FiniteSets

(* The constants of the parts, which say what they are.                    *)
CONSTANTS
    Requests,
    Providers, Siems, OauthProviders, AwsProvider, Limit,
    Logins, Threshold, MaxGuesses, MaxDeaths,
    MaxTokens,
    Tasks, MaxKeys, MaxSyncs,
    Users, MaxVersions,
    Last, PeoplePage, MaxRows, MaxGiven, MaxSaid,
    MaxCopies,
    Orders, MaxProbes,
    Catalogs, EventCounts, Fixed, RedMin, PageSize, MaxPolls, MaxRuns,
    Servers, SchemaColumns, Ensured, Migrated, MaxStarts

ASSUME GovernanceAssumption ==
    /\ Siems \cup OauthProviders \cup {AwsProvider} \subseteq Providers
    /\ "none" \notin Siems
    /\ IsFiniteSet(Requests) /\ IsFiniteSet(Logins) /\ Threshold \in Nat \ {0}
    /\ "none" \notin Users
    /\ {MaxGuesses, MaxDeaths, MaxTokens, MaxKeys, MaxSyncs, MaxVersions, Last,
        PeoplePage, MaxRows, MaxGiven, MaxSaid, MaxCopies, MaxProbes, MaxRuns,
        MaxStarts} \subseteq Nat
    /\ {MaxTokens, MaxRows, MaxPolls} \subseteq Nat \ {0}
    /\ \A order \in Orders :
          /\ order \in Seq(STRING)
          /\ \A m, n \in DOMAIN order : order[m] = order[n] => m = n
    /\ \A catalog \in Catalogs : catalog \in Seq([kind: STRING, suffix: Nat])
    /\ EventCounts \subseteq Nat /\ {Fixed, PageSize} \subseteq Nat
    /\ {"user", "tenant", "integration", "vendor", "training", "trust"} \cup Ensured
          \cup Migrated \subseteq SchemaColumns

VARIABLES
    focus,
    live, settings, pending, connecting, known,
    counter, expires, locked, login, guesses, total, deaths,
    redis, store, grant, active, unexpired, revoked, using, issued, forgotten, ended,
    late, exchanged, overlapped,
    provider, tasks, records, closedHere, assets, ticketing, keys, opened, closed,
    lost, contested,
    document, row, approving, version, signed, implemented, skipped, seeded,
    excused,
    list, source, rows, byHand, state, incidents, given, scored, handled, passing,
    ever, doubled, missed,
    table, copies, own, seeding, requested, raced, refused,
    connected, demo, credentials, access, refresh, turn, items, filed, recorded,
    session, probed, returned, answered, unfiled, probes, disturbed,
    siem, unconfigured, jira, definitions, truth, earlier, phase, polls, offset,
    values, names, sent, failed, runs,
    sqlite, alembic, tables, columns, revision, server, starts, exited, together,
    refusing, stuck, older

Connections == INSTANCE Integrations WITH Oauth <- OauthProviders, Aws <- AwsProvider,
                                          request <- connecting

Login == INSTANCE Sessions

Session == INSTANCE Tokens WITH live <- unexpired, request <- using

Ticketing == INSTANCE Tickets WITH request <- ticketing, overlapped <- contested

Approval == INSTANCE Approvals WITH kind <- document, request <- approving

Lists == INSTANCE Roster WITH kind <- list, request <- passing, overlapped <- doubled

Seeding == INSTANCE Seeds WITH request <- seeding, overlapped <- raced

Collecting == INSTANCE Collectors

Measuring == INSTANCE MetricRun WITH Counts <- EventCounts, keys <- names,
                                     opened <- sent

Starting == INSTANCE Startup WITH Columns <- SchemaColumns, version <- revision,
                                  locked <- refusing

connections == <<live, settings, pending, connecting, known>>
logins == <<counter, expires, locked, login, guesses, total, deaths>>
sessions == <<redis, store, grant, active, unexpired, revoked, using, issued,
              forgotten, ended, late, exchanged, overlapped>>
tickets == <<provider, tasks, records, closedHere, assets, ticketing, keys, opened,
             closed, lost, contested>>
approvals == <<document, row, approving, version, signed, implemented, skipped, seeded,
               excused>>
lists == <<list, source, rows, byHand, state, incidents, given, scored, handled,
           passing, ever, doubled, missed>>
seeds == <<table, copies, own, seeding, requested, raced, refused>>
evidence == <<connected, demo, credentials, access, refresh, turn, items, filed,
              recorded, session, probed, returned, answered, unfiled, probes,
              disturbed>>
metrics == <<siem, unconfigured, jira, definitions, truth, earlier, phase, polls, offset,
             values, names, sent, failed, runs>>
servers == <<sqlite, alembic, tables, columns, revision, server, starts, exited,
             together, refusing, stuck, older>>

requests == <<connections, logins, sessions, tickets, approvals, lists, seeds>>
outside == <<evidence, metrics, servers>>
governanceVars == <<focus, requests, outside>>

(* Only the part in focus has more than one initial state to choose from.  *)
Parts == {"connections", "logins", "sessions", "tickets", "approvals", "lists", "seeds",
          "evidence", "metrics", "servers"}

GovernanceInit ==
    /\ focus \in Parts
    /\ Connections!IntegrationsInit /\ (focus # "connections" => live = {})
    /\ Login!SessionsInit
    /\ Session!TokensInit /\ (focus # "sessions" => redis /\ unexpired = {})
    /\ Ticketing!TicketsInit /\ (focus # "tickets" => provider = "none")
    /\ Approval!ApprovalsInit /\ (focus # "approvals" => document = "change")
    /\ Lists!RosterInit /\ (focus # "lists" => list = "people")
    /\ Seeding!SeedsInit /\ (focus # "seeds" => table = "findings")
    /\ Collecting!CollectorsInit
    /\ focus # "evidence" => /\ connected = CHOOSE order \in Orders : TRUE
                             /\ demo /\ access = {}
    /\ Measuring!RunInit
    /\ focus # "metrics" => /\ siem = "Splunk" /\ jira /\ unconfigured /\ earlier = 0
                            /\ definitions = CHOOSE catalog \in Catalogs : TRUE
                            /\ truth = CHOOSE counts \in
                                         [DOMAIN definitions -> EventCounts] : TRUE
    /\ Starting!StartupInit
    /\ focus # "servers" => sqlite /\ alembic /\ ~tables

GovernanceNext ==
    /\ UNCHANGED focus
    /\ \/ /\ focus = "connections" /\ Connections!IntegrationsNext
          /\ UNCHANGED <<logins, sessions, tickets, approvals, lists, seeds, outside>>
       \/ /\ focus = "logins" /\ Login!SessionsNext
          /\ UNCHANGED <<connections, sessions, tickets, approvals, lists, seeds, outside>>
       \/ /\ focus = "sessions" /\ Session!TokensNext
          /\ UNCHANGED <<connections, logins, tickets, approvals, lists, seeds, outside>>
       \/ /\ focus = "tickets" /\ Ticketing!TicketsNext
          /\ UNCHANGED <<connections, logins, sessions, approvals, lists, seeds, outside>>
       \/ /\ focus = "approvals" /\ Approval!ApprovalsNext
          /\ UNCHANGED <<connections, logins, sessions, tickets, lists, seeds, outside>>
       \/ /\ focus = "lists" /\ Lists!RosterNext
          /\ UNCHANGED <<connections, logins, sessions, tickets, approvals, seeds, outside>>
       \/ /\ focus = "seeds" /\ Seeding!SeedsNext
          /\ UNCHANGED <<connections, logins, sessions, tickets, approvals, lists, outside>>
       \/ /\ focus = "evidence" /\ Collecting!CollectorsNext
          /\ UNCHANGED <<requests, metrics, servers>>
       \/ /\ focus = "metrics" /\ Measuring!RunNext
          /\ UNCHANGED <<requests, evidence, servers>>
       \/ /\ focus = "servers" /\ Starting!StartupNext
          /\ UNCHANGED <<requests, evidence, metrics>>

GovernanceSpec == GovernanceInit /\ [][GovernanceNext]_governanceVars

-----------------------------------------------------------------------------
(* The types of all parts.                                                 *)
GovernanceTypeOK ==
    /\ Connections!IntegrationsTypeOK /\ Login!SessionsTypeOK /\ Session!TokensTypeOK
    /\ Ticketing!TicketsTypeOK /\ Approval!ApprovalsTypeOK
    /\ Lists!RosterTypeOK /\ Seeding!SeedsTypeOK
    /\ Collecting!CollectorsTypeOK /\ Measuring!RunTypeOK /\ Starting!StartupTypeOK

(* A connection is lost only to a request that was under way, and reported *)
(* dead only when its refresh token has been used up.                      *)
ConnectionKept == Connections!ConnectionKept /\ Collecting!DeadMeansExchanged

(* The lock bounds the wrong guesses; what was ended lets nobody in, but   *)
(* for the live feed and a memory that forgot; and a sign-in is handed out *)
(* once.                                                                   *)
SignInKept ==
    Login!GuessesBounded /\ Session!RevocationHolds /\ Session!HandedOutOnce

(* Every ticket of a provider is accounted for, whether of a task or of a  *)
(* breached metric.                                                        *)
TicketsAccounted == Ticketing!TicketsAccounted /\ Measuring!KeysTrue

(* What bears a signature is what was signed.                              *)
SignOffKept == Approval!SignOffKept

(* Lists say what the other side said, once; defaults are seeded once; a   *)
(* server that serves has its schema.                                      *)
ListsKept ==
    /\ Lists!RosterKept /\ Seeding!SeededOnce
    /\ Starting!SchemaKept /\ Starting!FailureExplained

(* What is filed as evidence and computed as a metric was said by the      *)
(* other side, unless it failed or the deployment is a demonstration.      *)
SourcesTrue == Collecting!EvidenceTrue /\ Measuring!ValuesTrue
=============================================================================
