-------------------------------- MODULE Startup --------------------------------
(***************************************************************************)
(* init_db: what a server does with the schema before it serves.  Several  *)
(* servers may start on one database.  SQLite commits each ALTER by itself *)
(* (its driver opens a transaction for rows only); an upgrade by Alembic   *)
(* is one transaction on Postgres.                                         *)
(***************************************************************************)
EXTENDS Integers, FiniteSets

CONSTANTS
    Servers,
    Columns,     \* columns that older databases lack, and others
    Ensured,     \* those that the functions _ensure_*_columns add, on SQLite
    Migrated,    \* those that the second Alembic revision adds
    MaxStarts    \* bound of the model: starts of servers

VARIABLES
    sqlite,      \* SQLite or Postgres
    alembic,     \* use_alembic
    tables,      \* the tables are there
    columns,     \* columns that are there
    version,     \* alembic_version: none, initial, head
    server,      \* local state of each server
    starts,
    exited,      \* history: a server has ended in init_db
    together,    \* history: two servers were in init_db at once
    locked,      \* history: a statement was refused because of a lock
    stuck,       \* history: the first revision met tables it did not make
    older        \* history: what the database lacked at first

Down == [at |-> "down", seen |-> "none", todo |-> {}, column |-> {}]
At(p, place) == server[p].at = place

StartupInit ==
    /\ sqlite \in BOOLEAN /\ alembic \in BOOLEAN /\ (~sqlite => alembic)
    /\ tables \in BOOLEAN
    /\ older \in SUBSET Columns /\ Cardinality(older) <= 2
    /\ columns = IF tables THEN Columns \ older ELSE {}
    /\ version \in {"none", "initial", "head"}
    /\ ~tables => version = "none" /\ older = {}
    /\ version = "initial" => older \subseteq Migrated
    /\ version = "head" => older \cap Migrated = {}
    /\ server = [p \in Servers |-> Down] /\ starts = 0
    /\ exited = FALSE /\ together = FALSE /\ locked = FALSE /\ stuck = FALSE

kind == <<sqlite, alembic, older>>
schema == <<tables, columns, version>>
startupVars == <<kind, schema, server, starts, exited, together, locked, stuck>>

Move(p, record) == server' = [server EXCEPT ![p] = record]
Go(p, place) == Move(p, [Down EXCEPT !.at = place])
GoOn(p) == Go(p, IF sqlite THEN "ensure" ELSE "up")
flags == <<exited, together, locked, stuck>>

Exit(p) == Go(p, "down") /\ exited' = TRUE

(* lifespan calls init_db; a server that is restarted begins again.        *)
Start(p) ==
    /\ At(p, "down") /\ starts < MaxStarts
    /\ starts' = starts + 1
    /\ Go(p, IF alembic THEN "upgrade" ELSE "create")
    /\ together' = (together \/ \E q \in Servers \ {p} : server[q].at \notin {"down", "up"})
    /\ UNCHANGED <<kind, schema, exited, locked, stuck>>

-----------------------------------------------------------------------------
(* Alembic                                                                 *)

LookVersion(p) ==
    /\ At(p, "upgrade")
    /\ IF version = "head" THEN GoOn(p)
       ELSE Move(p, [Down EXCEPT !.at = "apply", !.seen = version])
    /\ UNCHANGED <<kind, schema, starts, flags>>

(* Both revisions: the first creates its tables whatever is there, the     *)
(* second the other tables and the columns that it looks for.  Another     *)
(* upgrade in between makes one of the statements fail.                    *)
ApplyUpgrade(p) ==
    /\ At(p, "apply") /\ version = server[p].seen
    /\ version = "initial" \/ ~tables
    /\ tables' = TRUE /\ version' = "head"
    /\ columns' = IF version = "none" THEN Columns ELSE columns \cup Migrated
    /\ GoOn(p)
    /\ UNCHANGED <<kind, starts, flags>>

FailUpgrade(p) ==
    /\ At(p, "apply")
    /\ version = server[p].seen => version = "none" /\ tables
    /\ Exit(p)
    /\ stuck' = (stuck \/ version = "none")
    /\ UNCHANGED <<kind, schema, starts, together, locked>>

(* The process ends during the first revision: on SQLite the tables stay.  *)
Interrupt(p) ==
    /\ At(p, "apply") /\ server[p].seen = "none" /\ ~tables /\ sqlite
    /\ tables' = TRUE /\ columns' = Columns \ Migrated
    /\ Go(p, "down")
    /\ UNCHANGED <<kind, version, starts, flags>>

-----------------------------------------------------------------------------
(* create_all and sync_model_schema                                        *)

LookTables(p) ==
    /\ At(p, "create")
    /\ Go(p, IF tables THEN "sync" ELSE "tables")
    /\ UNCHANGED <<kind, schema, starts, flags>>

CreateTables(p) ==
    /\ At(p, "tables") /\ ~tables
    /\ tables' = TRUE /\ columns' = Columns
    /\ Go(p, "sync")
    /\ UNCHANGED <<kind, version, starts, flags>>

FailTables(p) ==
    /\ At(p, "tables") /\ tables
    /\ Exit(p)
    /\ UNCHANGED <<kind, schema, starts, together, locked, stuck>>

LookColumns(p) ==
    /\ At(p, "sync")
    /\ Move(p, [Down EXCEPT !.at = "adding", !.todo = Columns \ columns])
    /\ UNCHANGED <<kind, schema, starts, flags>>

(* A refused ALTER, of a column that is there or of a locked table, is     *)
(* logged and passed over.                                                 *)
AddColumn(p) ==
    /\ At(p, "adding") /\ server[p].todo # {}
    /\ LET c == CHOOSE c \in server[p].todo : TRUE IN
         /\ Move(p, [server[p] EXCEPT !.todo = @ \ {c}])
         /\ \/ columns' = columns \cup {c} /\ UNCHANGED locked
            \/ c \notin columns /\ ~locked /\ locked' = TRUE /\ UNCHANGED columns
    /\ UNCHANGED <<kind, tables, version, starts, exited, together, stuck>>

EndSync(p) ==
    /\ At(p, "adding") /\ server[p].todo = {}
    /\ GoOn(p)
    /\ UNCHANGED <<kind, schema, starts, flags>>

-----------------------------------------------------------------------------
(* The functions _ensure_*_columns, on SQLite                              *)

Ensure(p, mine) ==
    /\ At(p, "ensure")
    /\ LET missing == mine \ columns IN
       /\ missing # {}
       /\ \E c \in missing :
            Move(p, [Down EXCEPT !.at = "alter", !.column = {c}])
    /\ UNCHANGED <<kind, schema, starts, flags>>

EnsureUser(p) == Ensure(p, {"user"})
EnsureTenant(p) == Ensure(p, {"tenant"})
EnsureIntegration(p) == Ensure(p, {"integration"})
EnsureVendor(p) == Ensure(p, {"vendor"})
EnsureTraining(p) == Ensure(p, {"training"})
EnsureTrust(p) == Ensure(p, {"trust"})

(* Here a refused ALTER ends the server.                                   *)
Alter(p) ==
    /\ At(p, "alter")
    /\ LET c == server[p].column IN
       \/ /\ ~(c \subseteq columns)
          /\ columns' = columns \cup c
          /\ Go(p, "ensure") /\ UNCHANGED <<exited, locked>>
       \/ c \subseteq columns /\ Exit(p) /\ UNCHANGED <<columns, locked>>
       \/ ~locked /\ locked' = TRUE /\ Exit(p) /\ UNCHANGED columns
    /\ UNCHANGED <<kind, tables, version, starts, together, stuck>>

(* The seeds (see Seeds) and the server serves.                            *)
Serve(p) ==
    /\ At(p, "ensure") /\ Ensured \subseteq columns
    /\ Go(p, "up")
    /\ UNCHANGED <<kind, schema, starts, flags>>

StartupNext ==
    \E p \in Servers :
        \/ Start(p) \/ LookVersion(p) \/ ApplyUpgrade(p) \/ FailUpgrade(p) \/ Interrupt(p)
        \/ LookTables(p) \/ CreateTables(p) \/ FailTables(p)
        \/ LookColumns(p) \/ AddColumn(p) \/ EndSync(p)
        \/ EnsureUser(p) \/ EnsureTenant(p) \/ EnsureIntegration(p) \/ EnsureVendor(p)
        \/ EnsureTraining(p) \/ EnsureTrust(p) \/ Alter(p) \/ Serve(p)

-----------------------------------------------------------------------------
Places == {"down", "upgrade", "apply", "create", "tables", "sync", "adding", "ensure",
           "alter", "up"}

StartupTypeOK ==
    /\ columns \subseteq Columns /\ version \in {"none", "initial", "head"}
    /\ tables \in BOOLEAN /\ starts \in 0..MaxStarts
    /\ \A p \in Servers : server[p].at \in Places /\ server[p].todo \subseteq Columns

(* A server that serves has the tables and every column that its way of    *)
(* starting knows; without Alembic all of them, but for one refused by a   *)
(* lock.  Alembic leaves out what the database lacked at first and no      *)
(* revision adds: on Postgres also what the functions for SQLite would.    *)
SchemaKept ==
    \A p \in Servers :
        At(p, "up") =>
            /\ tables
            /\ (IF sqlite THEN Ensured ELSE Migrated) \subseteq columns
            /\ columns # Columns => locked \/ (alembic /\ Columns \ columns \subseteq older)

(* init_db fails only next to another one, at a lock, or where the first   *)
(* revision finds tables without a version.                                *)
FailureExplained == exited => together \/ locked \/ stuck
=============================================================================
