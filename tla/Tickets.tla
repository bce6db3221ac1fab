-------------------------------- MODULE Tickets --------------------------------
(***************************************************************************)
(* Remediation tasks of one organisation, their tickets at the connected   *)
(* ticket system (ServiceNow or Jira), and the assets copied from it.  The *)
(* ticket system is asked in the middle of a transaction: what it did      *)
(* stays done when its answer is lost or when the transaction fails.       *)
(***************************************************************************)
EXTENDS Integers, FiniteSets

CONSTANTS
    Tasks,            \* remediation tasks
    Requests,         \* concurrent requests
    MaxKeys,          \* bound of the model: ticket keys given out
    MaxSyncs          \* bound of the model: synchronisations of the assets

VARIABLES
    provider,    \* the connected ticket system: none, sandbox, live
    tasks,       \* table remediation_tasks
    records,     \* table itsm_tickets: key and task
    closedHere,  \* records whose status is closed or resolved
    assets,      \* table cmdb_assets: copies of the provider's or the demo list
    request,     \* local state of each request
    keys,        \* number of keys given out
    opened, closed,   \* the provider's tickets, those closed at some time
    lost,        \* history: tickets whose answer or transaction was lost
    overlapped   \* history: tasks that two requests had in hand at once

Keys == 1..MaxKeys
None == 0
Absent == [status |-> "absent", ticket |-> None]
Resting == [op |-> "idle", todo |-> {}, got |-> {}, ask |-> {}, seen |-> {}]

TicketsInit ==
    /\ provider \in {"none", "sandbox", "live"}
    /\ tasks = [t \in Tasks |-> Absent]
    /\ records = {} /\ closedHere = {}
    /\ assets = [origin \in {"live", "demo"} |-> 0]
    /\ request = [h \in Requests |-> Resting]
    /\ keys = 0 /\ opened = {} /\ closed = {} /\ lost = {} /\ overlapped = {}

taskVars == <<provider, tasks, records, closedHere, assets>>
providerVars == <<keys, opened, closed, lost>>
ticketsVars == <<taskVars, request, providerVars, overlapped>>

Set(h, r) == request' = [request EXCEPT ![h] = r]
Tickets(key) == {r.task : r \in {s \in records : s.key = key}}

(* The tasks a request will open a ticket for, or has opened one for.      *)
InHand(h) ==
    IF request[h].op \in {"create", "sync"}
      THEN request[h].todo \cup {g.task : g \in request[h].got} ELSE {}

Enter(h, op, todo, ask) ==
    /\ request[h].op = "idle"
    /\ Set(h, [Resting EXCEPT !.op = op, !.todo = todo, !.ask = ask])

-----------------------------------------------------------------------------
(* Tasks                                                                   *)

(* create_remediation_task up to the call of the ticket system: the task   *)
(* is flushed, and nobody else sees it before the commit.                  *)
BeginCreate(h, t) ==
    /\ tasks[t] = Absent /\ \A g \in Requests : t \notin InHand(g)
    /\ IF provider = "none"
         THEN /\ request[h].op = "idle"
              /\ tasks' = [tasks EXCEPT ![t].status = "open"]
              /\ UNCHANGED request
         ELSE Enter(h, "create", {t}, {}) /\ UNCHANGED tasks
    /\ UNCHANGED <<provider, records, closedHere, assets, providerVars, overlapped>>

(* create_tasks_from_gaps opens no ticket.                                 *)
CreateFromGap(t) ==
    /\ tasks[t] = Absent /\ \A g \in Requests : t \notin InHand(g)
    /\ tasks' = [tasks EXCEPT ![t].status = "open"]
    /\ UNCHANGED <<provider, records, closedHere, assets, request, providerVars,
                   overlapped>>

(* update_remediation_task writes the status it was given, and no ticket.  *)
UpdateTask(t) ==
    /\ tasks[t] # Absent
    /\ \E status \in {"open", "completed"} :
          tasks' = [tasks EXCEPT ![t].status = status]
    /\ UNCHANGED <<provider, records, closedHere, assets, request, providerVars,
                   overlapped>>

(* A fault: tasks that have a ticket are not left out.                     *)
Open == {t \in Tasks : tasks[t].status = "open"}

(* The tasks of sync_all_remediation_tickets                               *)
Unticketed == {t \in Tasks : tasks[t].status = "open" /\ tasks[t].ticket = None}

BeginSync(h) ==
    /\ provider # "none" /\ Unticketed # {}
    /\ Enter(h, "sync", Unticketed, {})
    /\ overlapped' = overlapped \cup
          {t \in Unticketed : \E g \in Requests \ {h} : t \in InHand(g)}
    /\ UNCHANGED <<taskVars, providerVars>>

(* create_servicenow_incident or create_jira_ticket, for the next task:    *)
(* without a ticket of the provider in the answer, the key is invented.    *)
OpenTicket(h) ==
    LET key == keys + 1 IN
    /\ request[h].op \in {"create", "sync"} /\ keys < MaxKeys
    /\ keys' = key
    /\ \E t \in request[h].todo :
          Set(h, [request[h] EXCEPT !.todo = @ \ {t},
                                    !.got = @ \cup {[task |-> t, key |-> key]}])
    /\ \/ UNCHANGED <<opened, lost>>
       \/ provider = "live" /\ opened' = opened \cup {key} /\ UNCHANGED lost
    /\ UNCHANGED <<taskVars, closed, overlapped>>

(* The provider opens a ticket, and the answer is lost.                    *)
LoseAnswer(h) ==
    /\ request[h].op \in {"create", "sync"} /\ provider = "live"
    /\ request[h].todo # {} /\ keys + 2 <= MaxKeys
    /\ keys' = keys + 2
    /\ opened' = opened \cup {keys + 1} /\ lost' = lost \cup {keys + 1}
    /\ \E t \in request[h].todo :
          Set(h, [request[h] EXCEPT !.todo = @ \ {t},
                                    !.got = @ \cup {[task |-> t, key |-> keys + 2]}])
    /\ UNCHANGED <<taskVars, closed, overlapped>>

(* One commit for all: every task gets its ticket, and its record.         *)
CommitTickets(h) ==
    LET r == request[h] IN
    /\ r.op \in {"create", "sync"} /\ r.todo = {}
    /\ records' = records \cup r.got
    /\ tasks' = [t \in Tasks |->
                   IF \E g \in r.got : g.task = t
                     THEN [status |-> IF r.op = "create" THEN "open" ELSE tasks[t].status,
                           ticket |-> (CHOOSE g \in r.got : g.task = t).key]
                     ELSE tasks[t]]
    /\ Set(h, Resting)
    /\ UNCHANGED <<provider, closedHere, assets, providerVars, overlapped>>

(* The transaction fails: nothing of it is kept, except at the provider.   *)
Abort(h) ==
    /\ request[h].op # "idle" /\ Set(h, Resting)
    /\ lost' = lost \cup IF request[h].op \in {"create", "sync"}
                           THEN {g.key : g \in request[h].got} \cap opened ELSE {}
    /\ UNCHANGED <<taskVars, keys, opened, closed, overlapped>>

-----------------------------------------------------------------------------
(* What comes from the ticket system                                       *)

(* The provider closes a ticket, and may open it again.                    *)
CloseTicket(key) ==
    /\ key \in opened /\ closed' = closed \cup {key}
    /\ UNCHANGED <<taskVars, request, keys, opened, lost, overlapped>>

(* sync_ticket_status_from_itsm: ServiceNow must be connected, and the     *)
(* records that are not closed are asked for.                              *)
BeginPull(h) ==
    /\ provider # "none" /\ records # {}
    /\ Enter(h, "pull", {}, {r.key : r \in records} \ closedHere)
    /\ UNCHANGED <<taskVars, providerVars, overlapped>>

(* sync_servicenow_ticket_status, for a ticket that is closed there.  An   *)
(* invented key is not found, and a request that fails or an unknown state *)
(* changes nothing.                                                        *)
PullStatus(h) ==
    /\ request[h].op = "pull"
    /\ \E key \in request[h].ask \cap closed :
          Set(h, [request[h] EXCEPT !.ask = @ \ {key}, !.seen = @ \cup {key}])
    /\ UNCHANGED <<taskVars, providerVars, overlapped>>

(* What is left was answered with another state or with none: a ticket     *)
(* that a faster pull has closed meanwhile is open again where the state   *)
(* is not the one this pull loaded.                                        *)
CommitPull(h) ==
    /\ request[h].op = "pull"
    /\ \E again \in SUBSET (request[h].ask \cap closedHere) :
          closedHere' = (closedHere \ again) \cup request[h].seen
    /\ Set(h, Resting)
    /\ UNCHANGED <<provider, tasks, records, assets, providerVars, overlapped>>

(* sync_cmdb_from_integrations inserts the provider's items anew each      *)
(* time, or the demo list when it gets none.                               *)
SyncCmdb ==
    /\ \E origin \in IF provider = "live" THEN {"live", "demo"} ELSE {"demo"} :
          /\ assets["live"] + assets["demo"] < MaxSyncs
          /\ assets' = [assets EXCEPT ![origin] = @ + 1]
    /\ UNCHANGED <<provider, tasks, records, closedHere, request, providerVars,
                   overlapped>>

TicketsNext ==
    \/ SyncCmdb
    \/ \E t \in Tasks : CreateFromGap(t) \/ UpdateTask(t)
    \/ \E key \in Keys : CloseTicket(key)
    \/ \E h \in Requests :
          \/ BeginSync(h) \/ OpenTicket(h) \/ LoseAnswer(h) \/ CommitTickets(h)
          \/ Abort(h) \/ BeginPull(h) \/ PullStatus(h) \/ CommitPull(h)
          \/ \E t \in Tasks : BeginCreate(h, t)

-----------------------------------------------------------------------------
(* Properties                                                              *)

Pairs == [task: Tasks, key: Keys]

(* The types of the tables and of the requests.                            *)
TicketsTypeOK ==
    /\ tasks \in [Tasks -> [status: {"absent", "open", "completed"},
                            ticket: Keys \cup {None}]]
    /\ records \subseteq Pairs /\ closedHere \subseteq Keys
    /\ assets \in [{"live", "demo"} -> 0..MaxSyncs]
    /\ request \in [Requests -> [op: {"idle", "create", "sync", "pull"},
                                 todo: SUBSET Tasks, got: SUBSET Pairs,
                                 ask: SUBSET Keys, seen: SUBSET Keys]]
    /\ opened \cup closed \cup lost \subseteq 1..keys /\ overlapped \subseteq Tasks

(* A ticket of the provider without a record is in a request under way, or *)
(* its answer or its transaction was lost; a task's ticket has a record    *)
(* for this task; a task has two records only when two requests had it in  *)
(* hand at once; and a ticket is closed here only after it was there.      *)
TicketsAccounted ==
    /\ \A key \in opened \ lost :
          \/ Tickets(key) # {}
          \/ \E h \in Requests : \E g \in request[h].got : g.key = key
    /\ \A t \in Tasks : tasks[t].ticket # None => Tickets(tasks[t].ticket) = {t}
    /\ \A r, s \in records : r.task = s.task /\ r # s => r.task \in overlapped
    /\ closedHere \subseteq closed
=============================================================================
