-------------------------------- MODULE Accounts --------------------------------
(***************************************************************************)
(* One organisation's accounts and its subscription: invitations, SCIM and *)
(* single sign-on create users, webhooks of the payment provider change    *)
(* the plan.  Every request has a session of its own; it reads (Begin) and *)
(* later commits (Commit), and other requests commit in between.  A commit *)
(* writes the columns that differ from what the request has loaded.        *)
(*                                                                         *)
(* The payment provider delivers an event until one delivery is answered,  *)
(* in any order and perhaps several at a time.                             *)
(***************************************************************************)
EXTENDS Integers, FiniteSets, Sequences

CONSTANTS
    People,           \* user names, unique over all organisations
    Founder,          \* the administrator who registered the organisation
    Handlers,         \* concurrent requests
    Plans, Trial,
    Seats,            \* PLAN_LIMITS[plan]["seats"]
    Events,           \* events of the payment provider, in the order sent
    Kind,             \* what each event reports
    PlanOf,           \* the plan in the metadata of a completed checkout
    MaxFailures       \* bound of the model: requests that die

ASSUME AccountsAssumption ==
    /\ Founder \in People /\ Trial \in Plans
    /\ IsFiniteSet(People) /\ IsFiniteSet(Handlers) /\ Handlers # {}
    /\ Seats \in [Plans -> Nat \ {0}]
    /\ Events \subseteq Nat
    /\ Kind \in [Events -> {"checkout", "updated", "deleted", "failed"}]
    /\ PlanOf \in [Events -> Plans]
    /\ MaxFailures \in Nat

VARIABLES
    user,        \* table users: "foreign" belongs to another organisation
    tenant,      \* the row of table tenants
    processed,   \* events in billing_webhook_events
    answered,    \* events the provider has an answer for
    handler,     \* local state of each request
    applied,     \* history: events that changed the tenant, oldest first
    uncounted,   \* history: users activated without a seat check
    granted,     \* history: the largest number of seats there ever was
    reordered,   \* history: an event was not delivered in order, or alone
    failures

history == <<applied, uncounted, granted, reordered, failures>>
vars == <<user, tenant, processed, answered, handler, history>>

UserStatus == {"absent", "inactive", "active", "foreign"}
Subscription == {"trialing", "active", "active_demo", "cancelled", "past_due"}
Row == [plan: Plans, status: Subscription, customer: BOOLEAN]

NoEvent == 0
NewTenant == [plan |-> Trial, status |-> "trialing", customer |-> FALSE]
Idle == [op |-> "idle", person |-> Founder, to |-> "active", event |-> NoEvent,
         user |-> "active", row |-> NewTenant]

Init ==
    /\ user = [p \in People |-> IF p = Founder THEN "active" ELSE "absent"]
    /\ tenant = NewTenant
    /\ processed = {} /\ answered = {}
    /\ handler = [h \in Handlers |-> Idle]
    /\ applied = <<>> /\ uncounted = {}
    /\ granted = Seats[Trial]
    /\ reordered = FALSE
    /\ failures = 0

Active == {p \in People : user[p] = "active"}

(* subscription_allows_access: no code sets the end of a trial.            *)
AccessAllowed == tenant.status \notin {"cancelled", "past_due"}

-----------------------------------------------------------------------------
(* Users                                                                   *)

Begin(h, request) ==
    /\ handler[h].op = "idle"
    /\ handler' = [handler EXCEPT ![h] = request]
    /\ UNCHANGED <<user, tenant, processed, answered, history>>

Request(op, p, to) ==
    [Idle EXCEPT !.op = op, !.person = p, !.to = to, !.user = user[p]]

(* A fault: the limit itself is still allowed.                             *)
SeatFreeOrFull == Cardinality(Active) <= Seats[tenant.plan]

(* enforce_seat_limit                                                      *)
SeatFree == Cardinality(Active) < Seats[tenant.plan]

(* invite_team_member, by an active member.                                *)
BeginInvite(h, p) ==
    /\ Active # {} /\ user[p] = "absent"
    /\ AccessAllowed /\ SeatFree
    /\ Begin(h, Request("create", p, "active"))

(* SCIM POST /Users: the identity provider may create an inactive user.    *)
BeginScimCreate(h, p, to) ==
    /\ to \in {"active", "inactive"}
    /\ AccessAllowed /\ SeatFree /\ user[p] = "absent"
    /\ Begin(h, Request("create", p, to))

(* A first single sign-on, where AUTH_SSO_AUTO_PROVISION is set: nobody    *)
(* counts the seats.                                                       *)
BeginProvision(h, p) ==
    /\ user[p] = "absent"
    /\ Begin(h, Request("provision", p, "active"))

(* register_organization: another company's administrator takes the name.  *)
BeginRegister(h, p) ==
    /\ user[p] = "absent"
    /\ Begin(h, Request("create", p, "foreign"))

(* INSERT INTO users; of two requests the unique name refuses the second.  *)
CommitCreate(h) ==
    LET p == handler[h].person
        free == user[p] = "absent"
    IN
    /\ handler[h].op \in {"create", "provision"}
    /\ user' = IF free THEN [user EXCEPT ![p] = handler[h].to] ELSE user
    /\ uncounted' = IF free /\ handler[h].op = "provision"
                      THEN uncounted \cup {p} ELSE uncounted
    /\ handler' = [handler EXCEPT ![h] = Idle]
    /\ UNCHANGED <<tenant, processed, answered, applied, granted, reordered,
                   failures>>

(* PATCH /users: 404 for another organisation's user; nobody deactivates   *)
(* the account they are signed in with.                                    *)
BeginUpdate(h, p, to) ==
    /\ user[p] \in {"active", "inactive"} /\ to \in {"active", "inactive"}
    /\ \E caller \in Active : to = "inactive" => caller # p
    /\ Begin(h, Request("update", p, to))

(* DELETE /users                                                           *)
BeginDeactivate(h, p) ==
    /\ user[p] \in {"active", "inactive"}
    /\ Active \ {p} # {}
    /\ Begin(h, Request("update", p, "inactive"))

(* SCIM PATCH and DELETE have no caller among the users.                   *)
BeginScimUpdate(h, p, to) ==
    /\ user[p] \in {"active", "inactive"} /\ to \in {"active", "inactive"}
    /\ Begin(h, Request("update", p, to))

(* is_active is written if it differs from the loaded one.                 *)
CommitUpdate(h) ==
    LET p == handler[h].person
        written == handler[h].user # handler[h].to
    IN
    /\ handler[h].op = "update"
    /\ user' = IF written THEN [user EXCEPT ![p] = handler[h].to] ELSE user
    /\ uncounted' = IF written /\ handler[h].to = "active"
                      THEN uncounted \cup {p} ELSE uncounted
    /\ handler' = [handler EXCEPT ![h] = Idle]
    /\ UNCHANGED <<tenant, processed, answered, applied, granted, reordered,
                   failures>>

-----------------------------------------------------------------------------
(* Billing                                                                 *)

(* A fault: the webhook answers at once and works on the event later.      *)
ReceiveAndAnswer(h, e) ==
    /\ handler[h].op = "idle" /\ e \notin answered
    /\ answered' = answered \cup {e}
    /\ handler' = [handler EXCEPT ![h] = [Idle EXCEPT !.op = "insert", !.event = e]]
    /\ UNCHANGED <<user, tenant, processed, history>>

(* The provider sends e, for the first time or again; the select finds an  *)
(* event that has been processed.                                          *)
ReceiveEvent(h, e) ==
    /\ handler[h].op = "idle" /\ e \notin answered
    /\ IF e \in processed
         THEN answered' = answered \cup {e} /\ UNCHANGED handler
         ELSE /\ handler' = [handler EXCEPT ![h] = [Idle EXCEPT !.op = "insert",
                                                                !.event = e]]
              /\ UNCHANGED answered
    /\ reordered' = (\/ reordered
                     \/ \E d \in Events \ processed : d < e
                     \/ \E g \in Handlers : handler[g].op \in {"insert", "apply"})
    /\ UNCHANGED <<user, tenant, processed, applied, uncounted, granted, failures>>

Pending(e) == \E g \in Handlers : handler[g].op = "apply" /\ handler[g].event = e

Loaded(h) == [handler EXCEPT ![h].op = "apply", ![h].row = tenant]

(* A fault: the table does not enforce the unique event_id.                *)
InsertEventAnyway(h) ==
    /\ handler[h].op = "insert"
    /\ handler' = Loaded(h)
    /\ UNCHANGED <<user, tenant, processed, answered, history>>

(* flush: the unique event_id makes a second delivery wait for the first,  *)
(* and fails it with an error the provider sees.  Then the tenant is read. *)
InsertEvent(h) ==
    /\ handler[h].op = "insert" /\ ~ Pending(handler[h].event)
    /\ handler' = IF handler[h].event \in processed
                    THEN [handler EXCEPT ![h] = Idle] ELSE Loaded(h)
    /\ UNCHANGED <<user, tenant, processed, answered, history>>

(* Only a checkout names its tenant; every other event is found by the     *)
(* customer that a checkout has stored, or ignored.                        *)
Found(h) == Kind[handler[h].event] = "checkout" \/ handler[h].row.customer

(* The tenant's columns after the event.                                   *)
Effect(row, e) ==
    CASE Kind[e] = "checkout" ->
            [plan |-> PlanOf[e], status |-> "active", customer |-> TRUE]
      [] Kind[e] = "updated" -> [row EXCEPT !.status = "active"]
      [] Kind[e] = "deleted" -> [row EXCEPT !.status = "cancelled"]
      [] Kind[e] = "failed"  -> [row EXCEPT !.status = "past_due"]

(* The columns of new that differ from the loaded ones replace those of    *)
(* the row.                                                                *)
Written(loaded, new) ==
    [c \in DOMAIN tenant |-> IF new[c] # loaded[c] THEN new[c] ELSE tenant[c]]

Larger(m, n) == IF m > n THEN m ELSE n

SetTenant(row) ==
    /\ tenant' = row
    /\ granted' = Larger(granted, Seats[row.plan])

(* The answer may get lost on its way to the provider.                     *)
CommitEvent(h) ==
    LET e == handler[h].event
        row == handler[h].row
    IN
    /\ handler[h].op = "apply"
    /\ IF Found(h)
         THEN /\ SetTenant(Written(row, Effect(row, e)))
              /\ applied' = Append(applied, e)
         ELSE UNCHANGED <<tenant, granted, applied>>
    /\ processed' = processed \cup {e}
    /\ answered' \in {answered, answered \cup {e}}
    /\ handler' = [handler EXCEPT ![h] = Idle]
    /\ UNCHANGED <<user, uncounted, reordered, failures>>

(* POST /checkout of an installation without a Stripe key.                 *)
BeginCheckout(h) ==
    /\ Active # {}
    /\ Begin(h, [Idle EXCEPT !.op = "checkout", !.row = tenant])

CommitCheckout(h, plan) ==
    LET row == handler[h].row IN
    /\ handler[h].op = "checkout"
    /\ SetTenant(Written(row, [row EXCEPT !.plan = plan, !.status = "active_demo"]))
    /\ handler' = [handler EXCEPT ![h] = Idle]
    /\ reordered' = TRUE
    /\ UNCHANGED <<user, processed, answered, applied, uncounted, failures>>

(* A request dies before its commit: its session rolls back.               *)
Fail(h) ==
    /\ handler[h].op # "idle" /\ failures < MaxFailures
    /\ failures' = failures + 1
    /\ handler' = [handler EXCEPT ![h] = Idle]
    /\ UNCHANGED <<user, tenant, processed, answered, applied, uncounted,
                   granted, reordered>>

BeginUser(h, p) ==
    \/ BeginInvite(h, p) \/ BeginProvision(h, p) \/ BeginRegister(h, p)
    \/ BeginDeactivate(h, p)
    \/ \E to \in {"active", "inactive"} :
          BeginScimCreate(h, p, to) \/ BeginUpdate(h, p, to)
          \/ BeginScimUpdate(h, p, to)

Finish(h) ==
    \/ CommitCreate(h) \/ CommitUpdate(h) \/ InsertEvent(h) \/ CommitEvent(h)
    \/ \E plan \in Plans : CommitCheckout(h, plan)

Next ==
    \E h \in Handlers :
        \/ \E p \in People : BeginUser(h, p)
        \/ \E e \in Events : ReceiveEvent(h, e)
        \/ BeginCheckout(h) \/ Finish(h) \/ Fail(h)

(* A request that does not die finishes, and the provider sends every      *)
(* event again until it is answered; a server that is busy now and then is *)
(* free now and then.                                                      *)
Fairness ==
    /\ \A h \in Handlers : WF_vars(Finish(h))
    /\ \A e \in Events : SF_vars(\E h \in Handlers : ReceiveEvent(h, e))

Spec == Init /\ [][Next]_vars /\ Fairness

-----------------------------------------------------------------------------
(* Properties                                                              *)

(* The types of the tables and of the requests.                            *)
TypeOK ==
    /\ user \in [People -> UserStatus] /\ user[Founder] \in {"active", "inactive"}
    /\ tenant \in Row
    /\ processed \subseteq Events /\ answered \subseteq processed
    /\ handler \in [Handlers ->
         [op: {"idle", "create", "provision", "update", "insert", "apply",
               "checkout"},
          person: People, to: UserStatus, event: Events \cup {NoEvent},
          user: UserStatus, row: Row]]
    /\ applied \in Seq(Events)
    /\ uncounted \subseteq People
    /\ granted \in Nat /\ reordered \in BOOLEAN
    /\ failures \in 0..MaxFailures

(* Requests that may still take a seat they have found free.               *)
Taking == {h \in Handlers : handler[h].op = "create" /\ handler[h].to = "active"}

(* Seats are counted before the user is inserted, so concurrent creations  *)
(* may exceed the plan, but never by more than one seat for each request   *)
(* beyond the first: what else exceeds it was activated without a count    *)
(* (SCIM and PATCH reactivations, single sign-on) or under a larger plan.  *)
SeatsBounded ==
    Cardinality(Active \ uncounted) + Cardinality(Taking)
        <= granted + Cardinality(Handlers) - 1

(* However often an event is delivered, and however many deliveries        *)
(* overlap, it changes the tenant at most once.                            *)
AppliedOnce ==
    \A i, j \in DOMAIN applied : applied[i] = applied[j] => i = j

(* When the events were delivered one at a time in the order they were     *)
(* sent, the subscription ends up as the last one says.                    *)
InOrderStatus ==
    ~ reordered /\ applied # <<>> =>
        tenant.status = CASE Kind[applied[Len(applied)]] = "deleted" -> "cancelled"
                          [] Kind[applied[Len(applied)]] = "failed" -> "past_due"
                          [] OTHER -> "active"

(* Deliveries of the payment provider change the subscription once each,   *)
(* and in the order sent when they are delivered in it.                    *)
EventsTakeEffect == AppliedOnce /\ InOrderStatus

(* Every event is processed in the end, whatever fails, overlaps or gets   *)
(* lost on the way.                                                        *)
EventProcessed == \A e \in Events : <>(e \in processed)
=============================================================================
