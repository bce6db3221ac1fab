---------------------------- MODULE PlatformProofs ----------------------------
(***************************************************************************)
(* Theorems about Platform, for any number of people, requests, plans and  *)
(* events of the payment provider, of jobs, sockets and uploads, and of    *)
(* organisations and entries of the activity log.                          *)
(***************************************************************************)
EXTENDS Platform, FiniteSetTheorems, WellFoundedInduction, TLAPS

(***************************************************************************)
(* The parts                                                               *)
(***************************************************************************)

LEMMA PartsStart == PlatformInit => Init /\ Live!LiveInit /\ Log!LedgerInit
  BY DEF PlatformInit

(* Every step is, for each part, a step of it or none.                     *)
LEMMA PartsMove ==
  [PlatformNext]_platformVars
    => [Next]_vars /\ [Live!LiveNext]_(Live!liveVars) /\ [Log!LedgerNext]_(Log!ledgerVars)
<1> SUFFICES ASSUME [PlatformNext]_platformVars
             PROVE  /\ [Next]_vars
                    /\ [Live!LiveNext]_(Live!liveVars)
                    /\ [Log!LedgerNext]_(Log!ledgerVars)
  OBVIOUS
<1>1. CASE UNCHANGED platformVars
  BY <1>1 DEF platformVars, liveVars, logVars, Live!liveVars, Live!bounds, Log!ledgerVars
<1>2. CASE OnLive(Live!LiveNext)
  BY <1>2 DEF OnLive, logVars, Log!ledgerVars
<1>3. CASE OnLog(Log!LedgerNext)
  BY <1>3 DEF OnLog, liveVars, Live!liveVars, Live!bounds
<1>4. ASSUME NEW h \in Handlers,
             \/ \E p \in People : On("users", BeginUser(h, p))
             \/ \E e \in Events : On("events", ReceiveEvent(h, e))
             \/ On("events", Fail(h))
             \/ \E part \in {"users", "events"} :
                   On(part, BeginCheckout(h) \/ Finish(h))
      PROVE  Next /\ UNCHANGED <<liveVars, logVars>>
  BY <1>4 DEF On, Next
<1>5. CASE Next /\ UNCHANGED <<liveVars, logVars>>
  BY <1>5 DEF liveVars, logVars, Live!liveVars, Live!bounds, Log!ledgerVars
<1> QED
  BY <1>1, <1>2, <1>3, <1>4, <1>5 DEF PlatformNext

HandlerState ==
    [op: {"idle", "create", "provision", "update", "insert", "apply", "checkout"},
     person: People, to: UserStatus, event: Events \cup {NoEvent},
     user: UserStatus, row: Row]

(* What the operations of a request were begun with.                       *)
RequestOK ==
    \A h \in Handlers :
        /\ handler[h].op = "update" => handler[h].to \in {"active", "inactive"}
        /\ handler[h].op \in {"insert", "apply"} => handler[h].event \in Events

AccountInv == TypeOK /\ RequestOK

-----------------------------------------------------------------------------
(* Type correctness                                                        *)

LEMMA NewTenantIsRow == NewTenant \in Row
  BY AccountsAssumption DEF NewTenant, Row, Subscription

LEMMA IdleIsState == Idle \in HandlerState /\ Idle.op = "idle"
  BY AccountsAssumption, NewTenantIsRow DEF Idle, HandlerState, UserStatus, NoEvent

LEMMA AccountInit == Init => AccountInv
<1> SUFFICES ASSUME Init PROVE AccountInv
  OBVIOUS
<1>1. user \in [People -> UserStatus] /\ user[Founder] \in {"active", "inactive"}
  BY AccountsAssumption DEF Init, UserStatus
<1>2. tenant \in Row
  BY NewTenantIsRow DEF Init
<1>3. handler \in [Handlers -> HandlerState]
  BY IdleIsState DEF Init
<1>4. granted \in Nat
  <2>1. Seats[Trial] \in Nat \ {0}
    BY AccountsAssumption
  <2> QED
    BY <2>1 DEF Init
<1>5. /\ processed \subseteq Events /\ answered \subseteq processed
      /\ applied \in Seq(Events) /\ uncounted \subseteq People
      /\ reordered \in BOOLEAN /\ failures \in 0..MaxFailures
  <2>1. MaxFailures \in Nat
    BY AccountsAssumption
  <2>2. <<>> \in Seq(Events) /\ applied = <<>>
    BY DEF Init
  <2>3. failures \in 0..MaxFailures
    BY <2>1 DEF Init
  <2> QED
    BY <2>2, <2>3 DEF Init
<1>6. TypeOK
  BY <1>1, <1>2, <1>3, <1>4, <1>5 DEF TypeOK, HandlerState
<1>7. RequestOK
  BY IdleIsState DEF Init, RequestOK
<1> QED
  BY <1>6, <1>7 DEF AccountInv

(* A request in its initial state, or one that is begun.                   *)
LEMMA RequestIsState ==
  ASSUME TypeOK, NEW op \in {"create", "provision", "update"}, NEW p \in People,
         NEW to \in UserStatus
  PROVE  /\ Request(op, p, to) \in HandlerState
         /\ Request(op, p, to).op = op /\ Request(op, p, to).to = to
         /\ Request(op, p, to).person = p
  BY IdleIsState DEF Request, HandlerState, TypeOK

(* What BeginUser and BeginCheckout remember.                              *)
LEMMA BeginUserBegins ==
  ASSUME TypeOK, NEW h \in Handlers, NEW p \in People, BeginUser(h, p)
  PROVE  \E op \in {"create", "provision", "update"}, to \in UserStatus :
            /\ Begin(h, Request(op, p, to))
            /\ op = "update" => to \in {"active", "inactive"}
            /\ op = "create" /\ to = "active" => SeatFree
<1> USE DEF UserStatus
<1>1. CASE BeginInvite(h, p)
  BY <1>1 DEF BeginInvite
<1>2. CASE BeginProvision(h, p)
  BY <1>2 DEF BeginProvision
<1>3. CASE BeginRegister(h, p)
  BY <1>3 DEF BeginRegister
<1>4. CASE BeginDeactivate(h, p)
  BY <1>4 DEF BeginDeactivate
<1>5. ASSUME NEW to \in {"active", "inactive"}, BeginScimCreate(h, p, to)
      PROVE  Begin(h, Request("create", p, to)) /\ SeatFree
  BY <1>5 DEF BeginScimCreate
<1>6. ASSUME NEW to \in {"active", "inactive"},
             BeginUpdate(h, p, to) \/ BeginScimUpdate(h, p, to)
      PROVE  Begin(h, Request("update", p, to))
  BY <1>6 DEF BeginUpdate, BeginScimUpdate
<1> QED
  BY <1>1, <1>2, <1>3, <1>4, <1>5, <1>6 DEF BeginUser

(* A step that gives a request a new state and leaves the tables alone.    *)
LEMMA HandlerMoves ==
  ASSUME AccountInv, NEW h \in Handlers, NEW new \in HandlerState,
         handler' = [handler EXCEPT ![h] = new],
         new.op = "update" => new.to \in {"active", "inactive"},
         new.op \in {"insert", "apply"} => new.event \in Events
  PROVE  /\ handler' \in [Handlers -> HandlerState]
         /\ RequestOK'
         /\ \A g \in Handlers : handler'[g] = IF g = h THEN new ELSE handler[g]
  BY DEF AccountInv, TypeOK, HandlerState, RequestOK

LEMMA HandlerIdles ==
  ASSUME AccountInv, NEW h \in Handlers, handler' = [handler EXCEPT ![h] = Idle]
  PROVE  /\ handler' \in [Handlers -> HandlerState]
         /\ RequestOK'
         /\ \A g \in Handlers : handler'[g] = IF g = h THEN Idle ELSE handler[g]
  BY IdleIsState, HandlerMoves

(* The columns a commit leaves in the tenant's row.                        *)
LEMMA WrittenIsRow ==
  ASSUME TypeOK, NEW loaded \in Row, NEW new \in Row
  PROVE  /\ Written(loaded, new) \in Row
         /\ loaded = tenant => Written(loaded, new) = new
<1>1. tenant \in Row
  BY DEF TypeOK
<1>2. DOMAIN tenant = {"plan", "status", "customer"}
  BY <1>1 DEF Row
<1> DEFINE W == [c \in {"plan", "status", "customer"} |->
                   IF new[c] # loaded[c] THEN new[c] ELSE tenant[c]]
<1>3. Written(loaded, new) = W
  BY <1>2 DEF Written
<1>4. W = [plan |-> W.plan, status |-> W.status, customer |-> W.customer]
  OBVIOUS
<1>5. /\ W.plan = IF new.plan # loaded.plan THEN new.plan ELSE tenant.plan
      /\ W.status = IF new.status # loaded.status THEN new.status ELSE tenant.status
      /\ W.customer = IF new.customer # loaded.customer THEN new.customer
                                                        ELSE tenant.customer
  OBVIOUS
<1> HIDE DEF W
<1>6. W \in Row
  BY <1>1, <1>4, <1>5 DEF Row
<1>7. loaded = tenant => W = new
  BY <1>1, <1>4, <1>5 DEF Row
<1> QED
  BY <1>3, <1>6, <1>7

LEMMA EffectIsRow ==
  ASSUME NEW row \in Row, NEW e \in Events
  PROVE  /\ Effect(row, e) \in Row
         /\ Effect(row, e).status =
              CASE Kind[e] = "deleted" -> "cancelled"
                [] Kind[e] = "failed" -> "past_due"
                [] OTHER -> "active"
<1>1. Kind[e] \in {"checkout", "updated", "deleted", "failed"} /\ PlanOf[e] \in Plans
  BY AccountsAssumption
<1> QED
  BY <1>1 DEF Effect, Row, Subscription

LEMMA AccountUser ==
  ASSUME AccountInv, NEW h \in Handlers, NEW p \in People, BeginUser(h, p)
  PROVE  AccountInv'
<1> USE DEF AccountInv
<1>1. PICK op \in {"create", "provision", "update"}, to \in UserStatus :
            /\ Begin(h, Request(op, p, to))
            /\ op = "update" => to \in {"active", "inactive"}
  BY BeginUserBegins
<1>2. handler' \in [Handlers -> HandlerState] /\ RequestOK'
  <2> DEFINE new == Request(op, p, to)
  <2>1. /\ new \in HandlerState /\ new.op = op /\ new.to = to
        /\ handler' = [handler EXCEPT ![h] = new]
    BY <1>1, RequestIsState DEF Begin
  <2> HIDE DEF new
  <2> QED
    BY <1>1, <2>1, HandlerMoves
<1> QED
  BY <1>1, <1>2 DEF Begin, TypeOK, HandlerState, history

LEMMA AccountCreate ==
  ASSUME AccountInv, NEW h \in Handlers, CommitCreate(h) \/ CommitUpdate(h)
  PROVE  AccountInv'
<1> USE DEF AccountInv
<1> DEFINE p == handler[h].person
<1>1. handler' = [handler EXCEPT ![h] = Idle]
      /\ UNCHANGED <<tenant, processed, answered, applied, granted, reordered,
                     failures>>
  BY DEF CommitCreate, CommitUpdate
<1>2. handler[h] \in HandlerState /\ p \in People /\ handler[h].to \in UserStatus
  BY DEF TypeOK, HandlerState
<1>3. user' \in [People -> UserStatus] /\ uncounted' \subseteq People
  BY <1>2 DEF CommitCreate, CommitUpdate, TypeOK
<1>4. user'[Founder] \in {"active", "inactive"}
  <2>1. CASE CommitCreate(h)
    BY <1>2, <2>1 DEF CommitCreate, TypeOK
  <2>2. CASE CommitUpdate(h)
    BY <1>2, <2>2 DEF CommitUpdate, TypeOK, RequestOK
  <2> QED
    BY <2>1, <2>2
<1> QED
  BY <1>1, <1>3, <1>4, HandlerIdles DEF TypeOK, HandlerState

LEMMA AccountReceive ==
  ASSUME AccountInv, NEW h \in Handlers, NEW e \in Events, ReceiveEvent(h, e)
  PROVE  AccountInv'
<1> USE DEF AccountInv
<1>1. /\ answered' \subseteq processed
      /\ reordered' \in BOOLEAN
      /\ UNCHANGED <<user, tenant, processed, applied, uncounted, granted, failures>>
  BY DEF ReceiveEvent, TypeOK
<1> DEFINE new == [Idle EXCEPT !.op = "insert", !.event = e]
<1>2. handler' = handler \/ handler' = [handler EXCEPT ![h] = new]
  BY DEF ReceiveEvent
<1>3. new \in HandlerState /\ new.op = "insert" /\ new.event = e
  BY IdleIsState DEF HandlerState
<1> HIDE DEF new
<1>4. handler' \in [Handlers -> HandlerState] /\ RequestOK'
  <2>1. CASE handler' = handler
    BY <2>1 DEF TypeOK, HandlerState, RequestOK
  <2>2. CASE handler' = [handler EXCEPT ![h] = new]
    BY <1>3, <2>2, HandlerMoves
  <2> QED
    BY <1>2, <2>1, <2>2
<1> QED
  BY <1>1, <1>4 DEF TypeOK, HandlerState

(* InsertEvent loads the tenant's row or finds that it is too late.        *)
LEMMA InsertMoves ==
  ASSUME AccountInv, NEW h \in Handlers, InsertEvent(h)
  PROVE  /\ handler' \in [Handlers -> HandlerState]
         /\ RequestOK'
         /\ handler[h].op = "insert" /\ ~ Pending(handler[h].event)
         /\ UNCHANGED <<user, tenant, processed, answered, history>>
         /\ \A g \in Handlers : g # h => handler'[g] = handler[g]
         /\ \/ handler'[h].op = "idle"
            \/ /\ handler[h].event \notin processed
               /\ handler'[h].op = "apply" /\ handler'[h].row = tenant
               /\ handler'[h].event = handler[h].event
<1> USE DEF AccountInv
<1>1. /\ handler[h].op = "insert" /\ ~ Pending(handler[h].event)
      /\ UNCHANGED <<user, tenant, processed, answered, history>>
  BY DEF InsertEvent
<1>2. CASE handler[h].event \in processed
  BY <1>1, <1>2, HandlerIdles, IdleIsState DEF InsertEvent
<1>3. CASE handler[h].event \notin processed
  <2> DEFINE new == [handler[h] EXCEPT !.op = "apply", !.row = tenant]
  <2>1. handler' = [handler EXCEPT ![h] = new]
    BY <1>3 DEF InsertEvent, Loaded
  <2>2. handler[h] \in HandlerState /\ tenant \in Row /\ handler[h].event \in Events
    BY <1>1 DEF TypeOK, HandlerState, RequestOK
  <2>3. /\ new \in HandlerState /\ new.op = "apply" /\ new.row = tenant
        /\ new.event = handler[h].event
    BY <2>2 DEF HandlerState
  <2> HIDE DEF new
  <2> QED
    BY <1>1, <1>3, <2>1, <2>2, <2>3, HandlerMoves
<1> QED
  BY <1>2, <1>3

LEMMA AccountInsert ==
  ASSUME AccountInv, NEW h \in Handlers, InsertEvent(h)
  PROVE  AccountInv'
  BY InsertMoves DEF AccountInv, TypeOK, HandlerState, history

(* The seats that were ever granted, after the plan may have changed.      *)
LEMMA SetTenantGrants ==
  ASSUME TypeOK, NEW row \in Row, SetTenant(row)
  PROVE  /\ tenant' = row /\ granted' \in Nat
         /\ granted' >= granted /\ granted' >= Seats[row.plan]
<1>1. Seats[row.plan] \in Nat
  BY AccountsAssumption DEF Row
<1> QED
  BY <1>1 DEF SetTenant, Larger, TypeOK

(* What the commit of an event does to the tenant and the histories.       *)
LEMMA EventCommits ==
  ASSUME AccountInv, NEW h \in Handlers, CommitEvent(h)
  PROVE  /\ handler[h].op = "apply" /\ handler[h].event \in Events
         /\ handler' = [handler EXCEPT ![h] = Idle]
         /\ processed' = processed \cup {handler[h].event}
         /\ UNCHANGED <<user, uncounted, reordered, failures>>
         /\ \/ UNCHANGED <<tenant, granted, applied>>
            \/ /\ applied' = Append(applied, handler[h].event)
               /\ tenant' \in Row
               /\ granted' \in Nat /\ granted' >= granted
               /\ granted' >= Seats[tenant'.plan]
               /\ handler[h].row = tenant =>
                     tenant' = Effect(tenant, handler[h].event)
<1> USE DEF AccountInv
<1> DEFINE e == handler[h].event
           row == handler[h].row
<1>1. /\ handler[h].op = "apply"
      /\ handler' = [handler EXCEPT ![h] = Idle]
      /\ processed' = processed \cup {e}
      /\ UNCHANGED <<user, uncounted, reordered, failures>>
  BY DEF CommitEvent
<1>2. e \in Events /\ row \in Row
  BY <1>1 DEF TypeOK, HandlerState, RequestOK
<1>3. Effect(row, e) \in Row
  BY <1>2, EffectIsRow
<1>4. /\ Written(row, Effect(row, e)) \in Row
      /\ row = tenant => Written(row, Effect(row, e)) = Effect(tenant, e)
  BY <1>2, <1>3, WrittenIsRow
<1>5. CASE Found(h)
  <2>1. SetTenant(Written(row, Effect(row, e))) /\ applied' = Append(applied, e)
    BY <1>5 DEF CommitEvent
  <2> QED
    BY <1>1, <1>2, <1>4, <2>1, SetTenantGrants
<1>6. CASE ~ Found(h)
  BY <1>1, <1>2, <1>6 DEF CommitEvent
<1> QED
  BY <1>5, <1>6

LEMMA AccountCommitEvent ==
  ASSUME AccountInv, NEW h \in Handlers, CommitEvent(h)
  PROVE  AccountInv'
<1> USE DEF AccountInv
<1>1. answered' \subseteq processed'
  BY DEF CommitEvent, TypeOK
<1>2. handler' \in [Handlers -> HandlerState] /\ RequestOK'
  BY EventCommits, HandlerIdles
<1>3. tenant' \in Row /\ granted' \in Nat /\ applied' \in Seq(Events)
  <2>1. applied \in Seq(Events) /\ tenant \in Row /\ granted \in Nat
    BY DEF TypeOK
  <2>2. \A e \in Events : Append(applied, e) \in Seq(Events)
    BY <2>1
  <2> QED
    BY <2>1, <2>2, EventCommits
<1> QED
  BY <1>1, <1>2, <1>3, EventCommits DEF TypeOK, HandlerState

LEMMA AccountBeginCheckout ==
  ASSUME AccountInv, NEW h \in Handlers, BeginCheckout(h)
  PROVE  /\ AccountInv'
         /\ UNCHANGED <<user, tenant, processed, answered, history>>
         /\ handler'[h].op = "checkout"
         /\ \A g \in Handlers : g # h => handler'[g] = handler[g]
<1> USE DEF AccountInv
<1> DEFINE new == [Idle EXCEPT !.op = "checkout", !.row = tenant]
<1>1. /\ handler' = [handler EXCEPT ![h] = new]
      /\ UNCHANGED <<user, tenant, processed, answered, history>>
  BY DEF BeginCheckout, Begin
<1>2. new \in HandlerState /\ new.op = "checkout"
  BY IdleIsState DEF HandlerState, TypeOK
<1> HIDE DEF new
<1> QED
  BY <1>1, <1>2, HandlerMoves DEF TypeOK, HandlerState, history

LEMMA CheckoutCommits ==
  ASSUME AccountInv, NEW h \in Handlers, NEW plan \in Plans, CommitCheckout(h, plan)
  PROVE  /\ tenant' \in Row
         /\ granted' \in Nat /\ granted' >= granted
         /\ granted' >= Seats[tenant'.plan]
         /\ handler' = [handler EXCEPT ![h] = Idle]
         /\ reordered' = TRUE
         /\ UNCHANGED <<user, processed, answered, applied, uncounted, failures>>
<1> USE DEF AccountInv
<1> DEFINE row == handler[h].row
           new == [row EXCEPT !.plan = plan, !.status = "active_demo"]
<1>1. row \in Row
  BY DEF TypeOK
<1>2. new \in Row
  BY <1>1 DEF Row, Subscription
<1>3. Written(row, new) \in Row
  BY <1>1, <1>2, WrittenIsRow
<1>4. /\ SetTenant(Written(row, new))
      /\ handler' = [handler EXCEPT ![h] = Idle]
      /\ reordered' = TRUE
      /\ UNCHANGED <<user, processed, answered, applied, uncounted, failures>>
  BY DEF CommitCheckout
<1> QED
  BY <1>3, <1>4, SetTenantGrants

LEMMA AccountCheckout ==
  ASSUME AccountInv, NEW h \in Handlers, NEW plan \in Plans, CommitCheckout(h, plan)
  PROVE  AccountInv'
  BY CheckoutCommits, HandlerIdles DEF AccountInv, TypeOK, HandlerState

LEMMA AccountFail ==
  ASSUME AccountInv, NEW h \in Handlers, Fail(h)
  PROVE  AccountInv'
<1>1. failures' \in 0..MaxFailures
  BY AccountsAssumption DEF AccountInv, TypeOK, Fail
<1> QED
  BY <1>1, HandlerIdles DEF AccountInv, TypeOK, HandlerState, Fail

LEMMA AccountNext == AccountInv /\ [Next]_vars => AccountInv'
<1>1. AccountInv /\ UNCHANGED vars => AccountInv'
  BY DEF AccountInv, TypeOK, RequestOK, vars, history
<1> QED
  BY <1>1, AccountUser, AccountCreate, AccountReceive, AccountInsert,
     AccountCommitEvent, AccountBeginCheckout, AccountCheckout, AccountFail
     DEF Next, Finish

-----------------------------------------------------------------------------
(* Seats                                                                   *)

(* The plan in force is within what was ever granted.                      *)
SeatInv == granted >= Seats[tenant.plan] /\ SeatsBounded

LEMMA PeopleCounted ==
  ASSUME NEW S \in SUBSET People
  PROVE  IsFiniteSet(S) /\ Cardinality(S) \in Nat
  BY AccountsAssumption, FS_Subset, FS_CardinalityType

LEMMA HandlersCounted ==
  ASSUME NEW S \in SUBSET Handlers
  PROVE  /\ IsFiniteSet(S) /\ Cardinality(S) \in Nat /\ Cardinality(Handlers) \in Nat
         /\ Cardinality(S) <= Cardinality(Handlers)
  BY AccountsAssumption, FS_Subset, FS_CardinalityType

LEMMA SeatInit == Init => SeatInv
<1> SUFFICES ASSUME Init PROVE SeatInv
  OBVIOUS
<1>1. Seats[Trial] \in Nat /\ Seats[Trial] >= 1
  BY AccountsAssumption
<1>2. granted = Seats[Trial] /\ tenant.plan = Trial
  BY DEF Init, NewTenant
<1>3. Active \ uncounted = {Founder} /\ Taking = {}
  BY AccountsAssumption, IdleIsState DEF Init, Active, Taking
<1>4. Cardinality({Founder}) = 1 /\ Cardinality({}) = 0
  BY FS_Singleton, FS_EmptySet
<1>5. Cardinality(Handlers) \in Nat /\ Cardinality(Handlers) >= 1
  BY AccountsAssumption, FS_CardinalityType, FS_EmptySet
<1> QED
  BY <1>1, <1>2, <1>3, <1>4, <1>5 DEF SeatInv, SeatsBounded

(* A step after which no more users sit counted and no more requests may   *)
(* take a seat than before.                                                *)
LEMMA SeatsStay ==
  ASSUME AccountInv, AccountInv', SeatInv, granted' >= granted,
         (Active \ uncounted)' \subseteq Active \ uncounted,
         Taking' \subseteq Taking
  PROVE  SeatsBounded'
<1> DEFINE A == Active \ uncounted
<1>1. A \in SUBSET People /\ Taking \in SUBSET Handlers
  BY DEF Active, Taking
<1>2. /\ Cardinality(A') <= Cardinality(A) /\ Cardinality(A') \in Nat
      /\ Cardinality(Taking') <= Cardinality(Taking)
      /\ Cardinality(Taking') \in Nat
  BY <1>1, PeopleCounted, HandlersCounted, FS_Subset, FS_CardinalityType
<1>3. /\ Cardinality(A) \in Nat /\ Cardinality(Taking) \in Nat
      /\ Cardinality(Handlers) \in Nat
  BY <1>1, PeopleCounted, HandlersCounted
<1>4. granted \in Nat /\ granted' \in Nat
  BY DEF AccountInv, TypeOK
<1>5. Cardinality(A) + Cardinality(Taking) <= granted + Cardinality(Handlers) - 1
  BY DEF SeatInv, SeatsBounded
<1>6. Cardinality(A') + Cardinality(Taking') <= granted' + Cardinality(Handlers) - 1
  BY <1>2, <1>3, <1>4, <1>5
<1> QED
  BY <1>6 DEF SeatsBounded

(* A creation takes its request out of Taking when it takes the seat.      *)
LEMMA SeatTaken ==
  ASSUME AccountInv, AccountInv', SeatInv, granted' = granted,
         NEW h \in Taking, NEW p \in People,
         (Active \ uncounted)' \subseteq (Active \ uncounted) \cup {p},
         Taking' \subseteq Taking \ {h}
  PROVE  SeatsBounded'
<1> DEFINE A == Active \ uncounted
<1>1. A \in SUBSET People /\ Taking \in SUBSET Handlers
  BY DEF Active, Taking
<1>2. /\ IsFiniteSet(A \cup {p}) /\ Cardinality(A \cup {p}) \in Nat
      /\ Cardinality(A \cup {p}) <= Cardinality(A) + 1
  BY <1>1, PeopleCounted, FS_AddElement
<1>3. /\ IsFiniteSet(Taking \ {h})
      /\ Cardinality(Taking \ {h}) = Cardinality(Taking) - 1
  BY <1>1, HandlersCounted, FS_RemoveElement
<1>4. /\ Cardinality(A') <= Cardinality(A \cup {p})
      /\ Cardinality(Taking') <= Cardinality(Taking \ {h})
      /\ Cardinality(A') \in Nat /\ Cardinality(Taking') \in Nat
  BY <1>2, <1>3, FS_Subset, FS_CardinalityType
<1>5. /\ Cardinality(A) \in Nat /\ Cardinality(Taking) \in Nat
      /\ Cardinality(Handlers) \in Nat /\ granted \in Nat
  BY <1>1, PeopleCounted, HandlersCounted DEF AccountInv, TypeOK
<1>6. Cardinality(A) + Cardinality(Taking) <= granted + Cardinality(Handlers) - 1
  BY DEF SeatInv, SeatsBounded
<1>7. Cardinality(A') + Cardinality(Taking') <= granted' + Cardinality(Handlers) - 1
  BY <1>2, <1>3, <1>4, <1>5, <1>6
<1> QED
  BY <1>7 DEF SeatsBounded

(* A request that found a seat free: all the others may have too.          *)
LEMMA SeatAsked ==
  ASSUME AccountInv, AccountInv', SeatInv, SeatFree,
         UNCHANGED <<user, uncounted, granted>>
  PROVE  SeatsBounded'
<1> DEFINE A == Active \ uncounted
<1>1. A' = A
  BY DEF Active
<1>2. A \in SUBSET Active /\ Active \in SUBSET People /\ Taking' \in SUBSET Handlers
  BY DEF Active, Taking
<1>3. /\ Cardinality(A) <= Cardinality(Active) /\ Cardinality(A) \in Nat
      /\ Cardinality(Active) \in Nat
      /\ Cardinality(Taking') <= Cardinality(Handlers)
      /\ Cardinality(Taking') \in Nat /\ Cardinality(Handlers) \in Nat
  BY <1>2, PeopleCounted, HandlersCounted, FS_Subset
<1>4. /\ Cardinality(Active) < Seats[tenant.plan] /\ Seats[tenant.plan] <= granted
      /\ Seats[tenant.plan] \in Nat /\ granted \in Nat /\ granted' = granted
  BY AccountsAssumption DEF SeatFree, SeatInv, AccountInv, TypeOK, Row
<1>5. Cardinality(A) + Cardinality(Taking') <= granted + Cardinality(Handlers) - 1
  BY <1>3, <1>4
<1>6. Cardinality(A') + Cardinality(Taking') <= granted' + Cardinality(Handlers) - 1
  BY <1>1, <1>4, <1>5
<1> QED
  BY <1>6 DEF SeatsBounded

(* A request that is done, or begins something else, takes no seat.        *)
LEMMA TakingShrinks ==
  ASSUME NEW h \in Handlers,
         \A g \in Handlers : g # h => handler'[g] = handler[g],
         handler'[h].op # "create" \/ handler'[h].to # "active"
  PROVE  Taking' \subseteq Taking \ {h}
  BY DEF Taking

LEMMA SeatUser ==
  ASSUME AccountInv, AccountInv', SeatInv,
         NEW h \in Handlers, NEW p \in People, BeginUser(h, p)
  PROVE  SeatInv'
<1>1. PICK op \in {"create", "provision", "update"}, to \in UserStatus :
            /\ Begin(h, Request(op, p, to))
            /\ op = "create" /\ to = "active" => SeatFree
  BY BeginUserBegins DEF AccountInv
<1>2. UNCHANGED <<user, tenant, uncounted, granted>>
  BY <1>1 DEF Begin, history
<1> DEFINE new == Request(op, p, to)
<1>3. new.op = op /\ new.to = to /\ handler' = [handler EXCEPT ![h] = new]
  BY <1>1, RequestIsState DEF AccountInv, Begin
<1> HIDE DEF new
<1>4. handler'[h] = new /\ \A g \in Handlers : g # h => handler'[g] = handler[g]
  BY <1>3 DEF AccountInv, TypeOK
<1>5. CASE op = "create" /\ to = "active"
  BY <1>1, <1>2, <1>5, SeatAsked DEF SeatInv
<1>6. CASE ~ (op = "create" /\ to = "active")
  <2>1. Taking' \subseteq Taking
    BY <1>3, <1>4, <1>6, TakingShrinks
  <2>2. (Active \ uncounted)' = Active \ uncounted
    BY <1>2 DEF Active
  <2>3. granted' >= granted
    BY <1>2 DEF AccountInv, TypeOK
  <2> QED
    BY <1>2, <2>1, <2>2, <2>3, SeatsStay DEF SeatInv
<1> QED
  BY <1>5, <1>6

LEMMA SeatCommit ==
  ASSUME AccountInv, AccountInv', SeatInv, NEW h \in Handlers,
         CommitCreate(h) \/ CommitUpdate(h)
  PROVE  SeatInv'
<1> DEFINE p == handler[h].person
<1>1. /\ handler' = [handler EXCEPT ![h] = Idle]
      /\ UNCHANGED <<tenant, granted>>
  BY DEF CommitCreate, CommitUpdate
<1>2. Taking' \subseteq Taking \ {h}
  BY <1>1, HandlerIdles, IdleIsState, TakingShrinks
<1>3. p \in People /\ granted' >= granted
  BY <1>1 DEF AccountInv, TypeOK
<1>4. /\ handler[h].op \in {"create", "provision", "update"}
      /\ user' = user \/ user' = [user EXCEPT ![p] = handler[h].to]
      /\ uncounted \subseteq uncounted'
      /\ \/ user' = user
         \/ handler[h].op = "create" \/ handler[h].to # "active" \/ p \in uncounted'
  BY DEF CommitCreate, CommitUpdate
<1>5. CASE handler[h].op = "create" /\ handler[h].to = "active"
  <2>1. h \in Taking
    BY <1>5 DEF Taking
  <2>2. (Active \ uncounted)' \subseteq (Active \ uncounted) \cup {p}
    BY <1>4 DEF Active, AccountInv, TypeOK
  <2> QED
    BY <1>1, <1>2, <1>3, <2>1, <2>2, SeatTaken DEF SeatInv
<1>6. CASE ~ (handler[h].op = "create" /\ handler[h].to = "active")
  <2>1. (Active \ uncounted)' \subseteq Active \ uncounted
    BY <1>4, <1>6 DEF Active, AccountInv, TypeOK
  <2> QED
    BY <1>1, <1>2, <1>3, <2>1, SeatsStay DEF SeatInv
<1> QED
  BY <1>5, <1>6

LEMMA SeatNext == AccountInv /\ SeatInv /\ [Next]_vars => SeatInv'
<1> SUFFICES ASSUME AccountInv, SeatInv, [Next]_vars PROVE SeatInv'
  OBVIOUS
<1>1. AccountInv'
  BY AccountNext
<1>2. granted \in Nat
  BY DEF AccountInv, TypeOK
<1>3. ASSUME UNCHANGED <<user, uncounted>>, granted' >= granted,
             granted' >= Seats[tenant'.plan], Taking' \subseteq Taking
      PROVE  SeatInv'
  <2>1. (Active \ uncounted)' = Active \ uncounted
    BY <1>3 DEF Active
  <2> QED
    BY <1>1, <1>3, <2>1, SeatsStay DEF SeatInv
<1>4. ASSUME UNCHANGED <<user, uncounted, granted, tenant>>, Taking' \subseteq Taking
      PROVE  SeatInv'
  BY <1>2, <1>3, <1>4 DEF SeatInv
<1>5. ASSUME NEW h \in Handlers, handler' = [handler EXCEPT ![h] = Idle]
      PROVE  Taking' \subseteq Taking
  BY <1>5, HandlerIdles, IdleIsState, TakingShrinks
<1>6. ASSUME NEW h \in Handlers, NEW e \in Events, ReceiveEvent(h, e)
      PROVE  SeatInv'
  <2>1. UNCHANGED <<user, uncounted, granted, tenant>>
    BY <1>6 DEF ReceiveEvent
  <2>2. Taking' \subseteq Taking
    <3>1. [Idle EXCEPT !.op = "insert", !.event = e].op = "insert"
      BY IdleIsState DEF HandlerState
    <3>2. \/ handler' = handler
          \/ /\ \A g \in Handlers : g # h => handler'[g] = handler[g]
             /\ handler'[h].op = "insert"
      BY <1>6, <3>1 DEF ReceiveEvent, AccountInv, TypeOK
    <3>3. handler' = handler => Taking' = Taking
      BY DEF Taking
    <3> QED
      BY <3>2, <3>3, TakingShrinks
  <2> QED
    BY <1>4, <2>1, <2>2
<1>7. ASSUME NEW h \in Handlers, InsertEvent(h) PROVE SeatInv'
  <2>1. Taking' \subseteq Taking
    BY <1>7, InsertMoves, TakingShrinks
  <2> QED
    BY <1>4, <1>7, <2>1, InsertMoves DEF history
<1>8. ASSUME NEW h \in Handlers, CommitEvent(h) PROVE SeatInv'
  BY <1>2, <1>3, <1>4, <1>5, <1>8, EventCommits
<1>9. ASSUME NEW h \in Handlers, BeginCheckout(h) PROVE SeatInv'
  <2>1. Taking' \subseteq Taking
    BY <1>9, AccountBeginCheckout, TakingShrinks
  <2> QED
    BY <1>4, <1>9, <2>1, AccountBeginCheckout DEF history
<1>10. ASSUME NEW h \in Handlers, NEW plan \in Plans, CommitCheckout(h, plan)
       PROVE  SeatInv'
  BY <1>3, <1>5, <1>10, CheckoutCommits
<1>11. ASSUME NEW h \in Handlers, Fail(h) PROVE SeatInv'
  BY <1>4, <1>5, <1>11 DEF Fail
<1>12. CASE UNCHANGED vars
  BY <1>4, <1>12 DEF vars, history, Taking
<1> QED
  BY <1>1, <1>6, <1>7, <1>8, <1>9, <1>10, <1>11, <1>12, SeatUser, SeatCommit
     DEF Next, Finish

(* enforce_seat_limit counts before it inserts.  However many requests     *)
(* overlap, the users that were counted exceed the largest number of seats *)
(* ever granted by less than the number of concurrent requests.            *)
THEOREM SeatsAreBounded == PlatformSpec => []SeatsBounded
<1>1. SeatInv => SeatsBounded
  BY DEF SeatInv
<1> QED
  BY <1>1, AccountInit, AccountNext, SeatInit, SeatNext, PartsStart, PartsMove, PTL
     DEF PlatformSpec

-----------------------------------------------------------------------------
(* Events of the payment provider                                          *)

(* An event is in the hands of one request at a time until it is processed,*)
(* and only a processed one has changed the tenant.                        *)
AppliedInv ==
    /\ \A i \in DOMAIN applied : applied[i] \in processed
    /\ \A h \in Handlers : handler[h].op = "apply" =>
          /\ handler[h].event \notin processed
          /\ \A g \in Handlers :
                g # h /\ handler[g].op = "apply"
                    => handler[g].event # handler[h].event
    /\ AppliedOnce

LEMMA AppliedInit == Init => AppliedInv
<1> SUFFICES ASSUME Init PROVE AppliedInv
  OBVIOUS
<1>1. DOMAIN applied = {}
  BY DEF Init
<1>2. \A h \in Handlers : handler[h].op = "idle"
  BY IdleIsState DEF Init
<1> QED
  BY <1>1, <1>2 DEF AppliedInv, AppliedOnce

(* A step in which no request begins to apply an event, and none commits.  *)
LEMMA AppliedStays ==
  ASSUME AppliedInv, UNCHANGED <<processed, applied>>,
         \A h \in Handlers : handler'[h] = handler[h] \/ handler'[h].op # "apply"
  PROVE  AppliedInv'
  BY DEF AppliedInv, AppliedOnce

LEMMA AppliedCommit ==
  ASSUME AccountInv, AppliedInv, NEW h \in Handlers, CommitEvent(h)
  PROVE  AppliedInv'
<1> DEFINE e == handler[h].event
<1>1. /\ handler[h].op = "apply" /\ e \in Events
      /\ processed' = processed \cup {e}
      /\ applied' = applied \/ applied' = Append(applied, e)
  BY EventCommits
<1>2. /\ \A g \in Handlers : g # h => handler'[g] = handler[g]
      /\ handler'[h].op # "apply"
  BY EventCommits, HandlerIdles, IdleIsState
<1>3. e \notin processed
  BY <1>1 DEF AppliedInv
<1>4. applied \in Seq(Events) /\ \A i \in DOMAIN applied : applied[i] \in processed
  BY DEF AccountInv, TypeOK, AppliedInv
<1>5. CASE applied' = applied
  BY <1>1, <1>2, <1>5 DEF AppliedInv, AppliedOnce
<1>6. CASE applied' = Append(applied, e)
  <2>1. /\ DOMAIN applied' = 1..(Len(applied) + 1) /\ Len(applied) \in Nat
        /\ DOMAIN applied = 1..Len(applied)
        /\ \A i \in 1..Len(applied) : applied'[i] = applied[i]
        /\ applied'[Len(applied) + 1] = e
    BY <1>1, <1>4, <1>6
  <2>2. \A i \in DOMAIN applied' :
          \/ i \in DOMAIN applied /\ applied'[i] = applied[i]
          \/ i = Len(applied) + 1 /\ applied'[i] = e
    BY <2>1
  <2>3. AppliedOnce'
    BY <1>3, <1>4, <2>2 DEF AppliedInv, AppliedOnce
  <2>4. \A i \in DOMAIN applied' : applied'[i] \in processed'
    BY <1>1, <1>4, <2>2
  <2> QED
    BY <1>1, <1>2, <2>3, <2>4 DEF AppliedInv
<1> QED
  BY <1>1, <1>5, <1>6

LEMMA AppliedInsert ==
  ASSUME AccountInv, AppliedInv, NEW h \in Handlers, InsertEvent(h)
  PROVE  AppliedInv'
<1>1. UNCHANGED <<processed, applied>>
  BY InsertMoves DEF history
<1>2. /\ \A g \in Handlers : g # h => handler'[g] = handler[g]
      /\ \A g \in Handlers :
            handler[g].op = "apply" => handler[g].event # handler[h].event
      /\ \/ handler'[h].op = "idle"
         \/ handler[h].event \notin processed /\ handler'[h].event = handler[h].event
  BY InsertMoves DEF Pending
<1> QED
  BY <1>1, <1>2 DEF AppliedInv, AppliedOnce

(* What the other steps leave alone.                                       *)
LEMMA NoEventStep ==
  ASSUME AccountInv, [Next]_vars,
         ~ \E h \in Handlers : InsertEvent(h) \/ CommitEvent(h)
  PROVE  /\ UNCHANGED <<processed, applied>>
         /\ \A h \in Handlers : \/ handler'[h] = handler[h]
                                \/ handler'[h].op # "apply"
         /\ reordered' = TRUE \/ UNCHANGED <<reordered, tenant>>
<1> DEFINE Claim ==
       /\ UNCHANGED <<processed, applied>>
       /\ \A h \in Handlers : handler'[h] = handler[h] \/ handler'[h].op # "apply"
       /\ reordered' = TRUE \/ UNCHANGED <<reordered, tenant>>
<1>1. ASSUME NEW h \in Handlers, handler' = [handler EXCEPT ![h] = Idle]
      PROVE  \A g \in Handlers : handler'[g] = handler[g] \/ handler'[g].op # "apply"
  BY <1>1, HandlerIdles, IdleIsState
<1>2. ASSUME NEW h \in Handlers, NEW p \in People, BeginUser(h, p) PROVE Claim
  <2>1. PICK op \in {"create", "provision", "update"}, to \in UserStatus :
               Begin(h, Request(op, p, to))
    BY <1>2, BeginUserBegins DEF AccountInv
  <2>2. Request(op, p, to).op # "apply"
    BY RequestIsState DEF AccountInv
  <2> QED
    BY <2>1, <2>2 DEF Begin, history, AccountInv, TypeOK
<1>3. ASSUME NEW h \in Handlers, CommitCreate(h) \/ CommitUpdate(h) PROVE Claim
  BY <1>1, <1>3 DEF CommitCreate, CommitUpdate
<1>4. ASSUME NEW h \in Handlers, NEW e \in Events, ReceiveEvent(h, e) PROVE Claim
  <2>1. [Idle EXCEPT !.op = "insert", !.event = e].op = "insert"
    BY IdleIsState DEF HandlerState
  <2>2. reordered' = TRUE \/ reordered' = reordered
    BY <1>4 DEF ReceiveEvent, AccountInv, TypeOK
  <2> QED
    BY <1>4, <2>1, <2>2 DEF ReceiveEvent, AccountInv, TypeOK
<1>5. ASSUME NEW h \in Handlers, BeginCheckout(h) PROVE Claim
  BY <1>5, AccountBeginCheckout DEF history
<1>6. ASSUME NEW h \in Handlers, NEW plan \in Plans, CommitCheckout(h, plan)
      PROVE  Claim
  BY <1>1, <1>6, CheckoutCommits
<1>7. ASSUME NEW h \in Handlers, Fail(h) PROVE Claim
  BY <1>1, <1>7 DEF Fail
<1>8. CASE UNCHANGED vars
  BY <1>8 DEF vars, history
<1> HIDE DEF Claim
<1>9. Claim
  BY <1>2, <1>3, <1>4, <1>5, <1>6, <1>7, <1>8 DEF Next, Finish, Claim
<1> QED
  BY <1>9 DEF Claim

LEMMA AppliedNext == AccountInv /\ AppliedInv /\ [Next]_vars => AppliedInv'
  BY NoEventStep, AppliedStays, AppliedInsert, AppliedCommit

(* As long as every event came in order and alone, one request at most     *)
(* works on an event, and with the tenant's present row.                   *)
OrderInv ==
    /\ ~ reordered =>
          /\ \A g, h \in Handlers :
                /\ handler[g].op \in {"insert", "apply"}
                /\ handler[h].op \in {"insert", "apply"}
                => g = h
          /\ \A h \in Handlers : handler[h].op = "apply" => handler[h].row = tenant
    /\ InOrderStatus

LEMMA OrderInit == Init => OrderInv
<1> SUFFICES ASSUME Init PROVE OrderInv
  OBVIOUS
<1>1. \A h \in Handlers : handler[h].op = "idle"
  BY IdleIsState DEF Init
<1>2. applied = <<>>
  BY DEF Init
<1> QED
  BY <1>1, <1>2 DEF OrderInv, InOrderStatus

LEMMA OrderReceive ==
  ASSUME AccountInv, OrderInv, NEW h \in Handlers, NEW e \in Events,
         ReceiveEvent(h, e)
  PROVE  OrderInv'
<1>1. /\ UNCHANGED <<tenant, applied>>
      /\ ~ reordered' => /\ ~ reordered
                         /\ \A g \in Handlers :
                               handler[g].op \notin {"insert", "apply"}
  BY DEF ReceiveEvent
<1>2. [Idle EXCEPT !.op = "insert", !.event = e].op = "insert"
  BY IdleIsState DEF HandlerState
<1>3. /\ \A g \in Handlers : g # h => handler'[g] = handler[g]
      /\ handler'[h] = handler[h] \/ handler'[h].op = "insert"
  BY <1>2 DEF ReceiveEvent, AccountInv, TypeOK
<1> QED
  BY <1>1, <1>3 DEF OrderInv, InOrderStatus

LEMMA OrderInsert ==
  ASSUME AccountInv, OrderInv, NEW h \in Handlers, InsertEvent(h)
  PROVE  OrderInv'
<1>1. /\ UNCHANGED <<tenant, applied, reordered>>
      /\ handler[h].op = "insert"
      /\ \A g \in Handlers : g # h => handler'[g] = handler[g]
      /\ handler'[h].op = "idle" \/ handler'[h].row = tenant
  BY InsertMoves DEF history
<1> QED
  BY <1>1 DEF OrderInv, InOrderStatus

LEMMA OrderCommit ==
  ASSUME AccountInv, OrderInv, NEW h \in Handlers, CommitEvent(h)
  PROVE  OrderInv'
<1> DEFINE e == handler[h].event
<1>1. /\ handler[h].op = "apply" /\ e \in Events /\ reordered' = reordered
      /\ \A g \in Handlers : g # h => handler'[g] = handler[g]
      /\ handler'[h].op = "idle"
  BY EventCommits, HandlerIdles, IdleIsState
<1>2. ~ reordered => \A g \in Handlers : handler'[g].op \notin {"insert", "apply"}
  BY <1>1 DEF OrderInv
<1>3. InOrderStatus'
  <2>1. CASE UNCHANGED <<tenant, applied>>
    BY <1>1, <2>1 DEF OrderInv, InOrderStatus
  <2>2. CASE applied' = Append(applied, e)
    <3> SUFFICES ASSUME ~ reordered
                 PROVE  tenant'.status =
                          CASE Kind[applied'[Len(applied')]] = "deleted" -> "cancelled"
                            [] Kind[applied'[Len(applied')]] = "failed" -> "past_due"
                            [] OTHER -> "active"
      BY <1>1 DEF InOrderStatus
    <3>1. applied'[Len(applied')] = e
      BY <1>1, <2>2 DEF AccountInv, TypeOK
    <3>2. tenant \in Row /\ handler[h].row = tenant
      BY <1>1 DEF AccountInv, TypeOK, OrderInv
    <3>3. UNCHANGED <<tenant, granted, applied>> \/ tenant' = Effect(tenant, e)
      BY <3>2, EventCommits
    <3>4. applied' # applied
      BY <1>1, <2>2 DEF AccountInv, TypeOK
    <3> QED
      BY <1>1, <3>1, <3>2, <3>3, <3>4, EffectIsRow
  <2> QED
    BY <2>1, <2>2, EventCommits
<1> QED
  BY <1>1, <1>2, <1>3 DEF OrderInv

LEMMA OrderNext == AccountInv /\ OrderInv /\ [Next]_vars => OrderInv'
<1> SUFFICES ASSUME AccountInv, OrderInv, [Next]_vars PROVE OrderInv'
  OBVIOUS
<1>1. CASE \E h \in Handlers, e \in Events : ReceiveEvent(h, e)
  BY <1>1, OrderReceive
<1>2. CASE \E h \in Handlers : InsertEvent(h) \/ CommitEvent(h)
  BY <1>2, OrderInsert, OrderCommit
<1>3. CASE /\ ~ \E h \in Handlers, e \in Events : ReceiveEvent(h, e)
           /\ ~ \E h \in Handlers : InsertEvent(h) \/ CommitEvent(h)
  <2>1. /\ applied' = applied
        /\ \A h \in Handlers : \/ handler'[h] = handler[h]
                               \/ handler'[h].op # "apply"
        /\ reordered' = TRUE \/ UNCHANGED <<reordered, tenant>>
    BY <1>3, NoEventStep
  <2>2. \A h \in Handlers : handler'[h] = handler[h] \/ handler'[h].op # "insert"
    <3>1. ASSUME NEW h \in Handlers, handler' = [handler EXCEPT ![h] = Idle]
          PROVE  \A g \in Handlers : \/ handler'[g] = handler[g]
                                     \/ handler'[g].op # "insert"
      BY <3>1, HandlerIdles, IdleIsState
    <3>2. ASSUME NEW h \in Handlers, NEW p \in People, BeginUser(h, p)
          PROVE  \A g \in Handlers : \/ handler'[g] = handler[g]
                                     \/ handler'[g].op # "insert"
      <4>1. PICK op \in {"create", "provision", "update"}, to \in UserStatus :
                   Begin(h, Request(op, p, to))
        BY <3>2, BeginUserBegins DEF AccountInv
      <4>2. Request(op, p, to).op # "insert"
        BY RequestIsState DEF AccountInv
      <4> QED
        BY <4>1, <4>2 DEF Begin, AccountInv, TypeOK
    <3>3. ASSUME NEW h \in Handlers, Finish(h) \/ Fail(h)
          PROVE  handler' = [handler EXCEPT ![h] = Idle]
      BY <1>3, <3>3 DEF Finish, Fail, CommitCreate, CommitUpdate, CommitCheckout
    <3>4. ASSUME NEW h \in Handlers, BeginCheckout(h)
          PROVE  \A g \in Handlers : \/ handler'[g] = handler[g]
                                     \/ handler'[g].op # "insert"
      BY <3>4, AccountBeginCheckout
    <3>5. CASE UNCHANGED vars
      BY <3>5 DEF vars
    <3> QED
      BY <1>3, <3>1, <3>2, <3>3, <3>4, <3>5 DEF Next
  <2> QED
    BY <2>1, <2>2 DEF OrderInv, InOrderStatus
<1> QED
  BY <1>1, <1>2, <1>3

(* stripe_webhook: the unique event_id lets every event change the tenant  *)
(* once, however many of its deliveries overlap, fail or are repeated; and *)
(* events that come one at a time in order leave what the last one says.   *)
THEOREM EventsTakeEffectOnce == PlatformSpec => []EventsTakeEffect
<1>1. AppliedInv /\ OrderInv => EventsTakeEffect
  BY DEF AppliedInv, OrderInv, EventsTakeEffect
<1> QED
  BY <1>1, AccountInit, AccountNext, AppliedInit, AppliedNext, OrderInit,
     OrderNext, PartsStart, PartsMove, PTL DEF PlatformSpec

-----------------------------------------------------------------------------
(* Live results                                                            *)

Jobs == Live!Jobs
JobStates ==
    [phase: {"idle", "discover", "settings", "rows", "query", "publish", "alerted",
             "broadcast", "dead", "rows written", "select", "store"},
     loaded: Live!Sources, stamp: 0..MaxUploads, result: Live!Payloads,
     to: SUBSET Sockets]

(* A run queries a SIEM only, and an upload that writes rows is stamped.   *)
Sound(state) ==
    /\ state.phase = "query" => state.loaded \in SiemTypes
    /\ state.phase = "rows written" => state.stamp \in 1..MaxUploads

LiveInv ==
    /\ Live!LiveTypeOK
    /\ stamped \in 0..MaxUploads
    /\ \A j \in Jobs : Sound(job[j])

(* What a scheduled run has published is on its way to every open socket   *)
(* that has not got it.                                                    *)
FeedInv ==
    byRun => \A s \in Live!Open :
        \/ socket[s].seen = shown
        \/ \E j \in Live!Runs : \/ job[j].phase = "alerted"
                                \/ job[j].phase = "broadcast" /\ s \in job[j].to

LEMMA PayloadsAre ==
  /\ Live!Error \in Live!Payloads
  /\ \A n \in 0..MaxUploads : Live!Csv(n) \in Live!Payloads
  /\ \A s \in SiemTypes : Live!Siem(s) \in Live!Payloads
<1>1. MaxUploads \in Nat
  BY PlatformAssumption
<1> QED
  BY <1>1 DEF Live!Payloads, Live!Error, Live!Csv, Live!Siem

LEMMA JobsAre ==
  /\ Live!Waiting \in JobStates /\ Live!Waiting.phase = "idle" /\ Sound(Live!Waiting)
  /\ \A phase \in {"idle", "discover", "settings", "rows", "query", "publish",
                   "alerted", "broadcast", "dead", "select", "store"} :
        /\ Live!At(phase) \in JobStates /\ Live!At(phase).phase = phase
        /\ phase # "query" => Sound(Live!At(phase))
<1>1. MaxUploads \in Nat
  BY PlatformAssumption
<1>2. Live!Waiting \in JobStates /\ Live!Waiting.phase = "idle"
  BY <1>1, PayloadsAre DEF JobStates, Live!Waiting, Live!Sources
<1>3. ASSUME NEW phase \in {"idle", "discover", "settings", "rows", "query", "publish",
                            "alerted", "broadcast", "dead", "select", "store"}
      PROVE  Live!At(phase) \in JobStates /\ Live!At(phase).phase = phase
  BY <1>2, <1>3 DEF JobStates, Live!At
<1> QED
  BY <1>2, <1>3 DEF Sound

(* A set of time stamps has a largest one.                                 *)
LEMMA NewestIs ==
  ASSUME NEW S, S \subseteq 1..MaxUploads, S # {}
  PROVE  Live!Max(S) \in S
<1>1. MaxUploads \in Nat
  BY PlatformAssumption
<1> DEFINE Above == {n \in Nat : \A x \in S : x <= n}
<1>2. MaxUploads \in Above
  BY <1>1
<1>3. PICK least \in Above : \A n \in Above : ~ (<<n, least>> \in OpToRel(<, Nat))
  <2> HIDE DEF Above
  <2>1. Above \subseteq Nat /\ Above # {}
    BY <1>2 DEF Above
  <2> QED
    BY <2>1, NatLessThanWellFounded, WFMin
<1>4. \A n \in Above : ~ (n < least)
  BY <1>3 DEF OpToRel
<1>5. PICK x \in S : TRUE
  OBVIOUS
<1>6. least \in S
  <2> SUFFICES ASSUME least \notin S PROVE FALSE
    OBVIOUS
  <2>1. least \in Nat /\ x <= least /\ x \in Nat /\ x >= 1 /\ x # least
    BY <1>1
  <2>2. least - 1 \in Above
    BY <1>1, <2>1
  <2> QED
    BY <1>4, <2>1, <2>2
<1>7. \A y \in S : least >= y
  BY <1>1
<1> QED
  BY <1>6, <1>7 DEF Live!Max

(* A step that gives one job a well-typed state and leaves the rest alone. *)
LEMMA JobMoves ==
  ASSUME LiveInv, NEW j \in Jobs, NEW new \in JobStates, Live!Step(j, new),
         Sound(new)
  PROVE  /\ job' \in [Jobs -> JobStates]
         /\ \A i \in Jobs : Sound(job'[i])
<1>1. job \in [Jobs -> JobStates] /\ job' = [job EXCEPT ![j] = new]
  BY DEF LiveInv, Live!LiveTypeOK, JobStates, Jobs, Live!Step
<1> QED
  BY <1>1 DEF LiveInv

LEMMA LiveInitially == Live!LiveInit => LiveInv /\ FeedInv
<1> SUFFICES ASSUME Live!LiveInit PROVE LiveInv /\ FeedInv
  OBVIOUS
<1>1. MaxUploads \in Nat
  BY PlatformAssumption
<1>2. \A j \in Jobs : Live!Started(j) \in JobStates /\ Sound(Live!Started(j))
  BY JobsAre DEF Live!Started
<1>3. job \in [Jobs -> JobStates] /\ \A j \in Jobs : Sound(job[j])
  BY <1>2 DEF Live!LiveInit, Jobs
<1>4. socket \in [Sockets -> [open: BOOLEAN, seen: Live!Payloads]]
  BY PayloadsAre DEF Live!LiveInit, Live!Closed
<1>5. source \in Live!Sources /\ shown \in Live!Payloads
  BY PayloadsAre DEF Live!LiveInit, Live!Sources
<1>6. uploads \subseteq 1..MaxUploads /\ stamped \in 0..MaxUploads
  <2>1. uploads = {} /\ stamped = 0
    BY DEF Live!LiveInit
  <2> QED
    BY <1>1, <2>1
<1>7. byRun \in BOOLEAN
  BY DEF Live!LiveInit
<1>8. LiveInv
  BY <1>3, <1>4, <1>5, <1>6, <1>7 DEF LiveInv, Live!LiveTypeOK, JobStates, Jobs
<1> QED
  BY <1>8 DEF FeedInv, Live!LiveInit

(* The steps of a run that change no more than its own state.              *)
LEMMA LiveAdvance ==
  ASSUME LiveInv, NEW j \in Jobs,
         \/ Live!Discover(j) \/ Live!ReadSettings(j) \/ Live!ReadRows(j)
         \/ Live!QuerySiem(j) \/ Live!StartBroadcast(j) \/ Live!EndRun(j)
  PROVE  \E new \in JobStates :
            /\ Live!Step(j, new) /\ Sound(new)
            /\ UNCHANGED <<source, uploads, shown, byRun, socket, stamped>>
<1> USE DEF Live!bounds
<1>1. CASE Live!Discover(j)
  <2>1. Live!Step(j, Live!At("settings")) \/ Live!Step(j, Live!At("dead"))
    BY <1>1 DEF Live!Discover
  <2> QED
    BY <1>1, <2>1, JobsAre DEF Live!Discover
<1>2. CASE Live!ReadSettings(j)
  <2> DEFINE new == [Live!At("query") EXCEPT !.loaded = source]
  <2>1. source \in Live!Sources
    BY DEF LiveInv, Live!LiveTypeOK
  <2>2. CASE source \in {"none", "CSV"}
    <3>1. Live!Step(j, Live!At("publish")) \/ Live!Step(j, Live!At("rows"))
      BY <1>2, <2>2 DEF Live!ReadSettings
    <3> QED
      BY <1>2, <3>1, JobsAre DEF Live!ReadSettings
  <2>3. CASE source \notin {"none", "CSV"}
    <3>1. Live!Step(j, new)
      BY <1>2, <2>3 DEF Live!ReadSettings
    <3>2. Live!At("query") \in JobStates
      BY JobsAre
    <3>3. source \in SiemTypes
      BY <2>1, <2>3 DEF Live!Sources
    <3>4. new.phase = "query"
      BY <3>2, JobsAre DEF JobStates
    <3>5. new \in JobStates /\ Sound(new)
      BY <2>1, <3>2, <3>3, <3>4 DEF JobStates, Sound
    <3> QED
      BY <1>2, <3>1, <3>5 DEF Live!ReadSettings
  <2> QED
    BY <2>2, <2>3
<1>3. CASE Live!ReadRows(j)
  <2> DEFINE new == [Live!At("publish") EXCEPT !.result = Live!NewestRows]
  <2>1. Live!Step(j, new)
    BY <1>3 DEF Live!ReadRows
  <2>2. Live!NewestRows \in Live!Payloads
    <3>1. uploads \subseteq 1..MaxUploads /\ MaxUploads \in Nat
      BY PlatformAssumption DEF LiveInv, Live!LiveTypeOK
    <3>2. uploads # {} => Live!Max(uploads) \in uploads
      BY <3>1, NewestIs
    <3>3. uploads \subseteq 0..MaxUploads
      BY <3>1
    <3>4. uploads # {} => Live!Max(uploads) \in 0..MaxUploads
      BY <3>2, <3>3
    <3> QED
      BY <3>4, PayloadsAre DEF Live!NewestRows
  <2>3. Live!At("publish") \in JobStates /\ Live!At("publish").phase = "publish"
    BY JobsAre
  <2>4. new \in JobStates /\ Sound(new)
    BY <2>2, <2>3 DEF JobStates, Sound
  <2> QED
    BY <1>3, <2>1, <2>4 DEF Live!ReadRows
<1>4. CASE Live!QuerySiem(j)
  <2>1. job[j].loaded \in SiemTypes
    BY <1>4 DEF Live!QuerySiem, LiveInv, Sound
  <2> DEFINE new == [Live!At("publish") EXCEPT !.result = Live!Siem(job[j].loaded)]
  <2>2. Live!At("publish") \in JobStates /\ Live!At("publish").phase = "publish"
    BY JobsAre
  <2>3. Live!Siem(job[j].loaded) \in Live!Payloads
    BY <2>1, PayloadsAre
  <2>4. new \in JobStates /\ Sound(new)
    BY <2>2, <2>3 DEF JobStates, Sound
  <2>5. Live!Step(j, new) \/ Live!Step(j, Live!At("publish"))
    BY <1>4 DEF Live!QuerySiem
  <2> QED
    BY <1>4, <2>2, <2>4, <2>5, JobsAre DEF Live!QuerySiem
<1>5. CASE Live!StartBroadcast(j)
  <2> DEFINE new == [Live!At("broadcast") EXCEPT !.to = Live!Open]
  <2>1. Live!At("broadcast") \in JobStates /\ Live!At("broadcast").phase = "broadcast"
    BY JobsAre
  <2>2. new \in JobStates /\ Sound(new)
    BY <2>1 DEF JobStates, Sound, Live!Open
  <2> QED
    BY <1>5, <2>2 DEF Live!StartBroadcast
<1>6. CASE Live!EndRun(j)
  <2>1. Live!Step(j, Live!At("dead")) \/ Live!Step(j, Live!Waiting)
    BY <1>6 DEF Live!EndRun
  <2> QED
    BY <1>6, <2>1, JobsAre DEF Live!EndRun
<1> QED
  BY <1>1, <1>2, <1>3, <1>4, <1>5, <1>6

LEMMA LiveTyped ==
  ASSUME LiveInv,
         \/ UNCHANGED job
         \/ \E j \in Jobs : \E new \in JobStates :
               Live!Step(j, new) /\ Sound(new)
  PROVE  /\ job' \in [Jobs -> JobStates]
         /\ \A i \in Jobs : Sound(job'[i])
<1>1. CASE UNCHANGED job
  BY <1>1 DEF LiveInv, Live!LiveTypeOK, JobStates, Jobs
<1> QED
  BY <1>1, JobMoves

LEMMA LivePublish ==
  ASSUME LiveInv, NEW j \in Jobs, Live!Publish(j) PROVE LiveInv'
<1>1. job[j] \in JobStates
  BY DEF LiveInv, Live!LiveTypeOK, JobStates, Jobs
<1>2. shown' \in Live!Payloads
  BY <1>1 DEF Live!Publish, JobStates
<1>3. byRun' \in BOOLEAN
  BY DEF Live!Publish
<1>4. Live!Step(j, Live!At("alerted")) \/ Live!Step(j, Live!Waiting)
  BY DEF Live!Publish
<1>5. /\ job' \in [Jobs -> JobStates]
      /\ \A i \in Jobs : Sound(job'[i])
  BY <1>4, JobsAre, LiveTyped
<1> QED
  BY <1>2, <1>3, <1>5
     DEF Live!Publish, LiveInv, Live!LiveTypeOK, Live!bounds, JobStates, Jobs

LEMMA LiveNextInv == LiveInv /\ [Live!LiveNext]_(Live!liveVars) => LiveInv'
<1> SUFFICES ASSUME LiveInv, [Live!LiveNext]_(Live!liveVars) PROVE LiveInv'
  OBVIOUS
<1> USE DEF Live!bounds
<1>0. MaxUploads \in Nat /\ Requests \subseteq Jobs /\ Tick \in Jobs
  BY PlatformAssumption DEF Jobs, Live!Jobs, Live!Runs
<1>1. /\ source \in Live!Sources /\ uploads \subseteq 1..MaxUploads
      /\ shown \in Live!Payloads /\ byRun \in BOOLEAN
      /\ job \in [Jobs -> JobStates] /\ stamped \in 0..MaxUploads
      /\ socket \in [Sockets -> [open: BOOLEAN, seen: Live!Payloads]]
  BY DEF LiveInv, Live!LiveTypeOK, JobStates, Jobs
<1> DEFINE Stepped == \E j \in Jobs : \E new \in JobStates :
             Live!Step(j, new) /\ Sound(new)
<1>2. ASSUME Stepped \/ UNCHANGED job,
             source' \in Live!Sources, uploads' \subseteq 1..MaxUploads,
             shown' \in Live!Payloads, byRun' \in BOOLEAN, stamped' \in 0..MaxUploads,
             socket' \in [Sockets -> [open: BOOLEAN, seen: Live!Payloads]]
      PROVE  LiveInv'
  <2>1. /\ job' \in [Jobs -> JobStates]
        /\ \A i \in Jobs : Sound(job'[i])
    BY <1>2, LiveTyped
  <2> QED
    BY <1>2, <2>1 DEF LiveInv, Live!LiveTypeOK, JobStates, Jobs
<1>3. ASSUME Stepped, UNCHANGED <<source, uploads, shown, byRun, socket, stamped>>
      PROVE  LiveInv'
  <2> HIDE DEF Stepped
  <2> QED
    BY <1>1, <1>2, <1>3
<1>4. CASE UNCHANGED Live!liveVars
  BY <1>1, <1>2, <1>4 DEF Live!liveVars
<1>5. CASE Live!WakeUp
  BY <1>0, <1>3, <1>5, JobsAre DEF Live!WakeUp
<1>6. CASE Live!RestartServer
  <2>1. \A j \in Jobs : Live!Started(j) \in JobStates /\ Sound(Live!Started(j))
    BY JobsAre DEF Live!Started
  <2>2. job' = [j \in Jobs |-> Live!Started(j)]
    BY <1>6 DEF Live!RestartServer, Jobs
  <2>3. job' \in [Jobs -> JobStates] /\ \A j \in Jobs : Sound(job'[j])
    BY <2>1, <2>2
  <2>4. socket' \in [Sockets -> [open: BOOLEAN, seen: Live!Payloads]]
    BY <1>6, PayloadsAre DEF Live!RestartServer, Live!Closed
  <2>5. shown' \in Live!Payloads /\ UNCHANGED <<source, uploads, stamped>>
    BY <1>6, PayloadsAre DEF Live!RestartServer
  <2>6. byRun' \in BOOLEAN
    BY <1>6 DEF Live!RestartServer
  <2> QED
    BY <1>1, <2>3, <2>4, <2>5, <2>6 DEF LiveInv, Live!LiveTypeOK, JobStates, Jobs
<1>7. ASSUME NEW j \in Jobs, Live!RunStep(j) PROVE LiveInv'
  <2>1. CASE Live!Publish(j)
    BY <2>1, LivePublish
  <2>2. ASSUME NEW s \in Sockets, Live!Send(j, s) PROVE LiveInv'
    <3> DEFINE new == [job[j] EXCEPT !.to = @ \ {s}]
    <3>1. job[j] \in JobStates /\ job[j].phase = "broadcast" /\ Live!Step(j, new)
      BY <1>1, <2>2 DEF Live!Send
    <3>2. new \in JobStates /\ Sound(new)
      BY <3>1 DEF JobStates, Sound
    <3>3. Stepped
      BY <3>1, <3>2
    <3>4. socket' \in [Sockets -> [open: BOOLEAN, seen: Live!Payloads]]
      BY <1>1, <2>2 DEF Live!Send
    <3>5. UNCHANGED <<source, uploads, shown, byRun, stamped>>
      BY <2>2 DEF Live!Send
    <3> HIDE DEF Stepped
    <3> QED
      BY <1>1, <1>2, <3>3, <3>4, <3>5
  <2>3. CASE ~ Live!Publish(j) /\ ~ \E s \in Sockets : Live!Send(j, s)
    BY <1>3, <1>7, <2>3, LiveAdvance DEF Live!RunStep
  <2> QED
    BY <2>1, <2>2, <2>3
<1>8. ASSUME NEW r \in Requests,
             Live!Trigger(r) \/ Live!StartUpload(r) \/ Live!UploadStep(r)
               \/ Live!FailRequest(r)
      PROVE  LiveInv'
  <2>0. r \in Jobs /\ job[r] \in JobStates
    BY <1>0, <1>1 DEF Jobs, Live!Jobs
  <2>1. CASE Live!Trigger(r)
    BY <1>3, <2>0, <2>1, JobsAre DEF Live!Trigger
  <2>2. CASE Live!FailRequest(r)
    BY <1>3, <2>0, <2>2, JobsAre DEF Live!FailRequest
  <2>3. CASE Live!StartUpload(r)
    <3> DEFINE new == [Live!At("rows written") EXCEPT !.stamp = stamped + 1]
    <3>0. stamped + 1 \in 1..MaxUploads /\ stamped' = stamped + 1
      <4>1. stamped < MaxUploads /\ stamped' = stamped + 1
        BY <2>3 DEF Live!StartUpload
      <4> QED
        BY <1>0, <4>1 DEF LiveInv
    <3>1. stamped + 1 \in 0..MaxUploads /\ stamped' \in 0..MaxUploads
      BY <1>0, <3>0
    <3>2. new \in JobStates /\ Sound(new)
      BY <3>0, <3>1, JobsAre DEF JobStates, Live!At, Sound
    <3>3. Stepped
      BY <2>0, <2>3, <3>2 DEF Live!StartUpload
    <3>4. UNCHANGED <<source, uploads, shown, byRun, socket>>
      BY <2>3 DEF Live!StartUpload
    <3> HIDE DEF Stepped
    <3> QED
      BY <1>1, <1>2, <3>1, <3>3, <3>4
  <2>4. CASE Live!SelectSource(r)
    <3> DEFINE new == [job[r] EXCEPT !.phase = "store", !.loaded = source]
    <3>1. new \in JobStates /\ Sound(new)
      BY <1>1, <2>0 DEF JobStates, Sound
    <3> QED
      BY <1>3, <2>0, <2>4, <3>1 DEF Live!SelectSource
  <2>5. CASE Live!StoreSource(r)
    <3> DEFINE new == [Live!At("publish") EXCEPT !.result = Live!Csv(job[r].stamp)]
    <3>1. Live!Csv(job[r].stamp) \in Live!Payloads
      BY <2>0, PayloadsAre DEF JobStates
    <3>2. Live!At("publish") \in JobStates /\ Live!At("publish").phase = "publish"
      BY JobsAre
    <3>3. new \in JobStates /\ Sound(new)
      BY <3>1, <3>2 DEF JobStates, Sound
    <3>4. Stepped
      BY <2>0, <2>5, <3>3 DEF Live!StoreSource
    <3>5. source' \in Live!Sources
      BY <1>1, <2>5 DEF Live!StoreSource, Live!Sources
    <3>6. UNCHANGED <<uploads, shown, byRun, socket, stamped>>
      BY <2>5 DEF Live!StoreSource
    <3> HIDE DEF Stepped
    <3> QED
      BY <1>1, <1>2, <3>4, <3>5, <3>6
  <2>6. CASE Live!CommitRows(r)
    <3> DEFINE new == [job[r] EXCEPT !.phase = "select"]
    <3>1. job[r].stamp \in 1..MaxUploads
      BY <1>1, <2>0, <2>6 DEF Live!CommitRows, LiveInv, Sound
    <3>2. new \in JobStates /\ Sound(new)
      BY <2>0 DEF JobStates, Sound
    <3>3. Stepped
      BY <2>0, <2>6, <3>2 DEF Live!CommitRows
    <3>4. uploads' \subseteq 1..MaxUploads
      BY <1>1, <2>6, <3>1 DEF Live!CommitRows
    <3>5. UNCHANGED <<source, shown, byRun, socket, stamped>>
      BY <2>6 DEF Live!CommitRows
    <3> HIDE DEF Stepped
    <3> QED
      BY <1>1, <1>2, <3>3, <3>4, <3>5
  <2> QED
    BY <1>8, <2>1, <2>2, <2>3, <2>4, <2>5, <2>6 DEF Live!UploadStep
<1>9. ASSUME NEW s \in Sockets, Live!ConnectSocket(s) \/ Live!LeaveSocket(s)
      PROVE  LiveInv'
  <2>1. socket' \in [Sockets -> [open: BOOLEAN, seen: Live!Payloads]]
    <3>1. CASE Live!ConnectSocket(s)
      <4>1. socket' = [socket EXCEPT ![s] = [open |-> TRUE, seen |-> shown]]
        BY <3>1 DEF Live!ConnectSocket
      <4>2. shown \in Live!Payloads
        BY <1>1
      <4>3. [open |-> TRUE, seen |-> shown] \in [open: BOOLEAN, seen: Live!Payloads]
        BY <4>2
      <4> QED
        BY <1>1, <4>1, <4>3
    <3>2. CASE Live!LeaveSocket(s)
      <4>1. socket' = [socket EXCEPT ![s] = Live!Closed]
        BY <3>2 DEF Live!LeaveSocket
      <4>2. Live!Closed \in [open: BOOLEAN, seen: Live!Payloads]
        BY PayloadsAre DEF Live!Closed
      <4> QED
        BY <1>1, <4>1, <4>2
    <3> QED
      BY <1>9, <3>1, <3>2
  <2>2. UNCHANGED <<source, uploads, shown, byRun, job, stamped>>
    BY <1>9 DEF Live!ConnectSocket, Live!LeaveSocket
  <2> HIDE DEF Stepped
  <2> QED
    BY <1>1, <1>2, <2>1, <2>2
<1>10. ASSUME NEW s \in Live!Sources, Live!ChangeSource(s) PROVE LiveInv'
  <2>1. source' \in Live!Sources /\ UNCHANGED <<uploads, shown, byRun, job, socket, stamped>>
    BY <1>10 DEF Live!ChangeSource
  <2> HIDE DEF Stepped
  <2> QED
    BY <1>1, <1>2, <2>1
<1> QED
  BY <1>4, <1>5, <1>6, <1>7, <1>8, <1>9, <1>10 DEF Live!LiveNext, Jobs

(* A step of a job that is on its way to no socket changes nothing here.   *)
LEMMA FeedKeeps ==
  ASSUME LiveInv, FeedInv, UNCHANGED <<shown, byRun, socket>>,
         NEW j \in Jobs, NEW new, Live!Step(j, new),
         \/ j \notin Live!Runs
         \/ job[j].phase \notin {"alerted", "broadcast"}
         \/ job[j].phase = "broadcast" /\ job[j].to = {}
  PROVE  FeedInv'
<1>1. \A i \in Live!Runs : i # j => job'[i] = job[i]
  BY DEF LiveInv, Live!LiveTypeOK, Live!Step, Live!Jobs
<1> SUFFICES ASSUME byRun', NEW s \in Live!Open', socket'[s].seen # shown'
             PROVE  \E i \in Live!Runs :
                       \/ job'[i].phase = "alerted"
                       \/ job'[i].phase = "broadcast" /\ s \in job'[i].to
  BY DEF FeedInv
<1>2. byRun /\ s \in Live!Open /\ socket[s].seen # shown
  BY DEF Live!Open
<1>3. PICK i \in Live!Runs : \/ job[i].phase = "alerted"
                             \/ job[i].phase = "broadcast" /\ s \in job[i].to
  BY <1>2 DEF FeedInv
<1>4. i # j
  BY <1>3
<1> QED
  BY <1>1, <1>3, <1>4

LEMMA FeedBroadcast ==
  ASSUME LiveInv, FeedInv, NEW j \in Jobs, Live!StartBroadcast(j)
  PROVE  FeedInv'
<1> DEFINE new == [Live!At("broadcast") EXCEPT !.to = Live!Open]
<1>1. /\ Live!Step(j, new) /\ UNCHANGED <<shown, byRun, socket>>
  BY DEF Live!StartBroadcast
<1>2. CASE j \notin Live!Runs
  <2> HIDE DEF new
  <2> QED
    BY <1>1, <1>2, FeedKeeps
<1>3. CASE j \in Live!Runs
  <2>1. Live!At("broadcast") \in JobStates /\ Live!At("broadcast").phase = "broadcast"
    BY JobsAre
  <2>2. new.phase = "broadcast" /\ new.to = Live!Open
    BY <2>1 DEF JobStates
  <2>3. job'[j] = new
    BY <1>1 DEF LiveInv, Live!LiveTypeOK, Live!Step, Jobs
  <2>4. Live!Open' = Live!Open
    BY <1>1 DEF Live!Open
  <2> QED
    BY <1>3, <2>2, <2>3, <2>4 DEF FeedInv
<1> QED
  BY <1>2, <1>3

LEMMA FeedSend ==
  ASSUME LiveInv, FeedInv, NEW j \in Jobs, NEW s \in Sockets, Live!Send(j, s)
  PROVE  FeedInv'
<1>1. /\ job' = [job EXCEPT ![j] = [job[j] EXCEPT !.to = @ \ {s}]]
      /\ job[j].phase = "broadcast" /\ UNCHANGED <<shown, byRun>>
      /\ socket' = IF socket[s].open THEN [socket EXCEPT ![s].seen = shown] ELSE socket
  BY DEF Live!Send, Live!Step
<1>2. job \in [Jobs -> JobStates] /\ Live!Runs \subseteq Jobs
  BY DEF LiveInv, Live!LiveTypeOK, JobStates, Jobs, Live!Jobs
<1>3. job[j] \in JobStates /\ job'[j] = [job[j] EXCEPT !.to = @ \ {s}]
  BY <1>1, <1>2
<1>4. job'[j].phase = "broadcast" /\ job'[j].to = job[j].to \ {s}
  BY <1>1, <1>3 DEF JobStates
<1>5. socket \in [Sockets -> [open: BOOLEAN, seen: Live!Payloads]]
  BY DEF LiveInv, Live!LiveTypeOK
<1>6. ASSUME NEW o \in Live!Open', o = s PROVE socket'[o].seen = shown'
  BY <1>1, <1>5, <1>6 DEF Live!Open
<1>7. ASSUME NEW o \in Live!Open', o # s
      PROVE  o \in Live!Open /\ socket'[o] = socket[o]
  BY <1>1, <1>5, <1>7 DEF Live!Open
<1> SUFFICES ASSUME byRun', NEW o \in Live!Open', socket'[o].seen # shown'
             PROVE  \E i \in Live!Runs :
                       \/ job'[i].phase = "alerted"
                       \/ job'[i].phase = "broadcast" /\ o \in job'[i].to
  BY DEF FeedInv
<1>8. o # s /\ o \in Live!Open /\ socket[o].seen # shown /\ byRun
  BY <1>1, <1>6, <1>7
<1>9. PICK i \in Live!Runs : \/ job[i].phase = "alerted"
                             \/ job[i].phase = "broadcast" /\ o \in job[i].to
  BY <1>8 DEF FeedInv
<1>10. CASE i = j
  BY <1>1, <1>4, <1>8, <1>9, <1>10
<1>11. CASE i # j
  <2>1. job'[i] = job[i]
    BY <1>1, <1>2, <1>11
  <2> QED
    BY <1>9, <2>1
<1> QED
  BY <1>10, <1>11

LEMMA FeedPublish ==
  ASSUME LiveInv, FeedInv, NEW j \in Jobs, Live!Publish(j)
  PROVE  FeedInv'
<1>1. CASE j \in Live!Runs
  <2>1. Live!Step(j, Live!At("alerted"))
    BY <1>1 DEF Live!Publish
  <2>2. job'[j].phase = "alerted"
    BY <2>1, JobsAre DEF LiveInv, Live!LiveTypeOK, Live!Step, Jobs
  <2> QED
    BY <1>1, <2>2 DEF FeedInv
<1>2. CASE j \notin Live!Runs
  BY <1>2 DEF Live!Publish, FeedInv
<1> QED
  BY <1>1, <1>2

LEMMA FeedNext ==
  LiveInv /\ FeedInv /\ [Live!LiveNext]_(Live!liveVars) => FeedInv'
<1> SUFFICES ASSUME LiveInv, FeedInv, [Live!LiveNext]_(Live!liveVars) PROVE FeedInv'
  OBVIOUS
<1> USE DEF Live!bounds
<1>0. /\ Requests \subseteq Jobs /\ Tick \in Jobs /\ Requests \cap Live!Runs = {}
  BY PlatformAssumption DEF Jobs, Live!Jobs, Live!Runs
<1>1. CASE UNCHANGED <<shown, byRun, job, socket>>
  BY <1>1 DEF FeedInv, Live!Open
<1>2. CASE Live!WakeUp
  BY <1>0, <1>2, FeedKeeps DEF Live!WakeUp
<1>3. CASE Live!RestartServer
  BY <1>3 DEF Live!RestartServer, FeedInv
<1>4. ASSUME NEW j \in Jobs, Live!RunStep(j) PROVE FeedInv'
  <2>1. CASE Live!Discover(j)
    <3>1. Live!Step(j, Live!At("settings")) \/ Live!Step(j, Live!At("dead"))
      BY <2>1 DEF Live!Discover
    <3> QED
      BY <2>1, <3>1, FeedKeeps DEF Live!Discover
  <2>2. CASE Live!ReadSettings(j)
    BY <2>2, FeedKeeps DEF Live!ReadSettings
  <2>3. CASE Live!ReadRows(j)
    BY <2>3, FeedKeeps DEF Live!ReadRows
  <2>4. CASE Live!QuerySiem(j)
    BY <2>4, FeedKeeps DEF Live!QuerySiem
  <2>5. CASE Live!EndRun(j)
    BY <2>5, FeedKeeps DEF Live!EndRun
  <2> QED
    BY <1>4, <2>1, <2>2, <2>3, <2>4, <2>5, FeedPublish, FeedBroadcast, FeedSend
       DEF Live!RunStep
<1>5. ASSUME NEW r \in Requests,
             Live!Trigger(r) \/ Live!StartUpload(r) \/ Live!UploadStep(r)
               \/ Live!FailRequest(r)
      PROVE  FeedInv'
  <2>1. UNCHANGED <<shown, byRun, socket>> /\ \E new : Live!Step(r, new)
    BY <1>5 DEF Live!Trigger, Live!StartUpload, Live!UploadStep, Live!FailRequest,
                Live!CommitRows, Live!SelectSource, Live!StoreSource
  <2> QED
    BY <1>0, <2>1, FeedKeeps
<1>6. ASSUME NEW s \in Sockets, Live!ConnectSocket(s) \/ Live!LeaveSocket(s)
      PROVE  FeedInv'
  <2>1. UNCHANGED <<shown, byRun, job>>
    BY <1>6 DEF Live!ConnectSocket, Live!LeaveSocket
  <2>2. \/ socket' = [socket EXCEPT ![s] = [open |-> TRUE, seen |-> shown]]
        \/ socket' = [socket EXCEPT ![s] = Live!Closed]
    BY <1>6 DEF Live!ConnectSocket, Live!LeaveSocket
  <2>3. socket \in [Sockets -> [open: BOOLEAN, seen: Live!Payloads]]
    BY DEF LiveInv, Live!LiveTypeOK
  <2>4. ASSUME NEW o \in Live!Open'
        PROVE  socket'[o].seen = shown \/ (o \in Live!Open /\ socket'[o] = socket[o])
    BY <2>2, <2>3 DEF Live!Open, Live!Closed
  <2> QED
    BY <2>1, <2>4 DEF FeedInv
<1>7. ASSUME NEW s \in Live!Sources, Live!ChangeSource(s) PROVE FeedInv'
  BY <1>1, <1>7 DEF Live!ChangeSource
<1> QED
  BY <1>1, <1>2, <1>3, <1>4, <1>5, <1>6, <1>7 DEF Live!LiveNext, Live!liveVars, Jobs

(* Whenever no scheduled run is about to send, every open socket has got   *)
(* what the last scheduled run published (_broadcast_all, websocket_live), *)
(* unless an upload or a manual run published later.                       *)
THEOREM FeedIsCurrent == PlatformSpec => []FeedCurrent
<1>1. FeedInv => FeedCurrent
  BY DEF FeedInv, FeedCurrent, Live!FeedCurrent
<1> QED
  BY <1>1, LiveInitially, LiveNextInv, FeedNext, PartsStart, PartsMove,
     PTL DEF PlatformSpec

-----------------------------------------------------------------------------
(* The activity log                                                        *)

Given == log \cup writing \cup failed \cup deleted

(* What the sequence of Postgres gives out is never given out again.       *)
Sequenced ==
    /\ next = 1 \/ \E f \in Given : f.id = next - 1
    /\ \A e \in Given : e.id < next
    /\ log \cap writing = {} /\ (log \cup writing) \cap deleted = {}

(* Every identifier follows one that was given out.                        *)
Chained == \A e \in Given : e.id = 1 \/ \E f \in Given : f.id = e.id - 1

LedgerInv == Log!LedgerTypeOK /\ Chained /\ (~ sqlite => Sequenced)

LEMMA EntryHasId ==
  ASSUME NEW id \in Log!Ids, NEW t \in Tenants
  PROVE  /\ [id |-> id, tenant |-> t] \in Log!Entries
         /\ [id |-> id, tenant |-> t].id = id
  BY DEF Log!Entries

LEMMA IdsAreNumbers ==
  /\ MaxEntries \in Nat /\ Log!Ids \subseteq Nat /\ \A id \in Log!Ids : id >= 1
  /\ \A e \in Log!Entries : e.id \in Log!Ids
<1>1. MaxEntries \in Nat
  BY PlatformAssumption
<1> QED
  BY <1>1 DEF Log!Ids, Log!Entries

LEMMA LedgerInitially == Log!LedgerInit => LedgerInv
<1> SUFFICES ASSUME Log!LedgerInit PROVE LedgerInv
  OBVIOUS
<1>1. /\ log = {} /\ writing = {} /\ started = {} /\ next = 1 /\ failed = {} /\ deleted = {}
      /\ Given = {}
  BY DEF Log!LedgerInit, Given
<1>2. next \in 1..MaxEntries + 1
  BY <1>1, IdsAreNumbers
<1>3. sqlite \in BOOLEAN
  BY DEF Log!LedgerInit
<1>4. Log!LedgerTypeOK
  BY <1>1, <1>2, <1>3 DEF Log!LedgerTypeOK
<1>5. Chained /\ Sequenced
  BY <1>1 DEF Chained, Sequenced
<1> QED
  BY <1>4, <1>5 DEF LedgerInv

(* An insert, as far as the identifiers are concerned.                     *)
LEMMA InsertGives ==
  ASSUME LedgerInv, NEW t \in Tenants, Log!Insert(t)
  PROVE  \E id \in Log!Ids :
            /\ writing' = writing \cup {[id |-> id, tenant |-> t]}
            /\ Given' = Given \cup {[id |-> id, tenant |-> t]}
            /\ UNCHANGED <<sqlite, log, failed, deleted>> /\ started' \subseteq Tenants
            /\ IF sqlite THEN /\ id = 1 \/ \E f \in log : f.id = id - 1
                              /\ next' = next
                         ELSE id = next /\ next' = next + 1
<1>1. PICK id \in Log!Ids :
         Log!Assigned(id) /\ writing' = writing \cup {[id |-> id, tenant |-> t]}
  BY DEF Log!Insert
<1>2. /\ UNCHANGED <<sqlite, log, failed, deleted>>
      /\ next' = IF sqlite THEN next ELSE next + 1
  BY DEF Log!Insert
<1>3. started' \subseteq Tenants
  BY DEF Log!Insert, LedgerInv, Log!LedgerTypeOK
<1>4. IF sqlite THEN (id = 1 \/ \E f \in log : f.id = id - 1) ELSE id = next
  BY <1>1 DEF Log!Assigned
<1>5. Given' = Given \cup {[id |-> id, tenant |-> t]}
  BY <1>1, <1>2 DEF Given
<1> QED
  BY <1>1, <1>2, <1>3, <1>4, <1>5

LEMMA LedgerInsert ==
  ASSUME LedgerInv, NEW t \in Tenants, Log!Insert(t) PROVE LedgerInv'
<1>1. PICK id \in Log!Ids :
            /\ writing' = writing \cup {[id |-> id, tenant |-> t]}
            /\ Given' = Given \cup {[id |-> id, tenant |-> t]}
            /\ UNCHANGED <<sqlite, log, failed, deleted>> /\ started' \subseteq Tenants
            /\ IF sqlite THEN /\ id = 1 \/ \E f \in log : f.id = id - 1
                              /\ next' = next
                         ELSE id = next /\ next' = next + 1
  BY InsertGives
<1> DEFINE new == [id |-> id, tenant |-> t]
<1>2. new \in Log!Entries /\ new.id = id /\ id \in 1..MaxEntries /\ MaxEntries \in Nat
  BY EntryHasId, IdsAreNumbers DEF Log!Ids
<1>3. Given \subseteq Log!Entries /\ next \in 1..MaxEntries + 1 /\ sqlite \in BOOLEAN
  BY DEF LedgerInv, Log!LedgerTypeOK, Given
<1> HIDE DEF new
<1>4. Given' = Given \cup {new}
  BY <1>1 DEF new
<1>5. next' \in 1..MaxEntries + 1
  <2>1. next' = next \/ (id = next /\ next' = next + 1)
    BY <1>1
  <2> QED
    BY <1>2, <1>3, <2>1
<1>6. Log!LedgerTypeOK'
  <2>1. Given' \subseteq Log!Entries
    BY <1>2, <1>3, <1>4
  <2>2. sqlite' \in BOOLEAN /\ started' \subseteq Tenants
    BY <1>1, <1>3
  <2> QED
    BY <1>5, <2>1, <2>2 DEF Log!LedgerTypeOK, Given
<1>7. id = 1 \/ \E f \in Given : f.id = id - 1
  <2>1. CASE sqlite
    BY <1>1, <2>1 DEF Given
  <2>2. CASE ~ sqlite
    <3>1. id = next
      BY <1>1, <2>2
    <3> QED
      BY <2>2, <3>1 DEF LedgerInv, Sequenced
  <2> QED
    BY <2>1, <2>2
<1>8. Chained'
  <2>1. Chained
    BY DEF LedgerInv
  <2> QED
    BY <1>2, <1>4, <1>7, <2>1 DEF Chained
<1>9. ASSUME ~ sqlite PROVE Sequenced'
  <2>1. Sequenced /\ id = next /\ next' = next + 1
    BY <1>1, <1>9 DEF LedgerInv
  <2>2. new \in Given' /\ new.id = next' - 1
    BY <1>2, <1>3, <1>4, <2>1
  <2>3. \A e \in Given' : e.id < next'
    <3>1. \A e \in Given : e.id \in Nat /\ e.id < next
      BY <1>3, <2>1, IdsAreNumbers DEF Sequenced
    <3> QED
      BY <1>2, <1>3, <1>4, <2>1, <3>1
  <2>4. new \notin Given
    BY <1>2, <1>3, <2>1 DEF Sequenced
  <2>5. writing' = writing \cup {new} /\ log' = log /\ deleted' = deleted
    BY <1>1 DEF new
  <2>6. log' \cap writing' = {} /\ (log' \cup writing') \cap deleted' = {}
    BY <2>1, <2>4, <2>5 DEF Sequenced, Given
  <2> QED
    BY <2>2, <2>3, <2>6 DEF Sequenced
<1>10. sqlite' = sqlite
  BY <1>1
<1> QED
  BY <1>6, <1>8, <1>9, <1>10 DEF LedgerInv

(* The end of an insert and a removal only move an entry.                  *)
LEMMA LedgerMove ==
  ASSUME LedgerInv, NEW e \in Log!Entries, Log!EndInsert(e) \/ Log!Remove(e)
  PROVE  LedgerInv'
<1>1. UNCHANGED <<sqlite, started, next>>
  BY DEF Log!EndInsert, Log!Remove
<1>2. Given' = Given
  BY DEF Log!EndInsert, Log!Remove, Given
<1>3. Log!LedgerTypeOK'
  BY <1>1, <1>2 DEF LedgerInv, Log!LedgerTypeOK, Given
<1>4. Chained'
  <2>1. Chained
    BY DEF LedgerInv
  <2> QED
    BY <1>2, <2>1 DEF Chained
<1>5. ASSUME Sequenced PROVE Sequenced'
  <2>1. log' \cap writing' = {} /\ (log' \cup writing') \cap deleted' = {}
    BY <1>5 DEF Sequenced, Log!EndInsert, Log!Remove
  <2> QED
    BY <1>1, <1>2, <1>5, <2>1 DEF Sequenced
<1> QED
  BY <1>1, <1>3, <1>4, <1>5 DEF LedgerInv

LEMMA LedgerNextInv == LedgerInv /\ [Log!LedgerNext]_(Log!ledgerVars) => LedgerInv'
<1> SUFFICES ASSUME LedgerInv, [Log!LedgerNext]_(Log!ledgerVars) PROVE LedgerInv'
  OBVIOUS
<1>1. ASSUME UNCHANGED <<sqlite, log, writing, next, failed, deleted>>,
             started' \subseteq Tenants
      PROVE  LedgerInv'
  BY <1>1 DEF LedgerInv, Log!LedgerTypeOK, Chained, Sequenced, Given
<1>2. CASE UNCHANGED Log!ledgerVars
  BY <1>1, <1>2 DEF LedgerInv, Log!LedgerTypeOK, Log!ledgerVars
<1>3. ASSUME NEW t \in Tenants, Log!StartTask(t) PROVE LedgerInv'
  BY <1>1, <1>3 DEF Log!StartTask, LedgerInv, Log!LedgerTypeOK
<1> QED
  BY <1>2, <1>3, LedgerInsert, LedgerMove DEF Log!LedgerNext

(* An organisation's identifiers on both sides of one that it has not got  *)
(* fail the verification: the least one above it follows none of them.     *)
LEMMA HoleShows ==
  ASSUME LedgerInv, NEW t \in Tenants, NEW hole \in Nat,
         NEW e \in log, NEW f \in log, e.tenant = t, f.tenant = t,
         e.id < hole, hole < f.id, ~ \E d \in log : d.tenant = t /\ d.id = hole
  PROVE  ~ Log!Verified(t)
<1> DEFINE ids == {d.id : d \in {c \in log : c.tenant = t}}
           above == {i \in ids : hole < i}
<1>1. ids \subseteq Nat
  <2>1. log \subseteq Log!Entries
    BY DEF LedgerInv, Log!LedgerTypeOK
  <2> QED
    BY <2>1, IdsAreNumbers
<1>2. e.id \in ids /\ f.id \in above /\ hole \notin ids
  OBVIOUS
<1> HIDE DEF ids
<1>3. above \subseteq Nat /\ above # {}
  BY <1>1, <1>2
<1>4. PICK least \in above : \A i \in above : ~ (<<i, least>> \in OpToRel(<, Nat))
  <2> HIDE DEF above
  <2> QED
    BY <1>3, NatLessThanWellFounded, WFMin
<1>5. \A i \in above : ~ (i < least)
  BY <1>3, <1>4 DEF OpToRel
<1>6. least \in ids /\ least - 1 \notin ids /\ ~ (least <= e.id)
  <2>1. least \in ids /\ hole < least /\ least \in Nat /\ e.id \in Nat
    BY <1>1, <1>2
  <2>2. ASSUME least - 1 \in ids PROVE FALSE
    <3>1. least - 1 # hole /\ least - 1 >= hole /\ least - 1 \in Nat
      BY <1>1, <1>2, <2>1, <2>2
    <3>2. least - 1 \in above
      BY <2>2, <3>1
    <3> QED
      BY <1>5, <2>1, <3>2
  <2>3. ~ (least <= e.id)
    BY <2>1
  <2> QED
    BY <2>1, <2>2, <2>3
<1>7. ~ \A i \in ids : i - 1 \in ids \/ \A j \in ids : i <= j
  BY <1>2, <1>6
<1> QED
  BY <1>7 DEF Log!Verified, ids

(* Whatever requests, failing commits and removals do (record_activity),   *)
(* the identifier missing before an entry was given to another one, and an *)
(* entry that was removed between two of its organisation's makes          *)
(* get_ledger_verification fail, unless SQLite has given its identifier    *)
(* out again.                                                              *)
THEOREM TamperingIsShown == PlatformSpec => []TamperingShows
<1>1. LedgerInv => Log!GapsExplained
  BY DEF LedgerInv, Chained, Given, Log!GapsExplained
<1>2. LedgerInv => Log!RemovalShows
  <2> SUFFICES ASSUME LedgerInv, NEW g \in deleted, NEW e \in log, NEW f \in log,
                      e.tenant = g.tenant, f.tenant = g.tenant, e.id < g.id, g.id < f.id,
                      ~ (sqlite /\ g \in log)
               PROVE  ~ Log!Verified(g.tenant)
    BY DEF Log!RemovalShows
  <2>1. g \notin log
    BY DEF LedgerInv, Sequenced
  <2>2. g \in Log!Entries /\ log \subseteq Log!Entries
    BY DEF LedgerInv, Log!LedgerTypeOK
  <2>3. g.tenant \in Tenants /\ g.id \in Nat
    BY <2>2, IdsAreNumbers DEF Log!Entries
  <2>4. ~ \E d \in log : d.tenant = g.tenant /\ d.id = g.id
    BY <2>1, <2>2 DEF Log!Entries
  <2> QED
    BY <2>3, <2>4, HoleShows
<1> QED
  BY <1>1, <1>2, LedgerInitially, LedgerNextInv, PartsStart, PartsMove,
     PTL DEF PlatformSpec, TamperingShows

-----------------------------------------------------------------------------
(* All parts                                                               *)

(* What the sockets of ws/live and the verification of the activity log    *)
(* show is true.                                                           *)
THEOREM WhatIsShownIsTrue == PlatformSpec => []ShownTrue
BY FeedIsCurrent, TamperingIsShown, PTL DEF ShownTrue

(* The tables, the live results and the activity log hold what their types *)
(* say.                                                                    *)
THEOREM PlatformTypeCorrect == PlatformSpec => []PlatformTypeOK
<1>1. AccountInv => TypeOK
  BY DEF AccountInv
<1>2. LiveInv => Live!LiveTypeOK
  BY DEF LiveInv
<1>3. LedgerInv => Log!LedgerTypeOK
  BY DEF LedgerInv
<1> QED
  BY <1>1, <1>2, <1>3, AccountInit, AccountNext, LiveInitially, LiveNextInv,
     LedgerInitially, LedgerNextInv, PartsStart, PartsMove,
     PTL DEF PlatformSpec, PlatformTypeOK
===============================================================================
