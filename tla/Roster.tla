--------------------------------- MODULE Roster ---------------------------------
(***************************************************************************)
(* Three lists of an organisation that a pass of the pipeline, and the     *)
(* same code behind an endpoint, bring up to date from outside: people     *)
(* from the identity provider, devices from the device management, and     *)
(* breach alerts of the listed vendors.  A behaviour works on one of them  *)
(* (kind).  None of the tables has a unique key: each pass looks an item   *)
(* up, inserts it if it is not there, and commits once at the end.         *)
(***************************************************************************)
EXTENDS Integers, FiniteSets

CONSTANTS
    Last,             \* the items are 1..Last, in the order they are fetched
    Requests,         \* passes that may run at the same time
    PeoplePage,       \* people the identity provider returns at most (limit=50)
    MaxRows,          \* bound of the model: rows of an item
    MaxGiven,         \* bound of the model: incidents a vendor is entered with
    MaxSaid           \* bound of the model: what the other side says, over all items

VARIABLES
    kind,        \* people, devices, vendors
    source,      \* what the other side says of each item
    rows,        \* rows of the item that a pass looks up
    byHand,      \* rows entered by hand
    state,       \* what its row says
    incidents,   \* vendor_records.incident_count
    given,       \* history: the count the vendor was entered with
    scored,      \* the count that went into the vendor's risk score
    handled,     \* some event was reviewed, some alert acknowledged
    request,     \* local state of each pass
    ever,        \* history: what the other side has said
    overlapped,  \* history: items that two passes inserted at once
    missed       \* history: why passes have left items out

Items == 1..Last

States(k) == CASE k = "people"  -> {"joiner", "mover", "leaver"}
               [] k = "devices" -> {"compliant", "non_compliant"}
               [] k = "vendors" -> {"listed"}

Nothing == [i \in Items |-> "absent"]
Zero == [i \in Items |-> 0]
Resting == [at |-> 0, fetched |-> Nothing, counts |-> Zero, ins |-> {}, upd |-> {}]

RosterInit ==
    /\ kind \in {"people", "devices", "vendors"}
    /\ source = Nothing /\ rows = Zero /\ byHand = Zero
    /\ state = Nothing /\ incidents = Zero /\ given = Zero /\ scored = Zero
    /\ handled = FALSE
    /\ request = [h \in Requests |-> Resting]
    /\ ever = [i \in Items |-> {}] /\ overlapped = {} /\ missed = {}

tableVars == <<rows, state, incidents, given, scored, byHand, handled>>
rosterVars == <<kind, source, tableVars, request, ever, overlapped, missed>>

Set(h, r) == request' = [request EXCEPT ![h] = r]

-----------------------------------------------------------------------------
(* What comes from outside and by hand                                     *)

Said == UNION {{i} \X ever[i] : i \in Items}

(* Somebody joins, moves or leaves, a device changes.                      *)
Change(i, s) ==
    /\ kind # "vendors" /\ s \in States(kind) /\ s # source[i]
    /\ <<i, s>> \in Said \/ Cardinality(Said) < MaxSaid
    /\ source' = [source EXCEPT ![i] = s]
    /\ ever' = [ever EXCEPT ![i] = @ \cup {s}]
    /\ UNCHANGED <<kind, tableVars, request, overlapped, missed>>

(* create_vendor, and the vendors of a demonstration (_ensure_demo_vendors):*)
(* the count of incidents is the caller's, and scored.  The names differ.  *)
CreateVendor(i, n) ==
    /\ kind = "vendors" /\ source[i] = "absent" /\ Cardinality(Said) < MaxSaid
    /\ source' = [source EXCEPT ![i] = "listed"]
    /\ ever' = [ever EXCEPT ![i] = @ \cup {"listed"}]
    /\ incidents' = [incidents EXCEPT ![i] = n]
    /\ given' = [given EXCEPT ![i] = n]
    /\ scored' = [scored EXCEPT ![i] = n]
    /\ UNCHANGED <<kind, rows, state, byHand, handled, request, overlapped, missed>>

(* register_device does not look for the device.                           *)
RegisterDevice(i, s) ==
    /\ kind = "devices" /\ s \in States(kind)
    /\ <<i, s>> \in Said \/ Cardinality(Said) < MaxSaid
    /\ rows[i] < MaxRows
    /\ rows' = [rows EXCEPT ![i] = @ + 1]
    /\ byHand' = [byHand EXCEPT ![i] = @ + 1]
    /\ state' = [state EXCEPT ![i] = IF @ = "absent" THEN s ELSE @]
    /\ ever' = [ever EXCEPT ![i] = @ \cup {s}]
    /\ UNCHANGED <<kind, source, incidents, given, scored, handled, request,
                   overlapped, missed>>

(* create_jml_event: not from the identity provider, so no pass sees it    *)
(* (one in a behaviour).                                                   *)
CreateEvent(i) ==
    /\ kind = "people" /\ byHand = Zero
    /\ byHand' = [byHand EXCEPT ![i] = 1]
    /\ UNCHANGED <<kind, source, rows, state, incidents, given, scored, handled,
                   request, ever, overlapped, missed>>

(* review_jml_access                                                       *)
Review(i) ==
    /\ kind = "people" /\ rows[i] + byHand[i] > 0
    /\ handled' = TRUE
    /\ UNCHANGED <<kind, source, rows, state, incidents, given, scored, byHand,
                   request, ever, overlapped, missed>>

(* acknowledge_breach                                                      *)
Acknowledge(i) ==
    /\ kind = "vendors" /\ rows[i] > 0
    /\ handled' = TRUE
    /\ UNCHANGED <<kind, source, rows, state, incidents, given, scored, byHand,
                   request, ever, overlapped, missed>>

(* rescore_vendor, and submit_vendor_questionnaire at its end              *)
Rescore(i) ==
    /\ kind = "vendors" /\ source[i] = "listed"
    /\ scored' = [scored EXCEPT ![i] = incidents[i]]
    /\ UNCHANGED <<kind, source, rows, state, incidents, given, byHand, handled,
                   request, ever, overlapped, missed>>

-----------------------------------------------------------------------------
(* A pass                                                                  *)

Listed == {i \in Items : source[i] # "absent"}
Clipped == kind = "people" /\ Cardinality(Listed) > PeoplePage

(* The provider's list is fetched, of people one page and no other, or the *)
(* vendors are selected with their incident counts.                        *)
BeginPass(h, page) ==
    /\ request[h].at = 0 /\ Listed # {}
    /\ IF Clipped
         THEN Cardinality(page) = PeoplePage /\ missed' = missed \cup {"page"}
         ELSE page = Listed /\ UNCHANGED missed
    /\ Set(h, [Resting EXCEPT !.at = 1, !.counts = incidents,
                  !.fetched = [i \in Items |-> IF i \in page THEN source[i]
                                                             ELSE "absent"]])
    /\ UNCHANGED <<kind, source, tableVars, ever, overlapped>>

Item(h) == request[h].at
OnItem(h) == Item(h) \in Items

Skip(h) == Set(h, [request[h] EXCEPT !.at = @ + 1])

LeaveRest(h, cause) ==
    Set(h, [request[h] EXCEPT !.at = Last + 1]) /\ missed' = missed \cup {cause}

Insert(h) ==
    LET i == Item(h) IN
    /\ Set(h, [request[h] EXCEPT !.at = @ + 1, !.ins = @ \cup {i}])
    /\ overlapped' = IF \E g \in Requests \ {h} : i \in request[g].ins
                       THEN overlapped \cup {i} ELSE overlapped

(* A fault: nobody looks whether the event is there.                       *)
SyncPersonAgain(h) ==
    /\ kind = "people" /\ OnItem(h)
    /\ IF request[h].fetched[Item(h)] = "absent"
         THEN Skip(h) /\ UNCHANGED overlapped ELSE Insert(h)
    /\ UNCHANGED <<kind, source, tableVars, ever, missed>>

(* sync_jml_from_integrations: one event for each person, the first.       *)
SyncPerson(h) ==
    /\ kind = "people" /\ OnItem(h)
    /\ IF request[h].fetched[Item(h)] = "absent" \/ rows[Item(h)] > 0
         THEN Skip(h) /\ UNCHANGED overlapped ELSE Insert(h)
    /\ UNCHANGED <<kind, source, tableVars, ever, missed>>

(* sync_mdm_devices: scalar_one_or_none of two rows raises, and the rest   *)
(* of the list is left out.                                                *)
SyncDevice(h) ==
    LET i == Item(h) IN
    /\ kind = "devices" /\ OnItem(h)
    /\ CASE request[h].fetched[i] = "absent" ->
              Skip(h) /\ UNCHANGED <<overlapped, missed>>
         [] request[h].fetched[i] # "absent" /\ rows[i] = 0 ->
              Insert(h) /\ UNCHANGED missed
         [] request[h].fetched[i] # "absent" /\ rows[i] = 1 ->
              /\ Set(h, [request[h] EXCEPT !.at = @ + 1,
                           !.upd = IF request[h].fetched[i] # state[i]
                                     THEN @ \cup {i} ELSE @])
              /\ UNCHANGED <<overlapped, missed>>
         [] request[h].fetched[i] # "absent" /\ rows[i] > 1 ->
              LeaveRest(h, "twice") /\ UNCHANGED overlapped
    /\ UNCHANGED <<kind, source, tableVars, ever>>

(* scan_vendor_breaches: the same exception ends the scan and loses it.    *)
ScanVendor(h) ==
    LET i == Item(h) IN
    /\ kind = "vendors" /\ OnItem(h)
    /\ CASE request[h].fetched[i] = "absent" \/ rows[i] = 1 ->
              Skip(h) /\ UNCHANGED <<overlapped, missed>>
         [] request[h].fetched[i] # "absent" /\ rows[i] = 0 ->
              Insert(h) /\ UNCHANGED missed
         [] request[h].fetched[i] # "absent" /\ rows[i] > 1 ->
              /\ Set(h, Resting) /\ missed' = missed \cup {"twice"}
              /\ UNCHANGED overlapped
    /\ UNCHANGED <<kind, source, tableVars, ever>>

(* The commit of a pass; the count of a vendor is written as loaded, + 1.  *)
CommitPass(h) ==
    LET r == request[h] IN
    /\ r.at = Last + 1
    /\ \A i \in r.ins : rows[i] < MaxRows
    /\ rows' = [i \in Items |-> rows[i] + IF i \in r.ins THEN 1 ELSE 0]
    /\ state' = [i \in Items |-> IF i \in r.upd \/ (i \in r.ins /\ rows[i] = 0)
                                   THEN r.fetched[i] ELSE state[i]]
    /\ incidents' = [i \in Items |-> IF kind = "vendors" /\ i \in r.ins
                                       THEN r.counts[i] + 1 ELSE incidents[i]]
    /\ Set(h, Resting)
    /\ UNCHANGED <<kind, source, given, scored, byHand, handled, ever, overlapped,
                   missed>>

(* People and devices: whatever is raised between two items is caught, and *)
(* what was inserted before is committed.                                  *)
FailPass(h) ==
    /\ kind # "vendors" /\ OnItem(h) /\ LeaveRest(h, "failed")
    /\ UNCHANGED <<kind, source, tableVars, ever, overlapped>>

(* The commit fails, the scan of the vendors raises, or the server dies:   *)
(* the session rolls back.                                                 *)
AbortPass(h) ==
    /\ request[h].at # 0 /\ Set(h, Resting)
    /\ UNCHANGED <<kind, source, tableVars, ever, overlapped, missed>>

RosterNext ==
    \/ \E i \in Items :
          \/ CreateEvent(i) \/ Review(i) \/ Acknowledge(i) \/ Rescore(i)
          \/ \E s \in States(kind) : Change(i, s) \/ RegisterDevice(i, s)
          \/ \E n \in 0..MaxGiven : CreateVendor(i, n)
    \/ \E h \in Requests :
          \/ \E page \in SUBSET Listed : BeginPass(h, page)
          \/ SyncPerson(h) \/ SyncDevice(h) \/ ScanVendor(h)
          \/ CommitPass(h) \/ FailPass(h) \/ AbortPass(h)

-----------------------------------------------------------------------------
(* Properties                                                              *)

(* The types of the tables and of the passes.                              *)
RosterTypeOK ==
    LET Word == States(kind) \cup {"absent"}
        Rows == [Items -> 0..MaxRows]
        Counts == [Items -> 0..(MaxRows + MaxGiven)]
    IN
    /\ source \in [Items -> Word] /\ state \in [Items -> Word]
    /\ rows \in Rows /\ byHand \in Rows
    /\ incidents \in Counts /\ scored \in Counts /\ given \in [Items -> 0..MaxGiven]
    /\ request \in [Requests -> [at: 0..(Last + 1), fetched: [Items -> Word],
                                 counts: Counts, ins: SUBSET Items, upd: SUBSET Items]]
    /\ ever \in [Items -> SUBSET States(kind)]
    /\ handled \in BOOLEAN /\ overlapped \subseteq Items
    /\ missed \subseteq {"twice", "page", "failed"}

(* Passes enter an item twice only when two of them inserted it at once,   *)
(* and only what the other side has said; the incidents of a vendor are    *)
(* those it was entered with and its alerts, never more, and fewer only    *)
(* where two passes overlapped.  Until a pass was broken off, each covers  *)
(* all it fetched, and broken off it is, but for failures, only when an    *)
(* item is there twice; it fetches all but for people beyond one page.     *)
RosterKept ==
    /\ \A i \in Items :
          /\ rows[i] > 1 + (IF kind = "devices" THEN byHand[i] ELSE 0)
                => i \in overlapped
          /\ state[i] # "absent" => state[i] \in ever[i]
          /\ kind = "vendors" =>
                /\ scored[i] <= incidents[i] /\ incidents[i] <= given[i] + rows[i]
                /\ incidents[i] < given[i] + rows[i] => i \in overlapped
    /\ missed \subseteq {"page"} =>
          \A h \in Requests : request[h].at = Last + 1 =>
             \A i \in Items : request[h].fetched[i] # "absent"
                                => rows[i] > 0 \/ i \in request[h].ins
    /\ "twice" \in missed => \E i \in Items : rows[i] > 1
    /\ "page" \in missed => Clipped
=============================================================================
