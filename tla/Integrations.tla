------------------------------ MODULE Integrations ------------------------------
(***************************************************************************)
(* One organisation's row of integration_settings: the JSON of connected   *)
(* integrations and the SIEM.  Every endpoint loads the row, works out new *)
(* columns and commits those that differ from the loaded ones, so the JSON *)
(* is always written whole; other requests commit in between.              *)
(*                                                                         *)
(* A registered organisation has its row from the start.                   *)
(***************************************************************************)
EXTENDS Integers, FiniteSets

CONSTANTS
    Providers,        \* marketplace integrations
    Siems,            \* those of SIEM_INTEGRATION_TYPES
    Oauth,            \* those of OAUTH_PROVIDERS
    Aws,              \* connected by an IAM role
    Limit,            \* PLAN_LIMITS[plan]["integrations"]
    Requests          \* concurrent requests

VARIABLES
    live,        \* providers with OAuth client credentials in the environment
    settings,    \* the row: map of connections, siem_type
    pending,     \* OAuth states in the session store
    request,     \* local state of each request
    known        \* history: connections that no request has overlooked

(* No SIEM stands for uploaded files as well.                              *)
NoSiem == "none"

(* Connected means with credentials: a verification refuses an entry       *)
(* without them, and changes nothing.                                      *)
Entries == {"none", "stored", "verified"}
Rows == [map: [Providers -> Entries], siem: Siems \cup {NoSiem}]

Empty == [map |-> [p \in Providers |-> "none"], siem |-> NoSiem]
Columns == {"map", "siem"}
Resting == [op |-> "idle", provider |-> Aws, writes |-> {}, new |-> Empty]

IntegrationsInit ==
    /\ live \in SUBSET (Oauth \ {Aws})
    /\ settings = Empty
    /\ pending = {}
    /\ request = [h \in Requests |-> Resting]
    /\ known = {}

integrationVars == <<live, settings, pending, request, known>>

Connected(row) == {p \in Providers : row.map[p] # "none"}

(* A handler has loaded the row and wants it to be new; it will write the  *)
(* columns writes, the others are not looked at.                           *)
Loaded(op, p, new, writes) ==
    [op |-> op, provider |-> p, writes |-> writes,
     new |-> [c \in Columns |-> IF c \in writes THEN new[c] ELSE Empty[c]]]

Load(h, op, p, new, writes) ==
    /\ request[h].op = "idle"
    /\ request' = [request EXCEPT ![h] = Loaded(op, p, new, writes)]
    /\ UNCHANGED <<live, settings, pending, known>>

Changed(new) == {c \in Columns : new[c] # settings[c]}

(* The request changes what differs; the time stamp of a new connection    *)
(* always does.                                                            *)
Change(h, op, p, new) ==
    Load(h, op, p, new, Changed(new) \cup IF op = "connect" THEN {"map"} ELSE {})

With(p, entry) == [settings EXCEPT !.map[p] = entry]

-----------------------------------------------------------------------------
(* Connecting                                                              *)

(* save_connector_config: another SIEM, or a whole new map.                *)
SaveConfig(h) ==
    \/ \E siem \in Siems \cup {NoSiem} :
          Change(h, "save", Aws, [settings EXCEPT !.siem = siem])
    \/ \E P \in SUBSET Providers :
          Change(h, "save", Aws,
                 [settings EXCEPT !.map = [p \in Providers |->
                     IF p \in P THEN settings.map[p] ELSE "none"]])

(* A fault: the map starts from an empty one.                              *)
ConnectAlone(h, p) ==
    Change(h, "connect", p,
           [map |-> [q \in Providers |-> IF q = p THEN "stored" ELSE "none"],
            siem |-> IF p \in Siems THEN p ELSE settings.siem])

(* connect_marketplace_integration: a SIEM becomes the organisation's.     *)
Connect(h, p) ==
    Change(h, "connect", p,
           [With(p, "stored") EXCEPT !.siem = IF p \in Siems THEN p ELSE @])

(* disconnect_marketplace_integration: 404 if there is nothing to remove.  *)
Disconnect(h, p) ==
    /\ settings.map[p] # "none" \/ settings.siem = p
    /\ Change(h, "disconnect", p,
              [With(p, "none") EXCEPT !.siem = IF @ = p THEN NoSiem ELSE @])

(* verify_marketplace_integration of a SIEM that is only configured: the   *)
(* health check decides.                                                   *)
VerifySiem(h, p) ==
    /\ settings.siem = p /\ settings.map[p] = "none"
    /\ \E entry \in {"stored", "verified"} :
          Change(h, "verify", p, With(p, entry))

(* verify_marketplace_integration of a connection: the nested entry of the *)
(* loaded map itself is changed, and the new map equals the loaded one.    *)
VerifyEntry(h, p) ==
    /\ settings.map[p] # "none"
    /\ Load(h, "verify", p, settings, {})

-----------------------------------------------------------------------------
(* OAuth and the AWS role                                                  *)

(* oauth_connect_integration and oauth_start without client credentials    *)
(* outside production: a sandbox token.                                    *)
ConnectDemo(h, p) ==
    /\ p \in (Oauth \ {Aws}) \ live
    /\ \E entry \in {"stored", "verified"} : Change(h, "connect", p, With(p, entry))

(* A fault: the client credentials are not looked for.                     *)
StartOauthAnyway(p) ==
    /\ p \in Oauth \ {Aws}
    /\ pending' = pending \cup {p}
    /\ UNCHANGED <<live, settings, request, known>>

(* start_oauth_flow                                                        *)
StartOauth(p) ==
    /\ p \in live
    /\ pending' = pending \cup {p}
    /\ UNCHANGED <<live, settings, request, known>>

(* complete_oauth_callback takes the state out of the session store, then  *)
(* asks the provider for the tokens.                                       *)
Callback(h, p) ==
    /\ p \in pending /\ request[h].op = "idle"
    /\ pending' = pending \ {p}
    /\ request' = [request EXCEPT ![h] = [Resting EXCEPT !.op = "exchange",
                                                         !.provider = p]]
    /\ UNCHANGED <<live, settings, known>>

(* enforce_integration_limit counts the provider itself a second time.     *)
Allowed == Cardinality(Connected(settings)) + 1 <= Limit

(* _store_connection after the tokens have come, or the callback fails.    *)
StoreConnection(h) ==
    LET p == request[h].provider IN
    /\ request[h].op = "exchange"
    /\ request' = [request EXCEPT ![h] =
                     IF Allowed THEN Loaded("connect", p, With(p, "stored"), {"map"})
                                ELSE Resting]
    /\ UNCHANGED <<live, settings, pending, known>>

(* connect_aws_cross_account_role, by way of _store_connection.            *)
ConnectRole(h) ==
    Allowed /\ Change(h, "connect", Aws, With(Aws, "stored"))

(* connect_aws_iam_role does not look at the plan.                         *)
ConnectIamRole(h) == Change(h, "connect", Aws, With(Aws, "verified"))

-----------------------------------------------------------------------------
(* The commit.  History: a request that has loaded a map without p will    *)
(* overwrite p, so p counts as known only if nobody else is at work when   *)
(* it is committed; what a commit removes is no longer known.              *)
Commit(h) ==
    LET r == request[h]
        alone == \A g \in Requests \ {h} : request[g].op \in {"idle", "exchange"}
    IN
    /\ r.op \in {"save", "connect", "disconnect", "verify"}
    /\ settings' = [c \in Columns |-> IF c \in r.writes THEN r.new[c]
                                                      ELSE settings[c]]
    /\ known' = (known \cup (IF r.op = "connect" /\ alone THEN {r.provider} ELSE {}))
                \ (CASE r.op = "disconnect" -> {r.provider}
                     [] r.op = "save" /\ "map" \in r.writes ->
                          Providers \ Connected(r.new)
                     [] OTHER -> {})
    /\ request' = [request EXCEPT ![h] = Resting]
    /\ UNCHANGED <<live, pending>>

(* The request fails, and its session rolls back.                          *)
Abort(h) ==
    /\ request[h].op # "idle"
    /\ request' = [request EXCEPT ![h] = Resting]
    /\ UNCHANGED <<live, settings, pending, known>>

IntegrationsNext ==
    \/ \E h \in Requests :
          \/ SaveConfig(h) \/ StoreConnection(h) \/ Commit(h) \/ Abort(h)
          \/ ConnectRole(h) \/ ConnectIamRole(h)
          \/ \E p \in Providers :
                \/ Connect(h, p) \/ Disconnect(h, p) \/ ConnectDemo(h, p)
                \/ VerifySiem(h, p) \/ VerifyEntry(h, p) \/ Callback(h, p)
    \/ \E p \in Providers : StartOauth(p)

-----------------------------------------------------------------------------
(* Properties                                                              *)

(* The types of the row and of the requests.                               *)
IntegrationsTypeOK ==
    /\ settings \in Rows
    /\ live \subseteq Oauth /\ pending \subseteq live
    /\ request \in [Requests -> [op: {"idle", "save", "connect", "disconnect",
                                      "verify", "exchange"},
                                 provider: Providers, writes: SUBSET Columns,
                                 new: Rows]]
    /\ known \subseteq Providers

(* The JSON of all connections is read, changed and written whole.  Only a *)
(* request that was under way when a connection was committed may lose it  *)
(* again; otherwise it stays until it is disconnected or another map is    *)
(* saved, whatever is connected, verified or disconnected besides.         *)
ConnectionKept == known \subseteq Connected(settings)
=============================================================================
