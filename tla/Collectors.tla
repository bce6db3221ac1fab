------------------------------ MODULE Collectors ------------------------------
(***************************************************************************)
(* The collectors that file evidence from connected integrations, and the  *)
(* probe of OAuth connections.  A collector makes one or two groups of     *)
(* requests; what it returns is a list of statuses.  Every item is filed   *)
(* with a commit of its own (the chain of the vault: see EvidenceVault).   *)
(***************************************************************************)
EXTENDS Integers, Sequences, FiniteSets

CONSTANTS
    Orders,       \* possible sequences of connected integrations
    MaxProbes     \* bound of the model: probes of a connection

VARIABLES
    connected,   \* connected_integrations, in their order
    demo,        \* demo_mode_for_tenant: a demo tenant, or not in production
    credentials, \* what each integration has: none, keys, role (AWS)
    access,      \* integrations whose stored access token is accepted
    refresh,     \* the stored refresh token: none, good, spent
    turn,        \* place of the pass in connected
    items,       \* what the collector returned and is still to be filed
    filed,       \* rows of the vault: [of, status]
    recorded,    \* the count the pass returns
    session,     \* the database session of the pass
    probed,      \* last result of the probe
    returned,    \* history: what each collector has returned
    answered,    \* history: integrations that answered some request
    unfiled,     \* history: integrations with an item whose filing failed
    probes,      \* history: exchanges of the stored refresh token
    disturbed    \* history: integrations that ended it or failed a probe's request

Integrations == {connected[n] : n \in DOMAIN connected}
TwoGroups == {"okta", "github", "google_workspace"}
OneGroup == {"gcp", "jamf", "kandji", "jira", "servicenow"}

Pass(n) == [k \in 1..n |-> "pass"]
Configured == <<"configured">>
Collected == TwoGroups \cup OneGroup \cup {"aws", "azure"}
Oauth == {"okta", "github", "google_workspace", "azure", "gcp", "jira", "servicenow"}
Probed == {"okta", "github", "google_workspace"}

(* What a request meets: an answer that can be read, another HTTP status,  *)
(* or an exception (also one while an answer is read).                     *)
Replies == {"ok", "refused", "raises"}

-----------------------------------------------------------------------------
(* The collectors                                                          *)

InTurn == turn <= Len(connected)
Turn == connected[turn]
Idle == InTurn /\ items = <<>>

(* Made up in demo mode, and without credentials nothing but the fact that *)
(* the integration is configured.                                          *)
Collect(ofDemo, ofAnswers) ==
    IF demo THEN ofDemo
    ELSE IF credentials[Turn] = "none" THEN Configured ELSE ofAnswers

(* A single request; anything but an answer leaves "configured".           *)
One(reply) == IF reply = "ok" THEN Pass(1) ELSE Configured

(* Two groups; an exception in one of them loses the items of both.        *)
Two(first, second, ofFirst, ofSecond) ==
    LET got == (IF first = "ok" THEN ofFirst ELSE <<>>)
                \o (IF second = "ok" THEN ofSecond ELSE <<>>)
    IN IF "raises" \in {first, second} \/ got = <<>> THEN Configured ELSE got

Gcp(reply) == Collect(Pass(3), One(reply))
Jamf(reply) == Collect(Pass(2), One(reply))
Kandji(reply) == Collect(Pass(2), One(reply))
Jira(reply) == Collect(Pass(3), One(reply))
Servicenow(reply) == Collect(Pass(4), One(reply))

Okta(first, second) == Collect(Pass(3), Two(first, second, Pass(2), Pass(1)))
GoogleWorkspace(first, second) == Collect(Pass(4), Two(first, second, Pass(1), Pass(1)))
Github(first, second, branches) ==
    Collect(Append(Pass(3), "warn"), Two(first, second, <<branches>>, Pass(1)))

(* Both requests or "fail"; without boto3 "warn".                          *)
Aws(first, second, boto3) ==
    Collect(Pass(4), IF ~boto3 THEN <<"warn">>
                     ELSE IF first = "ok" /\ second = "ok" THEN Pass(2) ELSE <<"fail">>)

(* Nothing is ever asked of Azure.                                         *)
Azure == Collect(Pass(3), Configured)

Items(first, second, branches, boto3) ==
    CASE Turn = "gcp" -> Gcp(first)
      [] Turn = "jamf" -> Jamf(first)
      [] Turn = "kandji" -> Kandji(first)
      [] Turn = "jira" -> Jira(first)
      [] Turn = "servicenow" -> Servicenow(first)
      [] Turn = "okta" -> Okta(first, second)
      [] Turn = "google_workspace" -> GoogleWorkspace(first, second)
      [] Turn = "github" -> Github(first, second, branches)
      [] Turn = "aws" -> Aws(first, second, boto3)
      [] Turn = "azure" -> Azure

ItemsUnasked == Items("raises", "raises", "warn", FALSE)

-----------------------------------------------------------------------------
CollectorsInit ==
    /\ connected \in Orders /\ demo \in BOOLEAN
    /\ credentials \in [Integrations -> {"none", "keys", "role"}]
    /\ \A i \in Integrations : credentials[i] = "role" => i = "aws"
    /\ access = {i \in Integrations : credentials[i] # "none"}
    /\ refresh \in [Integrations -> {"none", "good"}]
    /\ \A i \in Integrations :
          refresh[i] = "good" => i \in Oauth /\ credentials[i] = "keys"
    /\ turn = 1 /\ items = <<>> /\ filed = <<>> /\ recorded = 0 /\ session = "usable"
    /\ probed = [i \in Integrations |-> "not yet"]
    /\ returned = [i \in Integrations |-> <<>>]
    /\ answered = {} /\ unfiled = {} /\ disturbed = {}
    /\ probes = [i \in Integrations |-> 0]

given == <<connected, demo, credentials>>
tokenVars == <<access, refresh, probed, probes, disturbed>>
passVars == <<turn, items, filed, recorded, session, returned, answered, unfiled>>
collectorsVars == <<given, tokenVars, passVars>>

-----------------------------------------------------------------------------
(* run_cloud_collectors                                                    *)

(* An integration without a collector, as every SIEM is.                   *)
Skip ==
    /\ Idle /\ Turn \notin Collected
    /\ turn' = turn + 1
    /\ UNCHANGED <<given, tokenVars, items, filed, recorded, session, returned,
                   answered, unfiled>>

Return(list) ==
    /\ items' = list
    /\ returned' = [returned EXCEPT ![Turn] = list]
    /\ UNCHANGED <<given, tokenVars, turn, filed, recorded, session, unfiled>>

CollectDemo ==
    /\ Idle /\ Turn \in Collected /\ demo
    /\ Return(ItemsUnasked) /\ UNCHANGED answered

CollectNothing ==
    /\ Idle /\ Turn \in Collected /\ ~demo /\ credentials[Turn] = "none"
    /\ Return(ItemsUnasked) /\ UNCHANGED answered

(* credentials_from_integration: a role is assumed first; when that fails, *)
(* also for want of boto3, there are no keys to fall back on.              *)
AssumeNoRole ==
    /\ Idle /\ ~demo /\ credentials[Turn] = "role"
    /\ Return(Configured) /\ UNCHANGED answered

CollectLive ==
    /\ Idle /\ Turn \in Collected /\ ~demo /\ credentials[Turn] # "none"
    /\ \E first, second \in Replies, branches \in {"pass", "warn"}, boto3 \in BOOLEAN :
         /\ Turn \notin access => "ok" \notin {first, second}
         /\ Turn \in OneGroup => second = first
         /\ Turn # "github" => branches = "pass"
         /\ ~boto3 => Turn = "aws" /\ credentials[Turn] = "keys"
         /\ Return(Items(first, second, branches, boto3))
         /\ answered' = IF "ok" \in {first, second} THEN answered \cup {Turn} ELSE answered

(* Nothing more of this integration.                                       *)
Onward(rest) ==
    /\ items' = rest
    /\ turn' = IF rest = <<>> THEN turn + 1 ELSE turn
    /\ UNCHANGED <<given, tokenVars, returned, answered>>

Row == [of |-> Turn, status |-> Head(items)]

File ==
    /\ items # <<>> /\ session = "usable"
    /\ filed' = Append(filed, Row) /\ recorded' = recorded + 1
    /\ Onward(Tail(items)) /\ UNCHANGED <<session, unfiled>>

(* An exception leaves the items after this one; one raised by the flush   *)
(* leaves the session unusable, and nothing rolls it back.                 *)
FailToFile ==
    /\ items # <<>>
    /\ unfiled' = unfiled \cup {Turn}
    /\ session = "broken" => session' = "broken"
    /\ session' \in {"usable", "broken"}
    /\ Onward(<<>>) /\ UNCHANGED <<filed, recorded>>

(* The commit takes place and its answer is lost.                          *)
LoseCommit ==
    /\ items # <<>> /\ session = "usable"
    /\ filed' = Append(filed, Row)
    /\ unfiled' = unfiled \cup {Turn}
    /\ session' = "broken"
    /\ Onward(<<>>) /\ UNCHANGED recorded

-----------------------------------------------------------------------------
(* Tokens                                                                  *)

(* The access token expires: no collector asks for another.                *)
ExpireAccess(i) ==
    /\ i \in access /\ credentials[i] = "keys" /\ i \in Oauth
    /\ access' = access \ {i}
    /\ UNCHANGED <<given, refresh, probed, probes, disturbed, passVars>>

EndRefresh(i) ==
    /\ refresh[i] = "good" /\ i \in access
    /\ refresh' = [refresh EXCEPT ![i] = "spent"] /\ disturbed' = disturbed \cup {i}
    /\ UNCHANGED <<given, access, probed, probes, passVars>>

Result(i, accepted) == IF i \notin Probed \/ accepted THEN "live" ELSE "dead"

(* get_valid_access_token exchanges the refresh token whenever there is    *)
(* one, the provider may replace it, and oauth_connections stores neither  *)
(* of the new tokens.                                                      *)
ProbeRefreshing(i) ==
    /\ i \in Oauth /\ credentials[i] = "keys" /\ refresh[i] = "good"
    /\ probes[i] < MaxProbes
    /\ refresh' \in {refresh, [refresh EXCEPT ![i] = "spent"]}
    /\ probes' = [probes EXCEPT ![i] = @ + 1]
    /\ probed' = [probed EXCEPT ![i] = Result(i, TRUE)]
    /\ UNCHANGED <<given, access, disturbed, passVars>>

(* The exchange fails, with or without effect, and the stored access token *)
(* is tried; or the probe's own request fails.                             *)
LoseProbe(i) ==
    /\ i \in Oauth /\ credentials[i] = "keys"
    /\ refresh' \in {refresh} \cup
         IF refresh[i] = "good" THEN {[refresh EXCEPT ![i] = "spent"]} ELSE {}
    /\ \E accepted \in BOOLEAN :
          /\ accepted => i \in access
          /\ probed' = [probed EXCEPT ![i] = Result(i, accepted)]
    /\ disturbed' = disturbed \cup {i}
    /\ UNCHANGED <<given, access, probes, passVars>>

(* Without an exchange the stored access token is tried.                   *)
ProbeStored(i) ==
    /\ i \in Oauth /\ credentials[i] = "keys" /\ refresh[i] # "good"
    /\ probed' = [probed EXCEPT ![i] = Result(i, i \in access)]
    /\ UNCHANGED <<given, access, refresh, probes, disturbed, passVars>>

CollectorsNext ==
    \/ Skip \/ CollectDemo \/ CollectNothing \/ AssumeNoRole \/ CollectLive
    \/ File \/ FailToFile \/ LoseCommit
    \/ \E i \in Integrations :
          \/ ExpireAccess(i) \/ EndRefresh(i)
          \/ ProbeRefreshing(i) \/ LoseProbe(i) \/ ProbeStored(i)

-----------------------------------------------------------------------------
Statuses == {"pass", "warn", "fail", "configured"}

CollectorsTypeOK ==
    /\ turn \in 1..(Len(connected) + 1)
    /\ items \in Seq(Statuses) /\ (items # <<>> => InTurn)
    /\ filed \in Seq([of : Integrations, status : Statuses])
    /\ recorded \in Nat /\ session \in {"usable", "broken"}
    /\ access \subseteq Integrations /\ refresh \in [Integrations -> {"none", "good", "spent"}]
    /\ probed \in [Integrations -> {"not yet", "live", "dead"}]
    /\ probes \in [Integrations -> 0..MaxProbes]

(* The number of rows of an integration among the first n.                 *)
RowsOf(rows, i, n) == Cardinality({m \in 1..n : rows[m].of = i})

(* A "pass" in the vault is of demo mode or of an integration that has     *)
(* answered.  The rows of an integration are the first items its collector *)
(* returned, all of them unless filing one failed or is still to come, and *)
(* the count differs only by lost answers of the database.                 *)
EvidenceTrue ==
    /\ \A n \in DOMAIN filed :
         LET i == filed[n].of
             k == RowsOf(filed, i, n)
         IN  /\ filed[n].status = "pass" => demo \/ i \in answered
             /\ k \in DOMAIN returned[i] /\ filed[n].status = returned[i][k]
    /\ \A i \in Integrations :
         \/ RowsOf(filed, i, Len(filed)) = Len(returned[i])
         \/ i \in unfiled
         \/ items # <<>> /\ i = Turn
    /\ recorded <= Len(filed) /\ (unfiled = {} => recorded = Len(filed))

(* A connection with a refresh token is reported dead only after an        *)
(* earlier probe has exchanged that token, the provider has ended it, or a *)
(* request of a probe failed.                                              *)
DeadMeansExchanged ==
    \A i \in Integrations :
        probed[i] = "dead" /\ refresh[i] # "none" => probes[i] > 0 \/ i \in disturbed
=============================================================================
