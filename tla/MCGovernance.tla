------------------------------ MODULE MCGovernance ------------------------------
(* Two requests everywhere, three logins, two servers.                     *)
EXTENDS Governance, TLC

CONSTANTS aws, okta, splunk, h1, h2, h3, t1, t2, ann, bob, s1, s2

MCProviders == {aws, okta, splunk}
MCSiems == {splunk}
MCOauth == {aws, okta}
MCRequests == {h1, h2}
MCLogins == {h1, h2, h3}
MCTasks == {t1, t2}
MCUsers == {ann, bob}
MCServers == {s1, s2}

(* Requests are only ever told apart by what they carry.                   *)
MCSymmetry == Permutations(MCRequests)

(* Each collector alone, and two after an integration without one.         *)
MCOrders ==
    {<<i>> : i \in {"aws", "azure", "gcp", "github", "google_workspace", "jamf",
                    "jira", "kandji", "servicenow"}}
    \cup {<<"splunk", "okta", "aws">>}

(* Kinds of rules/metric_definitions.yaml; two share a suffix.  A file     *)
(* without metrics is read as an empty list.                               *)
Metric(kind, suffix) == [kind |-> kind, suffix |-> suffix]
MCCatalogs == {<<Metric("mttd", 1), Metric("other", 1)>>, <<Metric("fpr", 3)>>, <<>>}
MCCounts == {0, 1, 3, 4}

(* What older databases may lack, and what each way of starting adds.      *)
MCEnsured == {"user", "tenant", "integration", "vendor", "training", "trust"}
MCMigrated == {"user", "tenant", "integration"}
MCColumns == MCEnsured \cup {"other"}
=============================================================================
