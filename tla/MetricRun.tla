------------------------------- MODULE MetricRun -------------------------------
(***************************************************************************)
(* The stages of run_pipeline_core between the thresholds and the history  *)
(* (see MetricPipeline): each metric is queried from the SIEM and computed *)
(* from the last batch of the answer, then each gets its ticket.  A value  *)
(* is the number of matching events, or Fixed for an average, which the    *)
(* engine does not read from the answer.                                   *)
(***************************************************************************)
EXTENDS Integers, Sequences

CONSTANTS
    Catalogs,    \* possible lists of definitions: [kind, suffix of the metric_id]
    Counts,      \* possible numbers of matching events
    Fixed,       \* what _compute_mttd and _compute_mttr return when there is any
    RedMin,      \* a value from here on is Red
    PageSize,    \* max_results_per_page
    MaxPolls,    \* polls of a Splunk job (30 in the code)
    MaxRuns      \* bound of the model: runs in a behaviour

VARIABLES
    siem,         \* which client
    unconfigured, \* the client's base_url or key is a placeholder
    jira,         \* the ITSM orchestrator has a URL, an e-mail and a token
    definitions,
    truth,        \* how many events the SIEM has for each metric
    earlier,      \* values of each metric in the history file, up to 3
    phase, polls, offset,
    values,       \* computed so far, with their origin
    keys,         \* ticket keys so far
    opened,       \* the tickets of Jira, by metric
    failed,       \* history: metrics of this run with a failed request
    runs          \* history: runs started

Metrics == DOMAIN definitions
Current == Len(values) + 1
Kind(i) == definitions[i].kind

(* A live Elastic answer to a query of size 0 has no hits: without         *)
(* aggregations there is no batch.                                         *)
Aggregates(k) == k \in {"mttd", "mttr", "fpr"}
Average(k) == k \in {"mttd", "mttr"}

(* The sizes of the three clients' invented answers.                       *)
ElasticMock(k) == IF Average(k) THEN 1 ELSE IF k = "fpr" THEN 10 ELSE 25
SplunkMock(k) == IF Average(k) THEN 1 ELSE IF k = "fpr" THEN 10 ELSE 15
SentinelMock(k) == IF Average(k) THEN 1 ELSE 12
Mock(k) ==
    CASE siem = "Elastic"  -> ElasticMock(k)
      [] siem = "Splunk"   -> SplunkMock(k)
      [] siem = "Sentinel" -> SentinelMock(k)

RunInit ==
    /\ siem \in {"Elastic", "Splunk", "Sentinel"}
    /\ unconfigured \in BOOLEAN /\ jira \in BOOLEAN
    /\ definitions \in Catalogs
    /\ truth \in [DOMAIN definitions -> Counts]
    /\ earlier \in {0, 3}
    /\ phase = "idle" /\ polls = 0 /\ offset = 0 /\ values = <<>> /\ keys = <<>>
    /\ opened = [i \in DOMAIN definitions |-> 0] /\ failed = {} /\ runs = 0

runGiven == <<siem, unconfigured, jira, definitions, truth>>
metricRunVars == <<runGiven, earlier, phase, polls, offset, values, keys, opened,
                   failed, runs>>

StartRun ==
    /\ phase \in {"idle", "done", "failed", "dead"} /\ runs < MaxRuns
    /\ phase' = IF definitions = <<>> THEN "tickets" ELSE "query"
    /\ runs' = runs + 1
    /\ values' = <<>> /\ keys' = <<>> /\ failed' = {}
    /\ UNCHANGED <<runGiven, earlier, polls, offset, opened>>

(* The process ends, by a signal or an exception in the later stages.      *)
Die ==
    /\ phase \in {"query", "poll", "pages", "tickets"}
    /\ phase' = "dead" /\ polls' = 0 /\ offset' = 0
    /\ UNCHANGED <<runGiven, earlier, values, keys, opened, failed, runs>>

-----------------------------------------------------------------------------
(* A value                                                                 *)

(* calculate_confidence: without events in the batch 90, else according to *)
(* two fields which only documents of Elastic have (in percent).           *)
Confidence(total, events) ==
    IF total = 0 \/ events = 0 THEN 90 ELSE IF siem = "Elastic" THEN 100 ELSE 0

(* Fault: an average is given also when nothing matches.                   *)
ValueAtLeast(total, events, origin) ==
    [value |-> IF Average(Kind(Current)) THEN Fixed ELSE total,
     confidence |-> Confidence(total, events), from |-> origin]

(* compute_metric of the last batch.                                       *)
Value(total, events, origin) ==
    [value |-> IF Average(Kind(Current)) /\ total > 0 THEN Fixed ELSE total,
     confidence |-> Confidence(total, events), from |-> origin]

Compute(total, events, origin) ==
    /\ phase' = IF Current = Len(definitions) THEN "tickets" ELSE "query"
    /\ polls' = 0 /\ offset' = 0
    /\ values' = Append(values, Value(total, events, origin))

Invent == Compute(Mock(Kind(Current)), Mock(Kind(Current)), "invented")

(* An exception that no client catches ends the run.                       *)
Abort ==
    /\ phase' = "failed" /\ polls' = 0 /\ offset' = 0
    /\ UNCHANGED values

CurrentFails == failed' = failed \cup {Current}
runRest == <<runGiven, earlier, keys, opened, runs>>

(* A placeholder in the settings.                                          *)
QueryPlaceholder ==
    /\ phase = "query" /\ unconfigured
    /\ Invent
    /\ UNCHANGED <<runRest, failed>>

(* ElasticClient._execute_search and what _paginate makes of the answer.   *)
(* Every exception, also of a wrong key, ends in the invented answer, so   *)
(* the retry decorator sees none.                                          *)
SearchElastic ==
    /\ phase = "query" /\ ~unconfigured /\ siem = "Elastic"
    /\ LET n == truth[Current] IN
       IF Aggregates(Kind(Current)) THEN Compute(n, 0, "siem") ELSE Compute(0, 0, "siem")
    /\ UNCHANGED <<runRest, failed>>

FailElastic ==
    /\ phase = "query" /\ ~unconfigured /\ siem = "Elastic"
    /\ Invent /\ CurrentFails
    /\ UNCHANGED runRest

(* SentinelClient: the token and the query.                                *)
QuerySentinel ==
    /\ phase = "query" /\ ~unconfigured /\ siem = "Sentinel"
    /\ Compute(truth[Current], truth[Current], "siem")
    /\ UNCHANGED <<runRest, failed>>

(* Rows that do not fit the schema raise outside the client.               *)
FailSentinel ==
    /\ phase = "query" /\ ~unconfigured /\ siem = "Sentinel"
    /\ Invent \/ Abort
    /\ CurrentFails
    /\ UNCHANGED runRest

(* SplunkClient: the creation of the job; an answer without sid raises.    *)
CreateJob ==
    /\ phase = "query" /\ ~unconfigured /\ siem = "Splunk"
    /\ phase' = "poll"
    /\ UNCHANGED <<runRest, polls, offset, values, failed>>

FailJob ==
    /\ phase = "query" /\ ~unconfigured /\ siem = "Splunk"
    /\ Invent \/ Abort
    /\ CurrentFails
    /\ UNCHANGED runRest

PollJob ==
    /\ phase = "poll"
    /\ \/ phase' = "pages" /\ UNCHANGED <<polls, offset, values, failed>>
       \/ /\ polls < MaxPolls - 1
          /\ polls' = polls + 1
          /\ UNCHANGED <<phase, offset, values, failed>>
       \/ polls = MaxPolls - 1 /\ Abort /\ CurrentFails
    /\ UNCHANGED runRest

(* A request for the status or for a page fails, or a page has a row that  *)
(* does not fit the schema.                                                *)
FailJobRequest ==
    /\ phase \in {"poll", "pages"}
    /\ Abort /\ CurrentFails
    /\ UNCHANGED runRest

(* A full page is followed by another request; total_count is the length   *)
(* of the page, and the last page that is not empty is computed.           *)
ReadPage ==
    /\ phase = "pages"
    /\ LET n == truth[Current] - offset IN
       IF n >= PageSize
         THEN offset' = offset + PageSize /\ UNCHANGED <<phase, polls, values>>
         ELSE LET last == IF n = 0 /\ offset > 0 THEN PageSize ELSE n
              IN Compute(last, last, "siem")
    /\ UNCHANGED <<runRest, failed>>

-----------------------------------------------------------------------------
(* Tickets                                                                 *)

Ticketed == Len(keys) + 1
None == [from |-> "none", number |-> 0]
Issued(i) == [from |-> "jira", number |-> <<i, opened[i] + 1>>]
(* The key of a failed dispatch ends in the last four characters of the    *)
(* metric_id, which are not its own.                                       *)
Invented(i) == [from |-> "invented", number |-> definitions[i].suffix]

Red(i) == values[i].value >= RedMin
(* From three earlier values on, compute_trend may forecast a breach.      *)
MayPredict == earlier >= 3

Name(key) ==
    /\ keys' = Append(keys, key)
    /\ UNCHANGED <<runGiven, earlier, phase, polls, offset, values, failed, runs>>

NoTicket ==
    /\ phase = "tickets" /\ Ticketed \in Metrics
    /\ ~Red(Ticketed)
    /\ Name(None) /\ UNCHANGED opened

(* _dispatch_ticket.                                                       *)
Dispatch ==
    /\ phase = "tickets" /\ Ticketed \in Metrics
    /\ Red(Ticketed) \/ MayPredict
    /\ jira
    /\ opened' = [opened EXCEPT ![Ticketed] = @ + 1]
    /\ Name(Issued(Ticketed))

DispatchNowhere ==
    /\ phase = "tickets" /\ Ticketed \in Metrics
    /\ Red(Ticketed) \/ MayPredict
    /\ ~jira
    /\ Name(Invented(Ticketed)) /\ UNCHANGED opened

(* Jira refuses, or opens the ticket and the answer is lost.               *)
LoseDispatch ==
    /\ phase = "tickets" /\ Ticketed \in Metrics
    /\ Red(Ticketed) \/ MayPredict
    /\ jira
    /\ \/ UNCHANGED opened
       \/ opened' = [opened EXCEPT ![Ticketed] = @ + 1]
    /\ failed' = failed \cup {Ticketed}
    /\ keys' = Append(keys, Invented(Ticketed))
    /\ UNCHANGED <<runGiven, earlier, phase, polls, offset, values, runs>>

(* The history is written after the tickets.                               *)
EndRun ==
    /\ phase = "tickets" /\ Len(keys) = Len(definitions)
    /\ phase' = "done"
    /\ earlier' = IF earlier < 3 THEN earlier + 1 ELSE 3
    /\ UNCHANGED <<runGiven, polls, offset, values, keys, opened, failed, runs>>

RunNext ==
    \/ StartRun \/ Die \/ QueryPlaceholder \/ SearchElastic \/ FailElastic
    \/ QuerySentinel \/ FailSentinel \/ CreateJob \/ FailJob \/ PollJob
    \/ FailJobRequest \/ ReadPage
    \/ NoTicket \/ Dispatch \/ DispatchNowhere \/ LoseDispatch \/ EndRun

-----------------------------------------------------------------------------
RunTypeOK ==
    /\ phase \in {"idle", "query", "poll", "pages", "tickets", "done", "failed", "dead"}
    /\ polls \in 0..(MaxPolls - 1) /\ offset \in Nat /\ runs \in 0..MaxRuns
    /\ earlier \in 0..3
    /\ values \in Seq([value : Nat, confidence : {0, 90, 100}, from : {"siem", "invented"}])
    /\ Len(values) <= Len(definitions) /\ Len(keys) <= Len(values)
    /\ opened \in [Metrics -> 0..MaxRuns] /\ failed \subseteq Metrics

(* What a metric should be.                                                *)
Right(i) == IF Average(Kind(i)) /\ truth[i] > 0 THEN Fixed ELSE truth[i]

(* An invented value comes from a placeholder or a failed request.  A      *)
(* value of the SIEM is right, except for a query without aggregations in  *)
(* Elastic, which is always 0, and for more than one page in Splunk.  Full *)
(* confidence is given to invented values only.                            *)
ValuesTrue ==
    \A i \in DOMAIN values :
        /\ values[i].from = "invented" => unconfigured \/ i \in failed
        /\ values[i].from = "siem" /\ values[i].value # Right(i) =>
             \/ siem = "Elastic" /\ ~Aggregates(Kind(i)) /\ values[i].value = 0
             \/ siem = "Splunk" /\ truth[i] > PageSize
        /\ values[i].confidence = 100 => values[i].from = "invented"

(* A run ends without result only after a failure.  A metric gets at most  *)
(* one ticket in a run, an invented key only without Jira or after a       *)
(* failure, and what Jira issued is told apart.                            *)
KeysTrue ==
    /\ phase = "failed" => failed # {}
    /\ \A i \in Metrics : opened[i] <= runs
    /\ \A i \in DOMAIN keys :
         /\ keys[i].from = "invented" => ~jira \/ i \in failed
         /\ keys[i].from = "jira" => opened[i] > 0
         /\ \A j \in DOMAIN keys :
              i # j /\ keys[i] = keys[j] => keys[i].from # "jira"
=============================================================================
