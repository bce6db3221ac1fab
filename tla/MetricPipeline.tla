----------------------------- MODULE MetricPipeline -----------------------------
(***************************************************************************)
(* run_pipeline_core and the two files it shares with every other process  *)
(* of the installation (the API server, the CLI, a worker): the threshold  *)
(* state, rewritten in place under a file lock, and the metrics history,   *)
(* rewritten in place without one.  A process may die at any step; a file  *)
(* it had truncated stays torn.                                            *)
(*                                                                         *)
(* A run computes one metric; the other metrics of the configuration only  *)
(* repeat it.  A threshold configuration stands for its own hash.          *)
(***************************************************************************)
EXTENDS Integers, Sequences

CONSTANTS
    Procs,            \* processes that run the pipeline or the CLI
    Configs,          \* threshold configurations an operator may install
    Initial,          \* "initial_empty_hash"
    Threshold,        \* the RAGThreshold of each configuration
    Values,           \* values of the metric
    HistoryLimit,     \* the 100 of new_history[-100:]
    MaxRuns, MaxEdits, MaxCrashes     \* bounds of the model

NoHash == "null"      \* previous_threshold_hash is null

ASSUME PipelineAssumption ==
    /\ Initial \notin Configs /\ NoHash \notin Configs \cup {Initial}
    /\ Threshold \in [Configs ->
         [greenMin: Int, greenMax: Int, amberMin: Int, amberMax: Int,
          redMin: Int, redMax: Int, interval: {"[min, max)", "(min, max]",
                                              "[min, max]"}]]
    /\ Values \subseteq Int
    /\ HistoryLimit \in Nat \ {0}
    /\ {MaxRuns, MaxEdits, MaxCrashes} \subseteq Nat

VARIABLES
    config,      \* the installed threshold_config.yaml
    state,       \* threshold_state.json, NoFile while there is none
    lock,        \* holders of the exclusive file lock
    saved,       \* metrics_history.json: runs, oldest first
    torn,        \* the files that are truncated
    proc,        \* local state of each process
    result,      \* history: classifications of fresh data by unedited runs
    started, edits, crashes,          \* history: counters for the bounds
    clean,       \* history: saved runs with no overlap and no crash since
    overlapped,  \* history: two processes were at work at a time
    edited       \* history: runs whose file was edited before they read it

files == <<state, lock, saved, torn>>
history == <<result, started, edits, crashes, clean, overlapped, edited>>
vars == <<config, files, proc, history>>

Hashes == Configs \cup {Initial}
States == [active: Hashes, previous: Hashes \cup {NoHash}]
NoFile == [active |-> Initial, previous |-> Initial]    \* never written
Fresh == [active |-> Initial, previous |-> NoHash]      \* _ensure_state_exists

Phases == {"idle", "create", "load", "activate", "write", "reload", "read",
           "past", "compute", "truncate", "save", "rollback"}

Idle == [pc |-> "idle", run |-> 0, hash |-> Initial, new |-> Fresh,
         next |-> "idle", past |-> <<>>]

Init ==
    /\ config \in Configs
    /\ state = NoFile
    /\ lock = {}
    /\ saved = <<>>
    /\ torn = {}
    /\ proc = [p \in Procs |-> Idle]
    /\ result = {}
    /\ started = 0 /\ edits = 0 /\ crashes = 0
    /\ clean = {} /\ edited = {}
    /\ overlapped = FALSE

Running(p) == proc[p].pc # "idle"
GoTo(p, pc) == proc' = [proc EXCEPT ![p].pc = pc]

-----------------------------------------------------------------------------
(* Classification                                                          *)

(* _apply_boundary_semantics: green first, then amber, then red; a value   *)
(* outside all of them, or a closed interval, is amber.                    *)
BoundarySemantics(v, t) ==
    LET In(lo, hi) == IF t.interval = "[min, max)" THEN lo <= v /\ v < hi
                                                   ELSE lo < v /\ v <= hi
        Red == IF t.interval = "[min, max)" THEN v >= t.redMin ELSE v <= t.redMax
    IN
    IF t.interval = "[min, max]" THEN "Amber"
    ELSE IF In(t.greenMin, t.greenMax) THEN "Green"
    ELSE IF In(t.amberMin, t.amberMax) THEN "Amber"
    ELSE IF Red THEN "Red" ELSE "Amber"

-----------------------------------------------------------------------------
(* The threshold state                                                     *)

(* A process starts: history notes that it is not alone.                   *)
Enter(p, first) ==
    /\ ~ Running(p)
    /\ proc' = [proc EXCEPT ![p] =
                  [first EXCEPT !.pc = IF state = NoFile /\ "state" \notin torn
                                        THEN "create" ELSE first.next]]
    /\ IF \E q \in Procs : Running(q)
         THEN overlapped' = TRUE /\ clean' = {}
         ELSE UNCHANGED <<overlapped, clean>>

(* A fault: results are stamped with the hash the state calls active.      *)
StartRunStampedByState(p) ==
    /\ started < MaxRuns /\ started' = started + 1
    /\ Enter(p, [Idle EXCEPT !.run = started + 1, !.next = "load",
                    !.hash = IF state.active \in Configs THEN state.active
                                                         ELSE config])
    /\ UNCHANGED <<config, files, result, edits, crashes, edited>>

(* run_pipeline_core: the manager creates a missing state file, then the   *)
(* configuration is hashed.                                                *)
StartRun(p) ==
    /\ started < MaxRuns /\ started' = started + 1
    /\ Enter(p, [Idle EXCEPT !.run = started + 1, !.hash = config,
                             !.next = "load"])
    /\ UNCHANGED <<config, files, result, edits, crashes, edited>>

(* validate --revert                                                       *)
StartRollback(p) ==
    /\ Enter(p, [Idle EXCEPT !.next = "rollback"])
    /\ UNCHANGED <<config, files, result, started, edits, crashes, edited>>

(* open(state_path, "w") under the lock, for the content to be written.    *)
Truncate(p, new, next) ==
    /\ lock = {} /\ lock' = {p}
    /\ torn' = torn \cup {"state"}
    /\ proc' = [proc EXCEPT ![p].pc = "write", ![p].new = new, ![p].next = next]
    /\ UNCHANGED <<config, state, saved, history>>

(* _ensure_state_exists does not look again once it has the lock.          *)
CreateState(p) ==
    /\ proc[p].pc = "create"
    /\ Truncate(p, Fresh, proc[p].next)

Raise(p) == proc' = [proc EXCEPT ![p] = Idle]

(* load: a torn file raises ConfigCorruptException.                        *)
LoadState(p) ==
    /\ proc[p].pc \in {"load", "reload"} /\ lock = {}
    /\ IF "state" \in torn THEN Raise(p)
       ELSE GoTo(p, IF proc[p].pc = "load" /\ state.active # proc[p].hash
                      THEN "activate" ELSE "read")
    /\ UNCHANGED <<config, files, history>>

(* A fault: the state is rewritten without the lock.                       *)
ActivateUnlocked(p) ==
    /\ proc[p].pc = "activate"
    /\ torn' = torn \cup {"state"}
    /\ proc' = [proc EXCEPT ![p].pc = "write", ![p].next = "reload",
                           ![p].new = [active |-> proc[p].hash,
                                       previous |-> state.active]]
    /\ UNCHANGED <<config, state, lock, saved, history>>

(* A fault: the new hash is stored and then read as the previous one.      *)
ActivateSwapped(p) ==
    /\ proc[p].pc = "activate"
    /\ Truncate(p, [active |-> proc[p].hash, previous |-> proc[p].hash],
                "reload")

(* activate: previous is what the file says is active under the lock; a    *)
(* torn file says nothing, and is a file again afterwards.                 *)
Activate(p) ==
    /\ proc[p].pc = "activate"
    /\ Truncate(p, [active |-> proc[p].hash,
                    previous |-> IF "state" \in torn THEN NoHash
                                                     ELSE state.active], "reload")

(* rollback: refused without a previous hash; the two change places.       *)
Rollback(p) ==
    /\ proc[p].pc = "rollback" /\ lock = {}
    /\ IF "state" \in torn \/ state.previous = NoHash
         THEN Raise(p) /\ UNCHANGED <<config, files, history>>
         ELSE Truncate(p, [active |-> state.previous, previous |-> state.active],
                       "idle")

WriteState(p) ==
    /\ proc[p].pc = "write"
    /\ state' = proc[p].new
    /\ torn' = torn \ {"state"} /\ lock' = lock \ {p}
    /\ proc' = [proc EXCEPT ![p] = IF proc[p].next = "idle" THEN Idle
                                   ELSE [@ EXCEPT !.pc = proc[p].next, !.new = Fresh]]
    /\ UNCHANGED <<config, saved, history>>

-----------------------------------------------------------------------------
(* The run                                                                 *)

(* The configuration is read a second time, for the thresholds themselves. *)
ReadThresholds(p) ==
    /\ proc[p].pc = "read"
    /\ proc' = [proc EXCEPT ![p].pc = "past",
                           ![p].new = [active |-> config, previous |-> NoHash]]
    /\ UNCHANGED <<config, files, history>>

(* A history file that cannot be parsed is taken for an empty one.         *)
ReadHistory(p) ==
    /\ proc[p].pc = "past"
    /\ proc' = [proc EXCEPT ![p].pc = "compute",
                           ![p].past = IF "history" \in torn THEN <<>> ELSE saved]
    /\ UNCHANGED <<config, files, history>>

(* The queries, the classification and the outputs, or an exception.       *)
Compute(p) ==
    LET used == proc[p].new.active IN
    /\ proc[p].pc = "compute"
    /\ \/ /\ \/ UNCHANGED result     \* stale data: the RAG status says so
             \/ /\ proc[p].run \notin edited
                /\ \E v \in Values :
                      result' = result \cup
                         {[value |-> v, stamp |-> proc[p].hash,
                           rag |-> BoundarySemantics(v, Threshold[used])]}
          /\ GoTo(p, "truncate")
       \/ Raise(p) /\ UNCHANGED result
    /\ UNCHANGED <<config, files, started, edits, crashes, clean, overlapped,
                   edited>>

(* open(history_file, "w")                                                 *)
TruncateHistory(p) ==
    /\ proc[p].pc = "truncate"
    /\ torn' = torn \cup {"history"}
    /\ GoTo(p, "save")
    /\ UNCHANGED <<config, state, lock, saved, history>>

Save(p, entries) ==
    /\ proc[p].pc = "save"
    /\ saved' = entries
    /\ torn' = torn \ {"history"}
    /\ proc' = [proc EXCEPT ![p] = Idle]
    /\ clean' = IF \E q \in Procs \ {p} : Running(q) THEN clean
                                              ELSE clean \cup {proc[p].run}
    /\ UNCHANGED <<config, state, lock, result, started, edits, crashes,
                   overlapped, edited>>

All(p) == Append(proc[p].past, proc[p].run)

(* Two faults: the history is not cut, or its oldest entries are kept.     *)
SaveAll(p) == Save(p, All(p))
SaveOldest(p) ==
    Save(p, SelectSeq(All(p), LAMBDA r : r <= HistoryLimit))

(* The values read at the start and the new ones, the last HistoryLimit.   *)
SaveHistory(p) ==
    LET n == Len(All(p)) IN
    Save(p, SubSeq(All(p), IF n > HistoryLimit THEN n - HistoryLimit + 1 ELSE 1, n))

(* p has hashed the configuration and not read its thresholds yet.         *)
Hashed(p) ==
    proc[p].pc \in {"create", "load", "activate", "write", "reload", "read"}

(* An operator installs another configuration.                             *)
EditConfig(c) ==
    /\ edits < MaxEdits /\ c # config
    /\ edits' = edits + 1 /\ config' = c
    /\ edited' = edited \cup {proc[p].run : p \in {q \in Procs : Hashed(q)}}
    /\ UNCHANGED <<files, proc, result, started, crashes, clean, overlapped>>

(* The process dies: the operating system releases its lock, a truncated   *)
(* file stays as it is.                                                    *)
Crash(p) ==
    /\ Running(p) /\ crashes < MaxCrashes
    /\ crashes' = crashes + 1
    /\ lock' = lock \ {p}
    /\ proc' = [proc EXCEPT ![p] = Idle]
    /\ clean' = {}
    /\ UNCHANGED <<config, state, saved, torn, result, started, edits,
                   overlapped, edited>>

Step(p) ==
    \/ CreateState(p) \/ LoadState(p) \/ Activate(p) \/ WriteState(p)
    \/ Rollback(p) \/ ReadThresholds(p) \/ ReadHistory(p) \/ Compute(p)
    \/ TruncateHistory(p) \/ SaveHistory(p)

Next ==
    \/ \E p \in Procs : StartRun(p) \/ StartRollback(p) \/ Step(p) \/ Crash(p)
    \/ \E c \in Configs : EditConfig(c)

Spec == Init /\ [][Next]_vars

-----------------------------------------------------------------------------
(* Properties                                                              *)

(* The types of the files and of the processes.                            *)
TypeOK ==
    /\ config \in Configs
    /\ state \in States
    /\ lock \subseteq Procs
    /\ saved \in Seq(1..MaxRuns) /\ Len(saved) <= HistoryLimit
    /\ torn \subseteq {"state", "history"}
    /\ proc \in [Procs -> [pc: Phases, run: 0..MaxRuns, hash: Hashes,
                           new: States, next: Phases, past: Seq(1..MaxRuns)]]
    /\ result \subseteq [value: Values, rag: {"Green", "Amber", "Red"},
                         stamp: Configs]

(* No process that is still alive ever leaves the threshold state torn, or *)
(* finds it torn under the lock: a state that load refuses (and that every *)
(* later run then fails on) takes a crash between truncation and write.    *)
StateFileIntact ==
    "state" \in torn =>
        crashes > 0 \/ \E p \in Procs : lock = {p} /\ proc[p].pc = "write"

(* "Guaranteed rollback to previous known-good config": the previous hash  *)
(* differs from the active one, so that a rollback changes something,      *)
(* unless two processes were at work at a time and both activated.         *)
RollbackChanges ==
    state.previous = state.active => overlapped \/ state = NoFile

(* The values of a run stay in the history until HistoryLimit later runs   *)
(* have pushed them out, as long as no two processes overlap and none dies.*)
HistoryKept ==
    \A r \in clean :
        \/ \E i \in DOMAIN saved : saved[i] = r
        \/ Len(saved) = HistoryLimit /\ \A i \in DOMAIN saved : saved[i] > r

Worse == [Green |-> 0, Amber |-> 1, Red |-> 2]

(* Beyond the far end of the green band: better than the best band says,   *)
(* or not expected at all.                                                 *)
Beyond(v, t) ==
    \/ t.interval = "[min, max)" /\ v < t.greenMin
    \/ t.interval = "(min, max]" /\ v > t.greenMax

(* The value v is at least as far from the green band of t as w.           *)
Further(v, w, t) ==
    \/ t.interval = "[min, max)" /\ v >= w /\ ~ Beyond(w, t)
    \/ t.interval = "(min, max]" /\ v <= w /\ ~ Beyond(w, t)

(* The hash a result is stamped with determines its classification: two    *)
(* results with the same stamp and value are rated alike, and with a       *)
(* half-open interval the one further from green is never rated better,    *)
(* unless the file was edited between being hashed and being read (result  *)
(* has no such run).  A value beyond the green band is amber, so that more *)
(* than the band allows for is rated worse than less; and with a closed    *)
(* interval every value is amber.                                          *)
StampDeterminesRag ==
    \A x, y \in result :
        LET t == Threshold[x.stamp] IN
        x.stamp = y.stamp =>
            /\ x.value = y.value => x.rag = y.rag
            /\ Further(x.value, y.value, t) => Worse[x.rag] >= Worse[y.rag]
            /\ Beyond(x.value, t) \/ t.interval = "[min, max]" => x.rag = "Amber"
=============================================================================
