-------------------------- MODULE MetricPipelineProofs --------------------------
(***************************************************************************)
(* Theorems about MetricPipeline, for any number of processes, runs, edits *)
(* and crashes, any configurations and any length of the history.          *)
(***************************************************************************)
EXTENDS MetricPipeline, SequenceTheorems, TLAPS

Process == [pc: Phases, run: 0..MaxRuns, hash: Hashes, new: States,
            next: Phases, past: Seq(1..MaxRuns)]

RunPhases == {"load", "activate", "reload", "read", "past", "compute",
              "truncate", "save"}

(* A process at work on a run, and not on a rollback.                      *)
OfRun(e) == \/ e.pc \in RunPhases
            \/ e.pc \in {"create", "write"} /\ e.next \in {"load", "reload"}

ProcessOK(e) ==
    /\ e.pc = "create" => e.next \in {"load", "rollback"}
    /\ e.pc = "write" => e.next \in {"load", "reload", "rollback", "idle"}
    /\ OfRun(e) => e.run \in 1..MaxRuns /\ e.hash \in Configs
    /\ e.pc \in {"past", "compute"} => e.new.active \in Configs
    /\ Len(e.past) <= HistoryLimit

(* Only a writer of the state holds the lock.                              *)
PipelineInv ==
    /\ TypeOK
    /\ started \in 0..MaxRuns /\ crashes \in Nat
    /\ \A p \in Procs : ProcessOK(proc[p])
    /\ \A p \in Procs : proc[p].pc = "write" => lock = {p}

-----------------------------------------------------------------------------
(* How the actions move a process                                          *)

LEMMA IdleIsProcess ==
  /\ Idle \in Process /\ Idle.pc = "idle" /\ Idle.run = 0
  /\ Idle.next = "idle" /\ Idle.hash = Initial /\ Idle.past = <<>>
  /\ ~ OfRun(Idle) /\ ProcessOK(Idle)
<1>1. MaxRuns \in Nat
  BY PipelineAssumption
<1>2. <<>> \in Seq(1..MaxRuns) /\ 0 \in 0..MaxRuns
  BY <1>1, EmptySeq
<1>3. Fresh \in States /\ Initial \in Hashes
  BY DEF Fresh, States, Hashes
<1>4. Idle \in Process /\ Idle.pc = "idle" /\ Idle.run = 0
      /\ Idle.next = "idle" /\ Idle.hash = Initial /\ Idle.past = <<>>
  BY <1>2, <1>3 DEF Idle, Process, Phases
<1>5. Len(Idle.past) <= HistoryLimit
  <2>1. Len(<<>>) = 0
    BY EmptySeq
  <2>2. HistoryLimit \in Nat
    BY PipelineAssumption
  <2>3. Len(Idle.past) = 0
    BY <1>4, <2>1, Zenon
  <2> QED
    BY <2>2, <2>3
<1> QED
  BY <1>4, <1>5 DEF OfRun, RunPhases, ProcessOK

LEMMA ProcessMoves ==
  ASSUME PipelineInv, NEW p \in Procs, NEW e \in Process,
         proc' = [proc EXCEPT ![p] = e]
  PROVE  /\ proc' \in [Procs -> Process]
         /\ proc'[p] = e
         /\ \A q \in Procs \ {p} : proc'[q] = proc[q]
  BY DEF PipelineInv, TypeOK, Process

LEMMA GoToMoves ==
  ASSUME PipelineInv, NEW p \in Procs, NEW pc \in Phases, GoTo(p, pc)
  PROVE  /\ proc' \in [Procs -> Process]
         /\ proc'[p] = [proc[p] EXCEPT !.pc = pc]
         /\ proc'[p].pc = pc /\ proc'[p].run = proc[p].run
         /\ proc'[p].hash = proc[p].hash /\ proc'[p].new = proc[p].new
         /\ proc'[p].next = proc[p].next /\ proc'[p].past = proc[p].past
         /\ \A q \in Procs \ {p} : proc'[q] = proc[q]
<1>1. proc \in [Procs -> Process]
  BY DEF PipelineInv, TypeOK, Process
<1>2. proc' = [proc EXCEPT ![p] = [proc[p] EXCEPT !.pc = pc]]
  BY DEF GoTo
<1>3. [proc[p] EXCEPT !.pc = pc] \in Process
  BY <1>1 DEF Process
<1> QED
  BY <1>1, <1>2, <1>3 DEF Process

(* The process as it is while it rewrites the state.                       *)
LEMMA TruncateMoves ==
  ASSUME PipelineInv, NEW p \in Procs, NEW new \in States, NEW next \in Phases,
         Truncate(p, new, next)
  PROVE  /\ proc' \in [Procs -> Process]
         /\ proc'[p].pc = "write" /\ proc'[p].run = proc[p].run
         /\ proc'[p].hash = proc[p].hash /\ proc'[p].new = new
         /\ proc'[p].next = next /\ proc'[p].past = proc[p].past
         /\ \A q \in Procs \ {p} : proc'[q] = proc[q]
         /\ lock = {} /\ lock' = {p} /\ torn' = torn \cup {"state"}
         /\ UNCHANGED <<config, state, saved, history>>
<1> DEFINE e == [proc[p] EXCEPT !.pc = "write", !.new = new, !.next = next]
<1>1. proc \in [Procs -> Process]
  BY DEF PipelineInv, TypeOK, Process
<1>2. proc' = [proc EXCEPT ![p] = e]
  BY <1>1 DEF Truncate, Process
<1>3. /\ e \in Process /\ e.pc = "write" /\ e.run = proc[p].run
      /\ e.hash = proc[p].hash /\ e.new = new /\ e.next = next
      /\ e.past = proc[p].past
  BY <1>1 DEF Process, Phases
<1> HIDE DEF e
<1> QED
  BY <1>2, <1>3, ProcessMoves DEF Truncate

(* A process that starts, at the creation of a missing state or after it.  *)
LEMMA EnterMoves ==
  ASSUME PipelineInv, NEW p \in Procs, NEW first \in Process, Enter(p, first)
  PROVE  /\ proc' \in [Procs -> Process]
         /\ \/ proc'[p].pc = "create" /\ state = NoFile /\ "state" \notin torn
            \/ /\ proc'[p].pc = first.next
               /\ state # NoFile \/ "state" \in torn
         /\ proc'[p].run = first.run /\ proc'[p].hash = first.hash
         /\ proc'[p].new = first.new /\ proc'[p].next = first.next
         /\ proc'[p].past = first.past
         /\ \A q \in Procs \ {p} : proc'[q] = proc[q]
         /\ proc[p].pc = "idle"
         /\ \/ overlapped' = TRUE /\ clean' = {}
            \/ /\ \A q \in Procs : proc[q].pc = "idle"
               /\ UNCHANGED <<overlapped, clean>>
<1> DEFINE pc == IF state = NoFile /\ "state" \notin torn
                   THEN "create" ELSE first.next
           e == [first EXCEPT !.pc = pc]
<1>1. pc \in Phases
  BY DEF Process, Phases
<1> HIDE DEF pc
<1>2. /\ e \in Process /\ e.pc = pc /\ e.run = first.run
      /\ e.hash = first.hash /\ e.new = first.new /\ e.next = first.next
      /\ e.past = first.past
  BY <1>1 DEF Process
<1>3. proc' = [proc EXCEPT ![p] = e]
  BY DEF Enter, pc
<1> HIDE DEF e
<1>4. \/ pc = "create" /\ state = NoFile /\ "state" \notin torn
      \/ pc = first.next /\ (state # NoFile \/ "state" \in torn)
  BY DEF pc
<1>5. /\ proc[p].pc = "idle"
      /\ \/ overlapped' = TRUE /\ clean' = {}
         \/ /\ \A q \in Procs : proc[q].pc = "idle"
            /\ UNCHANGED <<overlapped, clean>>
  BY DEF Enter, Running
<1> QED
  BY <1>2, <1>3, <1>4, <1>5, ProcessMoves

LEMMA StartRunMoves ==
  ASSUME PipelineInv, NEW p \in Procs, StartRun(p)
  PROVE  /\ proc' \in [Procs -> Process]
         /\ \/ proc'[p].pc = "create" /\ state = NoFile /\ "state" \notin torn
            \/ proc'[p].pc = "load"
         /\ proc'[p].run = started + 1 /\ started + 1 \in 1..MaxRuns
         /\ proc'[p].hash = config /\ proc'[p].next = "load"
         /\ proc'[p].past = Idle.past
         /\ \A q \in Procs \ {p} : proc'[q] = proc[q]
         /\ proc[p].pc = "idle"
         /\ \/ overlapped' = TRUE /\ clean' = {}
            \/ /\ \A q \in Procs : proc[q].pc = "idle"
               /\ UNCHANGED <<overlapped, clean>>
         /\ started' = started + 1
         /\ UNCHANGED <<config, files, result, edits, crashes, edited>>
<1> DEFINE e == [Idle EXCEPT !.run = started + 1, !.hash = config,
                             !.next = "load"]
<1>0. MaxRuns \in Nat
  BY PipelineAssumption
<1>1. /\ started + 1 \in 1..MaxRuns /\ started + 1 \in 0..MaxRuns
      /\ config \in Configs /\ config \in Hashes
  BY <1>0 DEF StartRun, PipelineInv, TypeOK, Hashes
<1>2. /\ e \in Process /\ e.run = started + 1 /\ e.hash = config
      /\ e.next = "load" /\ e.past = Idle.past
  BY <1>1, IdleIsProcess DEF Process, Phases
<1>3. Enter(p, e)
  BY DEF StartRun
<1> HIDE DEF e
<1> QED
  BY <1>1, <1>2, <1>3, EnterMoves DEF StartRun

LEMMA StartRollbackMoves ==
  ASSUME PipelineInv, NEW p \in Procs, StartRollback(p)
  PROVE  /\ proc' \in [Procs -> Process]
         /\ \/ proc'[p].pc = "create" /\ state = NoFile /\ "state" \notin torn
            \/ /\ proc'[p].pc = "rollback"
               /\ state # NoFile \/ "state" \in torn
         /\ proc'[p].next = "rollback" /\ proc'[p].run = 0
         /\ proc'[p].past = Idle.past
         /\ \A q \in Procs \ {p} : proc'[q] = proc[q]
         /\ proc[p].pc = "idle"
         /\ \/ overlapped' = TRUE /\ clean' = {}
            \/ /\ \A q \in Procs : proc[q].pc = "idle"
               /\ UNCHANGED <<overlapped, clean>>
         /\ UNCHANGED <<config, files, result, started, edits, crashes, edited>>
<1> DEFINE e == [Idle EXCEPT !.next = "rollback"]
<1>1. /\ e \in Process /\ e.run = 0 /\ e.next = "rollback"
      /\ e.past = Idle.past
  BY IdleIsProcess DEF Process, Phases
<1>2. Enter(p, e)
  BY DEF StartRollback
<1> HIDE DEF e
<1> QED
  BY <1>1, <1>2, EnterMoves DEF StartRollback

(* The three rewrites of the state and what each writes.                   *)
LEMMA RewritesMove ==
  ASSUME PipelineInv, NEW p \in Procs,
         \/ CreateState(p) \/ Activate(p)
         \/ Rollback(p) /\ proc' # [proc EXCEPT ![p] = Idle]
  PROVE  \E new \in States, next \in {"idle", "load", "reload", "rollback"} :
            /\ Truncate(p, new, next)
            /\ \/ proc[p].pc = "create" /\ new = Fresh /\ next = proc[p].next
               \/ /\ proc[p].pc = "activate" /\ next = "reload"
                  /\ new.active = proc[p].hash
                  /\ new.previous \in {NoHash, state.active}
               \/ /\ proc[p].pc = "rollback" /\ next = "idle"
                  /\ "state" \notin torn
                  /\ new.active = state.previous /\ new.previous = state.active
<1>0. state \in States /\ proc[p] \in Process /\ ProcessOK(proc[p])
  BY DEF PipelineInv, TypeOK, Process
<1>1. CASE CreateState(p)
  <2>1. Fresh \in States
    BY DEF Fresh, States, Hashes
  <2> QED
    BY <1>0, <1>1, <2>1 DEF CreateState, ProcessOK
<1>2. CASE Activate(p)
  <2> DEFINE new == [active |-> proc[p].hash,
                     previous |-> IF "state" \in torn THEN NoHash
                                                      ELSE state.active]
  <2>1. /\ new \in States /\ new.active = proc[p].hash
        /\ new.previous \in {NoHash, state.active}
    BY <1>0 DEF States, Process
  <2>2. Truncate(p, new, "reload") /\ proc[p].pc = "activate"
    BY <1>2 DEF Activate
  <2> HIDE DEF new
  <2> QED
    BY <2>1, <2>2
<1>3. CASE Rollback(p) /\ proc' # [proc EXCEPT ![p] = Idle]
  <2> DEFINE new == [active |-> state.previous, previous |-> state.active]
  <2>1. /\ proc[p].pc = "rollback" /\ Truncate(p, new, "idle")
        /\ "state" \notin torn /\ state.previous # NoHash
    BY <1>3 DEF Rollback, Raise
  <2>2. new \in States /\ new.active = state.previous
        /\ new.previous = state.active
    BY <1>0, <2>1 DEF States
  <2> HIDE DEF new
  <2> QED
    BY <2>1, <2>2
<1> QED
  BY <1>1, <1>2, <1>3

LEMMA WriteStateMoves ==
  ASSUME PipelineInv, NEW p \in Procs, WriteState(p)
  PROVE  /\ proc' \in [Procs -> Process]
         /\ \/ proc[p].next = "idle" /\ proc'[p] = Idle
            \/ /\ proc[p].next \in {"load", "reload", "rollback"}
               /\ proc'[p].pc = proc[p].next /\ proc'[p].run = proc[p].run
               /\ proc'[p].hash = proc[p].hash /\ proc'[p].next = proc[p].next
               /\ proc'[p].past = proc[p].past
         /\ \A q \in Procs \ {p} : proc'[q] = proc[q]
         /\ proc[p].pc = "write"
         /\ state' = proc[p].new /\ lock' = {} /\ torn' = torn \ {"state"}
         /\ UNCHANGED <<config, saved, history>>
<1>0. proc[p] \in Process /\ ProcessOK(proc[p]) /\ proc[p].pc = "write"
      /\ lock = {p}
  BY DEF PipelineInv, TypeOK, Process, WriteState
<1>1. /\ state' = proc[p].new /\ lock' = {} /\ torn' = torn \ {"state"}
      /\ UNCHANGED <<config, saved, history>>
  BY <1>0 DEF WriteState
<1>2. CASE proc[p].next = "idle"
  <2>1. proc' = [proc EXCEPT ![p] = Idle]
    BY <1>2 DEF WriteState
  <2> QED
    BY <1>0, <1>1, <1>2, <2>1, IdleIsProcess, ProcessMoves
<1>3. CASE proc[p].next # "idle"
  <2> DEFINE e == [proc[p] EXCEPT !.pc = proc[p].next, !.new = Fresh]
  <2>1. Fresh \in States
    BY DEF Fresh, States, Hashes
  <2>2. /\ e \in Process /\ e.pc = proc[p].next /\ e.run = proc[p].run
        /\ e.hash = proc[p].hash /\ e.next = proc[p].next
        /\ e.past = proc[p].past
    BY <1>0, <2>1 DEF Process
  <2>3. proc' = [proc EXCEPT ![p] = e]
    BY <1>3, <1>0 DEF WriteState, PipelineInv, TypeOK
  <2>4. proc[p].next \in {"load", "reload", "rollback"}
    BY <1>0, <1>3 DEF ProcessOK
  <2> HIDE DEF e
  <2> QED
    BY <1>0, <1>1, <2>2, <2>3, <2>4, ProcessMoves
<1> QED
  BY <1>2, <1>3

LEMMA ReadThresholdsMoves ==
  ASSUME PipelineInv, NEW p \in Procs, ReadThresholds(p)
  PROVE  /\ proc' \in [Procs -> Process]
         /\ proc[p].pc = "read" /\ proc'[p].pc = "past"
         /\ proc'[p].run = proc[p].run /\ proc'[p].hash = proc[p].hash
         /\ proc'[p].new.active = config /\ proc'[p].next = proc[p].next
         /\ proc'[p].past = proc[p].past
         /\ \A q \in Procs \ {p} : proc'[q] = proc[q]
         /\ UNCHANGED <<config, files, history>>
<1> DEFINE new == [active |-> config, previous |-> NoHash]
           e == [proc[p] EXCEPT !.pc = "past", !.new = new]
<1>1. proc \in [Procs -> Process]
  BY DEF PipelineInv, TypeOK, Process
<1>2. new \in States /\ new.active = config
  BY DEF PipelineInv, TypeOK, States, Hashes
<1>3. proc' = [proc EXCEPT ![p] = e]
  BY <1>1 DEF ReadThresholds, Process
<1> HIDE DEF new
<1>4. /\ e \in Process /\ e.pc = "past" /\ e.run = proc[p].run
      /\ e.hash = proc[p].hash /\ e.new = new /\ e.next = proc[p].next
      /\ e.past = proc[p].past
  BY <1>1, <1>2 DEF Process, Phases
<1> HIDE DEF e
<1> QED
  BY <1>2, <1>3, <1>4, ProcessMoves DEF ReadThresholds

LEMMA ReadHistoryMoves ==
  ASSUME PipelineInv, NEW p \in Procs, ReadHistory(p)
  PROVE  /\ proc' \in [Procs -> Process]
         /\ proc[p].pc = "past" /\ proc'[p].pc = "compute"
         /\ proc'[p].run = proc[p].run /\ proc'[p].hash = proc[p].hash
         /\ proc'[p].new = proc[p].new /\ proc'[p].next = proc[p].next
         /\ proc'[p].past = IF "history" \in torn THEN <<>> ELSE saved
         /\ \A q \in Procs \ {p} : proc'[q] = proc[q]
         /\ UNCHANGED <<config, files, history>>
<1> DEFINE past == IF "history" \in torn THEN <<>> ELSE saved
           e == [proc[p] EXCEPT !.pc = "compute", !.past = past]
<1>1. proc \in [Procs -> Process] /\ saved \in Seq(1..MaxRuns)
  BY DEF PipelineInv, TypeOK, Process
<1>2. past \in Seq(1..MaxRuns)
  BY <1>1, EmptySeq
<1>3. proc' = [proc EXCEPT ![p] = e]
  BY <1>1 DEF ReadHistory, Process
<1> HIDE DEF past
<1>4. /\ e \in Process /\ e.pc = "compute" /\ e.run = proc[p].run
      /\ e.hash = proc[p].hash /\ e.new = proc[p].new
      /\ e.next = proc[p].next /\ e.past = past
  BY <1>1, <1>2 DEF Process, Phases
<1> HIDE DEF e
<1> QED
  BY <1>3, <1>4, ProcessMoves DEF ReadHistory, past

LEMMA BoundaryIsRag ==
  ASSUME NEW v, NEW t
  PROVE  BoundarySemantics(v, t) \in {"Green", "Amber", "Red"}
<1>1. BoundarySemantics(v, t) \in {"Green", "Amber", "Red"}
  BY Zenon DEF BoundarySemantics
<1> QED
  BY <1>1

LEMMA ComputeMoves ==
  ASSUME PipelineInv, NEW p \in Procs, Compute(p)
  PROVE  /\ proc' \in [Procs -> Process]
         /\ proc[p].pc = "compute"
         /\ \/ /\ proc'[p] = Idle /\ result' = result
            \/ /\ proc'[p].pc = "truncate" /\ proc'[p].run = proc[p].run
               /\ proc'[p].hash = proc[p].hash /\ proc'[p].new = proc[p].new
               /\ proc'[p].next = proc[p].next /\ proc'[p].past = proc[p].past
               /\ \/ result' = result
                  \/ /\ proc[p].run \notin edited
                     /\ \E v \in Values :
                           result' = result \cup
                              {[value |-> v, stamp |-> proc[p].hash,
                                rag |-> BoundarySemantics(v,
                                           Threshold[proc[p].new.active])]}
         /\ \A q \in Procs \ {p} : proc'[q] = proc[q]
         /\ UNCHANGED <<config, files, started, edits, crashes, clean,
                        overlapped, edited>>
<1>1. "truncate" \in Phases
  BY DEF Phases
<1>2. CASE Raise(p) /\ UNCHANGED result
  BY <1>2, IdleIsProcess, ProcessMoves DEF Raise, Compute
<1>3. CASE ~ (Raise(p) /\ UNCHANGED result)
  <2>1. GoTo(p, "truncate")
    BY <1>3 DEF Compute
  <2>2. \/ result' = result
        \/ /\ proc[p].run \notin edited
           /\ \E v \in Values :
                 result' = result \cup
                    {[value |-> v, stamp |-> proc[p].hash,
                      rag |-> BoundarySemantics(v,
                                 Threshold[proc[p].new.active])]}
    BY <1>3, Zenon DEF Compute
  <2> QED
    BY <1>1, <2>1, <2>2, GoToMoves DEF Compute
<1> QED
  BY <1>2, <1>3

Cut(s) == SubSeq(s, IF Len(s) > HistoryLimit THEN Len(s) - HistoryLimit + 1
                                             ELSE 1, Len(s))

(* The history after one more run: the oldest entry goes when it is full.  *)
LEMMA CutHistory ==
  ASSUME NEW s \in Seq(1..MaxRuns), Len(s) <= HistoryLimit,
         NEW run \in 1..MaxRuns
  PROVE  /\ Cut(Append(s, run)) \in Seq(1..MaxRuns)
         /\ Len(Cut(Append(s, run))) <= HistoryLimit
         /\ Cut(Append(s, run))[Len(Cut(Append(s, run)))] = run
         /\ \/ /\ Len(s) < HistoryLimit
               /\ Len(Cut(Append(s, run))) = Len(s) + 1
               /\ \A i \in 1..Len(s) : Cut(Append(s, run))[i] = s[i]
            \/ /\ Len(s) = HistoryLimit
               /\ Len(Cut(Append(s, run))) = HistoryLimit
               /\ \A i \in 1..HistoryLimit - 1 :
                     Cut(Append(s, run))[i] = s[i + 1]
<1> DEFINE all == Append(s, run)
           n == Len(all)
           c == Cut(all)
           R == 1..MaxRuns
<1>1. /\ Len(s) \in Nat /\ HistoryLimit \in Nat \ {0}
      /\ \A i \in 1..Len(s) : s[i] \in R
  BY PipelineAssumption, LenProperties, ElementOfSeq
<1>2. /\ n = Len(s) + 1 /\ all[n] = run
      /\ \A i \in 1..Len(s) : all[i] = s[i]
  BY AppendProperties
<1> HIDE DEF all, R
<1>3. CASE Len(s) < HistoryLimit
  <2>1. c = SubSeq(all, 1, n)
    <3>1. ~ (n > HistoryLimit)
      BY <1>1, <1>2, <1>3
    <3> QED
      BY <3>1, Zenon DEF Cut
  <2>2. \A i \in 1..n : all[i] \in R
    BY <1>1, <1>2 DEF R
  <2>3. n \in Int
    BY <1>1, <1>2
  <2> HIDE DEF n
  <2>4. /\ SubSeq(all, 1, n) \in Seq(R)
        /\ Len(SubSeq(all, 1, n)) = IF 1 <= n THEN n - 1 + 1 ELSE 0
        /\ \A i \in 1..n - 1 + 1 : SubSeq(all, 1, n)[i] = all[1 + i - 1]
    BY <2>2, <2>3, SubSeqProperties
  <2> QED
    BY <1>1, <1>2, <1>3, <2>1, <2>4 DEF R, all, n
<1>4. CASE Len(s) = HistoryLimit
  <2>1. c = SubSeq(all, 2, n)
    BY <1>1, <1>2, <1>4 DEF Cut
  <2>2. \A i \in 2..n : all[i] \in R
    BY <1>1, <1>2 DEF R
  <2>3. n \in Int
    BY <1>1, <1>2
  <2> HIDE DEF n
  <2>4. /\ SubSeq(all, 2, n) \in Seq(R)
        /\ Len(SubSeq(all, 2, n)) = IF 2 <= n THEN n - 2 + 1 ELSE 0
        /\ \A i \in 1..n - 2 + 1 : SubSeq(all, 2, n)[i] = all[2 + i - 1]
    BY <2>2, <2>3, SubSeqProperties
  <2>5. Len(c) = HistoryLimit /\ c[HistoryLimit] = all[n]
    BY <1>1, <1>2, <1>4, <2>1, <2>4 DEF n
  <2>6. \A i \in 1..HistoryLimit - 1 : c[i] = s[i + 1]
    BY <1>1, <1>2, <1>4, <2>1, <2>4 DEF n
  <2> QED
    BY <1>1, <1>2, <1>4, <2>1, <2>4, <2>5, <2>6 DEF R, all, n
<1> QED
  BY <1>1, <1>3, <1>4

LEMMA SaveMoves ==
  ASSUME PipelineInv, NEW p \in Procs, SaveHistory(p)
  PROVE  /\ proc' \in [Procs -> Process] /\ proc'[p] = Idle
         /\ proc[p].pc = "save" /\ proc[p].run \in 1..MaxRuns
         /\ proc[p].past \in Seq(1..MaxRuns)
         /\ Len(proc[p].past) <= HistoryLimit
         /\ saved' = Cut(Append(proc[p].past, proc[p].run))
         /\ torn' = torn \ {"history"}
         /\ \/ clean' = clean
            \/ /\ clean' = clean \cup {proc[p].run}
               /\ \A q \in Procs \ {p} : proc[q].pc = "idle"
         /\ \A q \in Procs \ {p} : proc'[q] = proc[q]
         /\ UNCHANGED <<config, state, lock, result, started, edits, crashes,
                        overlapped, edited>>
<1>1. /\ proc[p].pc = "save" /\ proc[p] \in Process /\ ProcessOK(proc[p])
      /\ proc' = [proc EXCEPT ![p] = Idle]
  BY DEF SaveHistory, Save, PipelineInv, TypeOK, Process
<1>2. /\ proc[p].run \in 1..MaxRuns /\ proc[p].past \in Seq(1..MaxRuns)
      /\ Len(proc[p].past) <= HistoryLimit
  BY <1>1 DEF ProcessOK, OfRun, RunPhases, Process
<1>3. saved' = Cut(Append(proc[p].past, proc[p].run))
  BY DEF SaveHistory, Save, All, Cut
<1>4. \/ clean' = clean
      \/ /\ clean' = clean \cup {proc[p].run}
         /\ \A q \in Procs \ {p} : proc[q].pc = "idle"
  BY DEF SaveHistory, Save, Running
<1> QED
  BY <1>1, <1>2, <1>3, <1>4, IdleIsProcess, ProcessMoves
     DEF SaveHistory, Save

LEMMA CrashMoves ==
  ASSUME PipelineInv, NEW p \in Procs, Crash(p)
  PROVE  /\ proc' \in [Procs -> Process] /\ proc'[p] = Idle
         /\ \A q \in Procs \ {p} : proc'[q] = proc[q]
         /\ crashes' \in Nat /\ crashes' > 0
         /\ lock' = lock \ {p} /\ clean' = {}
         /\ UNCHANGED <<config, state, saved, torn, result, started, edits,
                        overlapped, edited>>
<1>1. crashes' \in Nat /\ crashes' > 0
  BY DEF Crash, PipelineInv
<1> QED
  BY <1>1, IdleIsProcess, ProcessMoves DEF Crash

-----------------------------------------------------------------------------
(* Type correctness                                                        *)

LEMMA PipelineInit == Init => PipelineInv
<1> SUFFICES ASSUME Init PROVE PipelineInv
  OBVIOUS
<1>1. proc \in [Procs -> Process] /\ \A p \in Procs : proc[p] = Idle
  BY IdleIsProcess DEF Init
<1>2. state \in States
  BY DEF Init, NoFile, States, Hashes
<1>3. saved \in Seq(1..MaxRuns) /\ Len(saved) <= HistoryLimit
  <2>1. saved = <<>> /\ <<>> \in Seq(1..MaxRuns) /\ Len(<<>>) = 0
    BY EmptySeq DEF Init
  <2>2. HistoryLimit \in Nat
    BY PipelineAssumption
  <2>3. Len(saved) = 0
    BY <2>1, Zenon
  <2> QED
    BY <2>1, <2>2, <2>3
<1>4. TypeOK
  BY <1>1, <1>2, <1>3 DEF Init, TypeOK, Process
<1>5. started \in 0..MaxRuns /\ crashes \in Nat
  <2>1. MaxRuns \in Nat
    BY PipelineAssumption
  <2> QED
    BY <2>1 DEF Init
<1> QED
  BY <1>1, <1>4, <1>5, IdleIsProcess DEF PipelineInv

(* What PipelineInv needs of a step that moves one process.                *)
LEMMA PipelineStays ==
  ASSUME PipelineInv, NEW p \in Procs,
         proc' \in [Procs -> Process],
         \A q \in Procs \ {p} : proc'[q] = proc[q],
         ProcessOK(proc'[p]),
         config' = config, state' \in States,
         saved' \in Seq(1..MaxRuns), Len(saved') <= HistoryLimit,
         torn' \subseteq {"state", "history"},
         result' \subseteq [value: Values, rag: {"Green", "Amber", "Red"},
                            stamp: Configs],
         started' \in 0..MaxRuns, crashes' \in Nat, lock' \subseteq Procs,
         \A q \in Procs : proc'[q].pc = "write" => lock' = {q}
  PROVE  PipelineInv'
<1>1. TypeOK'
  BY DEF PipelineInv, TypeOK, Process
<1>2. \A q \in Procs : ProcessOK(proc'[q])
  BY DEF PipelineInv
<1> QED
  BY <1>1, <1>2 DEF PipelineInv, ProcessOK, OfRun

LEMMA PipelineStart ==
  ASSUME PipelineInv, NEW p \in Procs, StartRun(p) \/ StartRollback(p)
  PROVE  PipelineInv'
<1>0. /\ config \in Configs /\ MaxRuns \in Nat
      /\ Len(Idle.past) <= HistoryLimit
  BY PipelineAssumption, IdleIsProcess DEF PipelineInv, TypeOK, ProcessOK
<1>1. CASE StartRun(p)
  <2>1. ProcessOK(proc'[p]) /\ proc'[p].pc # "write"
    BY <1>0, <1>1, StartRunMoves DEF ProcessOK, OfRun, RunPhases
  <2>2. started' \in 0..MaxRuns
    <3>1. started' = started + 1 /\ started + 1 \in 1..MaxRuns
      BY <1>1, StartRunMoves
    <3> QED
      BY <1>0, <3>1
  <2>3. \A q \in Procs : proc'[q].pc = "write" => lock' = {q}
    BY <1>1, <2>1, StartRunMoves DEF PipelineInv, files
  <2>4. UNCHANGED <<config, files, result, edits, crashes, edited>>
    BY <1>1, StartRunMoves
  <2> QED
    BY <1>1, <2>1, <2>2, <2>3, <2>4, StartRunMoves, PipelineStays
       DEF PipelineInv, TypeOK, files
<1>2. CASE StartRollback(p)
  <2>1. ProcessOK(proc'[p]) /\ proc'[p].pc # "write"
    BY <1>0, <1>2, StartRollbackMoves DEF ProcessOK, OfRun, RunPhases
  <2> QED
    BY <1>0, <1>2, <2>1, StartRollbackMoves, PipelineStays
       DEF PipelineInv, TypeOK, files
<1> QED
  BY <1>1, <1>2

LEMMA PipelineRewrite ==
  ASSUME PipelineInv, NEW p \in Procs,
         \/ CreateState(p) \/ Activate(p)
         \/ Rollback(p) /\ proc' # [proc EXCEPT ![p] = Idle]
  PROVE  PipelineInv'
<1>1. PICK new \in States, next \in {"idle", "load", "reload", "rollback"} :
         /\ Truncate(p, new, next)
         /\ \/ proc[p].pc = "create" /\ next = proc[p].next
            \/ proc[p].pc = "activate"
            \/ proc[p].pc = "rollback" /\ next = "idle"
  BY RewritesMove
<1>2. next \in Phases
  BY DEF Phases
<1>3. ProcessOK(proc'[p])
  <2>1. ProcessOK(proc[p]) /\ proc[p] \in Process
    BY DEF PipelineInv, TypeOK, Process
  <2>2. /\ proc'[p].pc = "write" /\ proc'[p].next = next
        /\ proc'[p].run = proc[p].run /\ proc'[p].hash = proc[p].hash
        /\ proc'[p].past = proc[p].past
    BY <1>1, <1>2, TruncateMoves
  <2> QED
    BY <1>1, <2>1, <2>2 DEF ProcessOK, OfRun, RunPhases
<1>4. \A q \in Procs : proc'[q].pc = "write" => lock' = {q}
  BY <1>1, <1>2, TruncateMoves DEF PipelineInv
<1>5. /\ proc' \in [Procs -> Process]
      /\ \A q \in Procs \ {p} : proc'[q] = proc[q]
      /\ lock' = {p} /\ torn' = torn \cup {"state"}
      /\ UNCHANGED <<config, state, saved, history>>
  BY <1>1, <1>2, TruncateMoves
<1> QED
  BY <1>3, <1>4, <1>5, PipelineStays DEF PipelineInv, TypeOK, history

LEMMA PipelineWrite ==
  ASSUME PipelineInv, NEW p \in Procs, WriteState(p)
  PROVE  PipelineInv'
<1>1. proc[p] \in Process /\ ProcessOK(proc[p]) /\ ProcessOK(Idle)
      /\ Idle.pc = "idle" /\ lock = {p} /\ proc[p].pc = "write"
  BY IdleIsProcess DEF PipelineInv, TypeOK, Process, WriteState
<1>2. ProcessOK(proc'[p]) /\ proc'[p].pc # "write"
  BY <1>1, WriteStateMoves DEF ProcessOK, OfRun, RunPhases
<1>3. \A q \in Procs : proc'[q].pc # "write"
  BY <1>1, <1>2, WriteStateMoves DEF PipelineInv
<1>4. state' \in States
  BY <1>1, WriteStateMoves DEF Process
<1> QED
  BY <1>1, <1>2, <1>3, <1>4, WriteStateMoves, PipelineStays
     DEF PipelineInv, TypeOK, history

(* Steps that neither take nor release the lock.                           *)
LEMMA PipelineLoad ==
  ASSUME PipelineInv, NEW p \in Procs,
         \/ LoadState(p) \/ ReadThresholds(p) \/ ReadHistory(p)
         \/ TruncateHistory(p)
         \/ Rollback(p) /\ proc' = [proc EXCEPT ![p] = Idle]
  PROVE  PipelineInv'
<1>1. /\ proc[p] \in Process /\ ProcessOK(proc[p]) /\ ProcessOK(Idle)
      /\ Idle.pc = "idle" /\ config \in Configs
      /\ Len(saved) <= HistoryLimit /\ Len(Idle.past) <= HistoryLimit
      /\ Idle.past = <<>>
  BY IdleIsProcess DEF PipelineInv, TypeOK, Process, ProcessOK
<1>2. CASE ReadThresholds(p)
  <2>1. ProcessOK(proc'[p]) /\ proc'[p].pc # "write"
    BY <1>1, <1>2, ReadThresholdsMoves DEF ProcessOK, OfRun, RunPhases
  <2> QED
    BY <1>2, <2>1, ReadThresholdsMoves, PipelineStays
       DEF PipelineInv, TypeOK, files, history
<1>3. CASE ReadHistory(p)
  <2>1. ProcessOK(proc'[p]) /\ proc'[p].pc # "write"
    BY <1>1, <1>3, ReadHistoryMoves DEF ProcessOK, OfRun, RunPhases
  <2> QED
    BY <1>3, <2>1, ReadHistoryMoves, PipelineStays
       DEF PipelineInv, TypeOK, files, history
<1>4. CASE TruncateHistory(p)
  <2>1. GoTo(p, "save") /\ "save" \in Phases /\ proc[p].pc = "truncate"
    BY <1>4 DEF TruncateHistory, Phases
  <2>2. ProcessOK(proc'[p]) /\ proc'[p].pc # "write"
    BY <1>1, <2>1, GoToMoves DEF ProcessOK, OfRun, RunPhases
  <2> QED
    BY <1>4, <2>1, <2>2, GoToMoves, PipelineStays
       DEF TruncateHistory, PipelineInv, TypeOK, history
<1>5. CASE /\ LoadState(p) \/ Rollback(p)
           /\ proc' = [proc EXCEPT ![p] = Idle]
  <2>1. UNCHANGED <<config, files, history>>
    <3>1. CASE LoadState(p)
      BY <3>1 DEF LoadState
    <3>2. CASE Rollback(p)
      <4>1. proc'[p].pc # "write"
        BY <1>1, <1>5, IdleIsProcess, ProcessMoves
      <4>2. proc' \in [Procs -> Process] /\ proc \in [Procs -> Process]
        BY <1>5, IdleIsProcess, ProcessMoves DEF PipelineInv, TypeOK, Process
      <4>3. ASSUME NEW new, NEW next, Truncate(p, new, next) PROVE FALSE
        BY <4>1, <4>2, <4>3 DEF Truncate, Process
      <4> QED
        BY <3>2, <4>3 DEF Rollback
    <3> QED
      BY <1>5, <3>1, <3>2
  <2> QED
    BY <1>1, <1>5, <2>1, IdleIsProcess, ProcessMoves, PipelineStays
       DEF PipelineInv, TypeOK, files, history
<1>6. CASE LoadState(p) /\ proc' # [proc EXCEPT ![p] = Idle]
  <2>1. PICK pc \in {"activate", "read"} : GoTo(p, pc)
    BY <1>6 DEF LoadState, Raise
  <2>2. proc[p].pc \in {"load", "reload"} /\ UNCHANGED <<config, files, history>>
    BY <1>6 DEF LoadState
  <2>3. pc \in Phases
    BY DEF Phases
  <2>4. ProcessOK(proc'[p]) /\ proc'[p].pc # "write"
    BY <1>1, <2>1, <2>2, <2>3, GoToMoves DEF ProcessOK, OfRun, RunPhases
  <2>5. /\ proc' \in [Procs -> Process]
        /\ \A q \in Procs \ {p} : proc'[q] = proc[q]
    BY <2>1, <2>3, GoToMoves
  <2> QED
    BY <2>2, <2>4, <2>5, PipelineStays
       DEF PipelineInv, TypeOK, files, history
<1> QED
  BY <1>2, <1>3, <1>4, <1>5, <1>6

LEMMA PipelineCompute ==
  ASSUME PipelineInv, NEW p \in Procs, Compute(p)
  PROVE  PipelineInv'
<1>1. /\ proc[p] \in Process /\ ProcessOK(proc[p]) /\ ProcessOK(Idle)
      /\ Idle.pc = "idle"
  BY IdleIsProcess DEF PipelineInv, TypeOK, Process
<1>2. ProcessOK(proc'[p]) /\ proc'[p].pc # "write"
  BY <1>1, ComputeMoves DEF ProcessOK, OfRun, RunPhases
<1>3. proc[p].run \in 1..MaxRuns /\ proc[p].hash \in Configs
  BY <1>1, ComputeMoves DEF ProcessOK, OfRun, RunPhases
<1>4. result' \subseteq [value: Values, rag: {"Green", "Amber", "Red"},
                         stamp: Configs]
  <2>1. result \subseteq [value: Values, rag: {"Green", "Amber", "Red"},
                          stamp: Configs]
    BY DEF PipelineInv, TypeOK
  <2>2. CASE result' = result
    BY <2>1, <2>2
  <2>3. CASE result' # result
    <3>1. PICK v \in Values :
             result' = result \cup
                {[value |-> v, stamp |-> proc[p].hash,
                  rag |-> BoundarySemantics(v, Threshold[proc[p].new.active])]}
      BY <2>3, ComputeMoves
    <3> QED
      BY <1>3, <2>1, <3>1, BoundaryIsRag
  <2> QED
    BY <2>2, <2>3
<1> QED
  BY <1>2, <1>4, ComputeMoves, PipelineStays DEF PipelineInv, TypeOK, files

LEMMA PipelineSave ==
  ASSUME PipelineInv, NEW p \in Procs, SaveHistory(p) \/ Crash(p)
  PROVE  PipelineInv'
<1>1. ProcessOK(Idle) /\ Idle.pc = "idle"
  BY IdleIsProcess
<1>2. CASE SaveHistory(p)
  <2>1. saved' \in Seq(1..MaxRuns) /\ Len(saved') <= HistoryLimit
    BY <1>2, SaveMoves, CutHistory
  <2>2. /\ proc' \in [Procs -> Process] /\ proc'[p] = Idle
        /\ \A q \in Procs \ {p} : proc'[q] = proc[q]
        /\ torn' = torn \ {"history"}
        /\ UNCHANGED <<config, state, lock, result, started, edits, crashes>>
    BY <1>2, SaveMoves
  <2> QED
    BY <1>1, <2>1, <2>2, PipelineStays DEF PipelineInv, TypeOK
<1>3. CASE Crash(p)
  <2>1. \A q \in Procs : proc'[q].pc = "write" => lock' = {q}
    BY <1>1, <1>3, CrashMoves DEF PipelineInv
  <2> QED
    BY <1>1, <1>3, <2>1, CrashMoves, PipelineStays DEF PipelineInv, TypeOK
<1> QED
  BY <1>2, <1>3

LEMMA PipelineNext == PipelineInv /\ [Next]_vars => PipelineInv'
<1> SUFFICES ASSUME PipelineInv, [Next]_vars PROVE PipelineInv'
  OBVIOUS
<1>1. CASE UNCHANGED vars
  BY <1>1 DEF vars, files, history, PipelineInv, TypeOK, ProcessOK, OfRun
<1>2. ASSUME NEW c \in Configs, EditConfig(c) PROVE PipelineInv'
  BY <1>2 DEF EditConfig, files, PipelineInv, TypeOK, ProcessOK, OfRun
<1>3. ASSUME NEW p \in Procs,
             StartRun(p) \/ StartRollback(p) \/ Step(p) \/ Crash(p)
      PROVE  PipelineInv'
  BY <1>3, PipelineStart, PipelineRewrite, PipelineWrite, PipelineLoad,
     PipelineCompute, PipelineSave DEF Step
<1> QED
  BY <1>1, <1>2, <1>3 DEF Next

(* threshold_state.json and metrics_history.json always hold what their    *)
(* readers expect, and the history never exceeds its limit, whatever the   *)
(* processes do to each other.                                             *)
THEOREM PipelineTypeCorrect == Spec => []TypeOK
<1>1. PipelineInv => TypeOK
  BY DEF PipelineInv
<1> QED
  BY <1>1, PipelineInit, PipelineNext, PTL DEF Spec

-----------------------------------------------------------------------------
(* The threshold state                                                     *)

Rewrites(p) == \/ CreateState(p) \/ Activate(p)
               \/ Rollback(p) /\ proc' # [proc EXCEPT ![p] = Idle]

(* A process loads the state, or refuses to roll it back.                  *)
LEMMA LoadMoves ==
  ASSUME PipelineInv, NEW p \in Procs,
         \/ LoadState(p)
         \/ Rollback(p) /\ ~ Rewrites(p)
  PROVE  /\ UNCHANGED <<config, files, history>>
         /\ proc[p].pc \in {"load", "reload", "rollback"}
         /\ \A q \in Procs \ {p} : proc'[q] = proc[q]
         /\ \/ proc'[p] = Idle
            \/ /\ proc[p].pc \in {"load", "reload"}
               /\ proc'[p].pc \in {"activate", "read"}
               /\ proc'[p].pc = "activate" => state.active # proc[p].hash
               /\ proc'[p].run = proc[p].run /\ proc'[p].hash = proc[p].hash
<1>1. CASE LoadState(p) /\ Raise(p)
  BY <1>1, IdleIsProcess, ProcessMoves DEF LoadState, Raise
<1>2. CASE LoadState(p) /\ ~ Raise(p)
  <2>1. PICK pc \in {"activate", "read"} :
           GoTo(p, pc) /\ (pc = "activate" => state.active # proc[p].hash)
    BY <1>2 DEF LoadState
  <2>2. pc \in Phases
    BY DEF Phases
  <2>3. /\ proc'[p].pc = pc /\ proc'[p].hash = proc[p].hash
        /\ proc'[p].run = proc[p].run
        /\ \A q \in Procs \ {p} : proc'[q] = proc[q]
    BY <2>1, <2>2, GoToMoves
  <2> QED
    BY <1>2, <2>1, <2>3 DEF LoadState
<1>3. CASE Rollback(p) /\ ~ Rewrites(p)
  <2>1. proc' = [proc EXCEPT ![p] = Idle] /\ proc[p].pc = "rollback"
    BY <1>3 DEF Rewrites, Rollback
  <2>2. proc'[p] = Idle /\ \A q \in Procs \ {p} : proc'[q] = proc[q]
    BY <2>1, IdleIsProcess, ProcessMoves
  <2>3. \A new, next : ~ Truncate(p, new, next)
    <3>1. proc \in [Procs -> Process]
      BY DEF PipelineInv, TypeOK, Process
    <3> QED
      BY <2>2, <3>1, IdleIsProcess DEF Truncate, Process
  <2> QED
    BY <1>3, <2>1, <2>2, <2>3 DEF Rollback
<1> QED
  BY <1>1, <1>2, <1>3

(* Every other step of a process leaves the state as it is, and a process  *)
(* decides to activate only against the state it has just read.            *)
LEMMA StateLeftAlone ==
  ASSUME PipelineInv, NEW p \in Procs,
         StartRun(p) \/ StartRollback(p) \/ Step(p),
         ~ Rewrites(p), ~ WriteState(p)
  PROVE  /\ state' = state /\ lock' = lock /\ crashes' = crashes
         /\ "state" \in torn' <=> "state" \in torn
         /\ \A q \in Procs \ {p} : proc'[q] = proc[q]
         /\ proc[p].pc # "write" /\ proc'[p].pc # "write"
         /\ proc'[p].pc = "activate" => state.active # proc'[p].hash
         /\ proc'[p].pc = "rollback" => state # NoFile \/ "state" \in torn
         /\ \/ overlapped' = TRUE
            \/ /\ overlapped' = overlapped
               /\ \/ proc[p].pc # "idle"
                  \/ \A q \in Procs : proc[q].pc = "idle"
<1>0. proc[p] \in Process /\ ProcessOK(proc[p]) /\ Idle.pc = "idle"
  BY IdleIsProcess DEF PipelineInv, TypeOK, Process
<1>1. CASE StartRun(p)
  BY <1>1, StartRunMoves DEF files
<1>2. CASE StartRollback(p)
  BY <1>2, StartRollbackMoves DEF files
<1>3. CASE ReadThresholds(p)
  BY <1>3, ReadThresholdsMoves DEF files, history
<1>4. CASE ReadHistory(p)
  BY <1>4, ReadHistoryMoves DEF files, history
<1>5. CASE Compute(p)
  BY <1>0, <1>5, ComputeMoves DEF files
<1>6. CASE SaveHistory(p)
  BY <1>0, <1>6, SaveMoves
<1>7. CASE TruncateHistory(p)
  <2>1. GoTo(p, "save") /\ "save" \in Phases /\ proc[p].pc = "truncate"
    BY <1>7 DEF TruncateHistory, Phases
  <2>2. proc'[p].pc = "save" /\ \A q \in Procs \ {p} : proc'[q] = proc[q]
    BY <2>1, GoToMoves
  <2> QED
    BY <1>7, <2>1, <2>2 DEF TruncateHistory, history
<1>8. CASE \/ LoadState(p)
           \/ Rollback(p) /\ ~ Rewrites(p)
  BY <1>0, <1>8, LoadMoves DEF files, history
<1> QED
  BY <1>1, <1>2, <1>3, <1>4, <1>5, <1>6, <1>7, <1>8 DEF Step, Rewrites

LEMMA RewriteLocks ==
  ASSUME PipelineInv, NEW p \in Procs, Rewrites(p)
  PROVE  /\ proc'[p].pc = "write" /\ proc[p].pc # "idle"
         /\ proc'[p].run = proc[p].run /\ proc'[p].hash = proc[p].hash
         /\ proc'[p].past = proc[p].past
         /\ OfRun(proc'[p]) => OfRun(proc[p])
         /\ lock' = {p} /\ torn' = torn \cup {"state"}
         /\ \A q \in Procs \ {p} : proc'[q] = proc[q]
         /\ UNCHANGED <<config, state, saved, history>>
<1>1. PICK new \in States, next \in {"idle", "load", "reload", "rollback"} :
         /\ Truncate(p, new, next)
         /\ \/ proc[p].pc = "create" /\ next = proc[p].next
            \/ proc[p].pc = "activate"
            \/ proc[p].pc = "rollback" /\ next = "idle"
  BY RewritesMove DEF Rewrites
<1>2. next \in Phases
  BY DEF Phases
<1>3. /\ proc'[p].pc = "write" /\ proc'[p].next = next
      /\ proc'[p].run = proc[p].run /\ proc'[p].hash = proc[p].hash
      /\ proc'[p].past = proc[p].past
      /\ lock' = {p} /\ torn' = torn \cup {"state"}
      /\ \A q \in Procs \ {p} : proc'[q] = proc[q]
      /\ UNCHANGED <<config, state, saved, history>>
  BY <1>1, <1>2, TruncateMoves
<1>4. OfRun(proc'[p]) => OfRun(proc[p])
  BY <1>1, <1>3 DEF OfRun, RunPhases
<1> QED
  BY <1>1, <1>3, <1>4

LEMMA IntactNext ==
  PipelineInv /\ StateFileIntact /\ [Next]_vars => StateFileIntact'
<1> SUFFICES ASSUME PipelineInv, StateFileIntact, [Next]_vars,
                    "state" \in torn'
             PROVE  crashes' > 0 \/ \E p \in Procs : /\ lock' = {p}
                                                     /\ proc'[p].pc = "write"
  BY DEF StateFileIntact
<1>1. CASE UNCHANGED vars \/ \E c \in Configs : EditConfig(c)
  <2>1. UNCHANGED <<lock, torn, proc, crashes>>
    BY <1>1 DEF vars, files, history, EditConfig
  <2> QED
    BY <2>1 DEF StateFileIntact
<1>2. ASSUME NEW p \in Procs, Rewrites(p)
      PROVE  lock' = {p} /\ proc'[p].pc = "write"
  BY <1>2, RewriteLocks
<1>3. ASSUME NEW p \in Procs, WriteState(p) PROVE FALSE
  BY <1>3, WriteStateMoves
<1>4. ASSUME NEW p \in Procs, Crash(p) PROVE crashes' > 0
  BY <1>4, CrashMoves
<1>5. ASSUME NEW p \in Procs, StartRun(p) \/ StartRollback(p) \/ Step(p),
             ~ Rewrites(p), ~ WriteState(p)
      PROVE  crashes' > 0 \/ \E q \in Procs : /\ lock' = {q}
                                              /\ proc'[q].pc = "write"
  <2>1. /\ lock' = lock /\ crashes' = crashes /\ "state" \in torn
        /\ \A q \in Procs \ {p} : proc'[q] = proc[q]
        /\ proc[p].pc # "write"
    BY <1>5, StateLeftAlone
  <2> QED
    BY <2>1 DEF StateFileIntact
<1> QED
  BY <1>1, <1>2, <1>3, <1>4, <1>5 DEF Next

(* _atomic_write truncates threshold_state.json under the lock and writes  *)
(* it before it lets go: only a process that dies in between leaves a file *)
(* that load refuses.                                                      *)
THEOREM StateFileStaysIntact == Spec => []StateFileIntact
<1>1. Init => StateFileIntact
  BY DEF Init, StateFileIntact
<1> QED
  BY <1>1, PipelineInit, PipelineNext, IntactNext, PTL DEF Spec

Alone == \A p, q \in Procs : proc[p].pc # "idle" /\ proc[q].pc # "idle" => p = q

(* As long as one process at a time is at work, what it has read of the    *)
(* state is still what the file says when it rewrites it.                  *)
RollbackInv ==
    ~ overlapped =>
        /\ Alone
        /\ state = NoFile \/ state.previous # state.active
        /\ \A p \in Procs :
             /\ proc[p].pc = "activate" => state.active # proc[p].hash
             /\ proc[p].pc = "write" => proc[p].new.previous # proc[p].new.active
             /\ proc[p].pc = "rollback" => state # NoFile \/ "state" \in torn

LEMMA RollbackRewrite ==
  ASSUME PipelineInv, RollbackInv, NEW p \in Procs, Rewrites(p)
  PROVE  RollbackInv'
<1> SUFFICES ASSUME ~ overlapped PROVE RollbackInv'
  <2>1. overlapped' = overlapped
    BY RewriteLocks DEF history
  <2> QED
    BY <2>1 DEF RollbackInv
<1>1. PICK new \in States, next \in {"idle", "load", "reload", "rollback"} :
         /\ Truncate(p, new, next)
         /\ \/ proc[p].pc = "create" /\ new = Fresh
            \/ /\ proc[p].pc = "activate" /\ new.active = proc[p].hash
               /\ new.previous \in {NoHash, state.active}
            \/ /\ proc[p].pc = "rollback" /\ "state" \notin torn
               /\ new.active = state.previous /\ new.previous = state.active
  BY RewritesMove DEF Rewrites
<1>2. next \in Phases
  BY DEF Phases
<1>3. /\ proc'[p].pc = "write" /\ proc'[p].new = new
      /\ \A q \in Procs \ {p} : proc'[q] = proc[q]
      /\ state' = state /\ torn' = torn \cup {"state"}
  BY <1>1, <1>2, TruncateMoves
<1>4. /\ proc[p].pc # "idle"
      /\ \A q \in Procs \ {p} : proc[q].pc = "idle"
  BY <1>1 DEF RollbackInv, Alone
<1>5. new.previous # new.active
  <2>1. CASE proc[p].pc = "create" /\ new = Fresh
    <3>1. Initial # NoHash
      BY PipelineAssumption
    <3> QED
      BY <2>1, <3>1 DEF Fresh
  <2>2. CASE /\ proc[p].pc = "activate" /\ new.active = proc[p].hash
             /\ new.previous \in {NoHash, state.active}
    <3>1. proc[p].hash \in Configs
      BY <2>2 DEF PipelineInv, ProcessOK, OfRun, RunPhases
    <3>2. NoHash \notin Configs
      BY PipelineAssumption
    <3>3. state.active # proc[p].hash
      BY <2>2 DEF RollbackInv
    <3> QED
      BY <2>2, <3>1, <3>2, <3>3
  <2>3. CASE /\ proc[p].pc = "rollback" /\ "state" \notin torn
             /\ new.active = state.previous /\ new.previous = state.active
    BY <2>3 DEF RollbackInv
  <2> QED
    BY <1>1, <2>1, <2>2, <2>3
<1> QED
  BY <1>3, <1>4, <1>5 DEF RollbackInv, Alone

LEMMA RollbackNext == PipelineInv /\ RollbackInv /\ [Next]_vars => RollbackInv'
<1> SUFFICES ASSUME PipelineInv, RollbackInv, [Next]_vars, ~ overlapped'
             PROVE  RollbackInv'
  BY DEF RollbackInv
<1>0. Idle.pc = "idle"
  BY IdleIsProcess
<1>1. CASE UNCHANGED vars \/ \E c \in Configs : EditConfig(c)
  <2>1. UNCHANGED <<state, torn, proc, overlapped>>
    BY <1>1 DEF vars, files, history, EditConfig
  <2> QED
    BY <2>1 DEF RollbackInv, Alone
<1>2. ASSUME NEW p \in Procs, Rewrites(p) PROVE RollbackInv'
  BY <1>2, RollbackRewrite
<1>3. ASSUME NEW p \in Procs, WriteState(p) PROVE RollbackInv'
  <2>1. /\ proc'[p].pc \in {"idle", "load", "reload", "rollback"}
        /\ \A q \in Procs \ {p} : proc'[q] = proc[q]
        /\ proc[p].pc = "write" /\ state' = proc[p].new
        /\ overlapped' = overlapped
    BY <1>0, <1>3, WriteStateMoves DEF history
  <2>2. proc[p].new.previous # proc[p].new.active
        /\ \A q \in Procs \ {p} : proc[q].pc = "idle"
    BY <2>1 DEF RollbackInv, Alone
  <2>3. state'.previous # state'.active /\ state' # NoFile
    BY <2>1, <2>2 DEF NoFile
  <2> QED
    BY <2>1, <2>2, <2>3 DEF RollbackInv, Alone
<1>4. ASSUME NEW p \in Procs, Crash(p) PROVE RollbackInv'
  <2>1. /\ proc'[p].pc = "idle"
        /\ \A q \in Procs \ {p} : proc'[q] = proc[q]
        /\ UNCHANGED <<state, torn, overlapped>>
    BY <1>0, <1>4, CrashMoves
  <2> QED
    BY <2>1 DEF RollbackInv, Alone
<1>5. ASSUME NEW p \in Procs, StartRun(p) \/ StartRollback(p) \/ Step(p),
             ~ Rewrites(p), ~ WriteState(p)
      PROVE  RollbackInv'
  <2>1. /\ state' = state
        /\ "state" \in torn' <=> "state" \in torn
        /\ \A q \in Procs \ {p} : proc'[q] = proc[q]
        /\ proc'[p].pc # "write"
        /\ proc'[p].pc = "activate" => state.active # proc'[p].hash
        /\ proc'[p].pc = "rollback" => state # NoFile \/ "state" \in torn
        /\ overlapped' = overlapped
        /\ \/ proc[p].pc # "idle"
           \/ \A q \in Procs : proc[q].pc = "idle"
    BY <1>5, StateLeftAlone
  <2>2. \A q \in Procs \ {p} : proc[q].pc = "idle"
    BY <2>1 DEF RollbackInv, Alone
  <2> QED
    BY <2>1, <2>2 DEF RollbackInv, Alone
<1> QED
  BY <1>1, <1>2, <1>3, <1>4, <1>5 DEF Next

(* activate and rollback never leave the same hash as active and previous: *)
(* a rollback always has another configuration to go back to, unless two   *)
(* processes have been at work at a time.                                  *)
THEOREM RollbackAlwaysChanges == Spec => []RollbackChanges
<1>1. Init => RollbackInv
  BY IdleIsProcess DEF Init, RollbackInv, Alone
<1>2. RollbackInv => RollbackChanges
  BY DEF RollbackInv, RollbackChanges
<1> QED
  BY <1>1, <1>2, PipelineInit, PipelineNext, RollbackNext, PTL DEF Spec

-----------------------------------------------------------------------------
(* The metrics history                                                     *)

(* Run r is in the history s, followed by later runs only, or they have    *)
(* pushed it out.                                                          *)
Kept(s, r) ==
    \/ \E i \in 1..Len(s) : s[i] = r /\ \A j \in i+1..Len(s) : s[j] > r
    \/ Len(s) = HistoryLimit /\ \A i \in 1..Len(s) : s[i] > r

LEMMA KeptNew ==
  ASSUME NEW s \in Seq(1..MaxRuns), Len(s) <= HistoryLimit,
         NEW run \in 1..MaxRuns
  PROVE  Kept(Cut(Append(s, run)), run)
<1> DEFINE c == Cut(Append(s, run))
<1>0. HistoryLimit \in Nat \ {0}
  BY PipelineAssumption, Zenon
<1>1. Len(s) \in Nat /\ HistoryLimit \in Nat \ {0}
  BY <1>0, LenProperties
<1>2. c[Len(c)] = run /\ Len(c) \in Nat \ {0}
  BY <1>1, CutHistory
<1> HIDE DEF c
<1>3. Len(c) \in 1..Len(c) /\ \A j \in Len(c)+1..Len(c) : c[j] > run
  BY <1>2
<1>4. Kept(c, run)
  BY <1>2, <1>3 DEF Kept
<1> QED
  BY <1>4 DEF c

LEMMA KeptAfter ==
  ASSUME NEW s \in Seq(1..MaxRuns), Len(s) <= HistoryLimit,
         NEW run \in 1..MaxRuns, NEW r \in Nat, run > r, Kept(s, r)
  PROVE  Kept(Cut(Append(s, run)), r)
<1> DEFINE c == Cut(Append(s, run))
<1> SUFFICES Kept(c, r)
  OBVIOUS
<1>0. HistoryLimit \in Nat \ {0}
  BY PipelineAssumption, Zenon
<1>1. Len(s) \in Nat /\ HistoryLimit \in Nat \ {0} /\ run \in Nat
  BY <1>0, LenProperties
<1>2. c[Len(c)] = run
  BY CutHistory
<1>3. \/ /\ Len(s) < HistoryLimit
         /\ Len(c) = Len(s) + 1
         /\ \A i \in 1..Len(s) : c[i] = s[i]
      \/ /\ Len(s) = HistoryLimit
         /\ Len(c) = HistoryLimit
         /\ \A i \in 1..HistoryLimit - 1 : c[i] = s[i + 1]
  BY CutHistory
<1> HIDE DEF c
<1>4. CASE /\ Len(s) < HistoryLimit
           /\ Len(c) = Len(s) + 1
           /\ \A i \in 1..Len(s) : c[i] = s[i]
  <2>1. PICK i \in 1..Len(s) : s[i] = r /\ \A j \in i+1..Len(s) : s[j] > r
    BY <1>1, <1>4 DEF Kept
  <2>2. i \in 1..Len(c) /\ c[i] = r
    BY <1>1, <1>4, <2>1
  <2>3. ASSUME NEW j \in i+1..Len(c) PROVE c[j] > r
    <3>1. CASE j = Len(c)
      BY <1>2, <3>1
    <3>2. CASE j # Len(c)
      <4>1. j \in i+1..Len(s) /\ j \in 1..Len(s)
        BY <1>1, <1>4, <3>2
      <4> QED
        BY <1>4, <2>1, <4>1
    <3> QED
      BY <3>1, <3>2
  <2> QED
    BY <2>2, <2>3 DEF Kept
<1>5. CASE /\ Len(s) = HistoryLimit
           /\ Len(c) = HistoryLimit
           /\ \A i \in 1..HistoryLimit - 1 : c[i] = s[i + 1]
  <2>1. ASSUME NEW k \in 1..Len(c),
               k = Len(c) \/ s[k + 1] > r
        PROVE  c[k] > r
    <3>1. CASE k = Len(c)
      BY <1>2, <3>1
    <3>2. CASE k # Len(c)
      <4>1. k \in 1..HistoryLimit - 1
        BY <1>1, <1>5, <3>2
      <4> QED
        BY <1>5, <2>1, <3>2, <4>1
    <3> QED
      BY <3>1, <3>2
  <2>2. CASE \A i \in 1..Len(s) : s[i] > r
    <3>1. ASSUME NEW k \in 1..Len(c) PROVE k = Len(c) \/ s[k + 1] > r
      <4>1. k = Len(c) \/ k + 1 \in 1..Len(s)
        BY <1>1, <1>5
      <4> QED
        BY <2>2, <4>1
    <3> QED
      BY <1>5, <2>1, <3>1 DEF Kept
  <2>3. ASSUME NEW i \in 1..Len(s), s[i] = r,
               \A j \in i+1..Len(s) : s[j] > r
        PROVE  Kept(c, r)
    <3>1. ASSUME NEW k \in i..Len(c) PROVE k = Len(c) \/ s[k + 1] > r
      <4>1. k = Len(c) \/ k + 1 \in i+1..Len(s)
        BY <1>1, <1>5
      <4> QED
        BY <2>3, <4>1
    <3>2. \A k \in i..Len(c) : c[k] > r
      <4>1. \A k \in i..Len(c) : k \in 1..Len(c)
        BY <1>1, <1>5
      <4> QED
        BY <2>1, <3>1, <4>1
    <3>3. CASE i = 1
      BY <1>5, <3>2, <3>3 DEF Kept
    <3>4. CASE i # 1
      <4>1. i - 1 \in 1..Len(c) /\ i - 1 \in 1..HistoryLimit - 1
        BY <1>1, <1>5, <3>4
      <4>2. c[i - 1] = r
        BY <1>5, <2>3, <4>1
      <4>3. \A j \in (i - 1)+1..Len(c) : c[j] > r
        BY <3>2
      <4> QED
        BY <4>1, <4>2, <4>3 DEF Kept
    <3> QED
      BY <3>3, <3>4
  <2> QED
    BY <2>2, <2>3 DEF Kept
<1> QED
  BY <1>3, <1>4, <1>5

(* While the last runs were undisturbed, the values the one process at     *)
(* work has read are those of the history, which every one of them is in.  *)
HistoryInv ==
    /\ clean \subseteq 1..started
    /\ \A p \in Procs : proc[p].run <= started
    /\ \A r \in clean : Kept(saved, r)
    /\ clean # {} =>
         /\ Alone
         /\ "history" \in torn => \E p \in Procs : proc[p].pc = "save"
         /\ \A p \in Procs :
              /\ proc[p].pc \in {"compute", "truncate", "save"} =>
                    proc[p].past = saved
              /\ OfRun(proc[p]) => \A r \in clean : proc[p].run > r

(* What the steps that do not write the history leave of HistoryInv: only  *)
(* the process that steps changes, and it reads the history in one step.   *)
LEMMA HistoryLeftAlone ==
  ASSUME PipelineInv, HistoryInv, NEW p \in Procs,
         StartRun(p) \/ StartRollback(p) \/ Step(p), ~ SaveHistory(p)
  PROVE  /\ saved' = saved
         /\ "history" \in torn' => "history" \in torn \/ proc'[p].pc = "save"
         /\ proc[p].pc # "save"
         /\ \A q \in Procs \ {p} : proc'[q] = proc[q]
         /\ proc'[p].pc \in {"compute", "truncate", "save"} =>
               \/ /\ proc[p].pc \in {"compute", "truncate"}
                  /\ proc'[p].past = proc[p].past
               \/ /\ proc[p].pc = "past"
                  /\ proc'[p].past = IF "history" \in torn THEN <<>> ELSE saved
         /\ OfRun(proc'[p]) => \/ OfRun(proc[p]) /\ proc'[p].run = proc[p].run
                               \/ proc'[p].run = started + 1
         /\ started' \in Nat /\ started' >= started /\ proc'[p].run <= started'
         /\ \/ clean' = {}
            \/ /\ clean' = clean
               /\ \/ proc[p].pc # "idle"
                  \/ \A q \in Procs : proc[q].pc = "idle"
<1>0. /\ proc[p] \in Process /\ ProcessOK(proc[p]) /\ ~ OfRun(Idle)
      /\ Idle.pc = "idle" /\ Idle.run = 0 /\ started \in Nat
      /\ proc[p].run <= started
  BY IdleIsProcess DEF PipelineInv, TypeOK, Process, HistoryInv
<1>1. CASE StartRun(p)
  <2>1. /\ proc'[p].run = started + 1 /\ started' = started + 1
        /\ proc'[p].pc \in {"create", "load"} /\ proc[p].pc = "idle"
        /\ \A q \in Procs \ {p} : proc'[q] = proc[q]
        /\ UNCHANGED files
        /\ \/ clean' = {}
           \/ (\A q \in Procs : proc[q].pc = "idle") /\ clean' = clean
    BY <1>1, StartRunMoves
  <2> QED
    BY <1>0, <2>1 DEF files
<1>2. CASE StartRollback(p)
  <2>1. /\ proc'[p].run = 0 /\ started' = started
        /\ proc'[p].pc \in {"create", "rollback"} /\ proc[p].pc = "idle"
        /\ proc'[p].next = "rollback"
        /\ \A q \in Procs \ {p} : proc'[q] = proc[q]
        /\ UNCHANGED files
        /\ \/ clean' = {}
           \/ (\A q \in Procs : proc[q].pc = "idle") /\ clean' = clean
    BY <1>2, StartRollbackMoves
  <2> QED
    BY <1>0, <2>1 DEF files, OfRun, RunPhases
<1>3. CASE ReadThresholds(p)
  BY <1>0, <1>3, ReadThresholdsMoves DEF files, history, OfRun, RunPhases
<1>4. CASE ReadHistory(p)
  <2>1. /\ proc[p].pc = "past" /\ proc'[p].pc = "compute"
        /\ proc'[p].run = proc[p].run
        /\ proc'[p].past = IF "history" \in torn THEN <<>> ELSE saved
        /\ \A q \in Procs \ {p} : proc'[q] = proc[q]
        /\ UNCHANGED <<files, history>>
    BY <1>4, ReadHistoryMoves
  <2>2. OfRun(proc[p])
    BY <2>1 DEF OfRun, RunPhases
  <2> QED
    BY <1>0, <2>1, <2>2 DEF files, history
<1>5. CASE Compute(p)
  <2>1. /\ proc[p].pc = "compute"
        /\ \/ proc'[p] = Idle
           \/ /\ proc'[p].pc = "truncate" /\ proc'[p].run = proc[p].run
              /\ proc'[p].past = proc[p].past
        /\ \A q \in Procs \ {p} : proc'[q] = proc[q]
        /\ UNCHANGED <<files, started, clean>>
    BY <1>5, ComputeMoves
  <2>2. OfRun(proc[p])
    BY <2>1 DEF OfRun, RunPhases
  <2> QED
    BY <1>0, <2>1, <2>2 DEF files
<1>6. CASE WriteState(p)
  <2>1. /\ proc[p].pc = "write" /\ torn' = torn \ {"state"}
        /\ \/ proc'[p] = Idle
           \/ /\ proc'[p].pc = proc[p].next /\ proc'[p].run = proc[p].run
              /\ proc[p].next \in {"load", "reload", "rollback"}
              /\ proc'[p].next = proc[p].next
        /\ \A q \in Procs \ {p} : proc'[q] = proc[q]
        /\ UNCHANGED <<saved, history>>
    BY <1>6, WriteStateMoves
  <2>2. OfRun(proc'[p]) => OfRun(proc[p]) /\ proc'[p].run = proc[p].run
    BY <1>0, <2>1 DEF OfRun, RunPhases
  <2> QED
    BY <1>0, <2>1, <2>2 DEF history
<1>7. CASE TruncateHistory(p)
  <2>1. GoTo(p, "save") /\ "save" \in Phases /\ proc[p].pc = "truncate"
    BY <1>7 DEF TruncateHistory, Phases
  <2>2. /\ proc'[p].pc = "save" /\ proc'[p].run = proc[p].run
        /\ proc'[p].past = proc[p].past
        /\ \A q \in Procs \ {p} : proc'[q] = proc[q]
    BY <2>1, GoToMoves
  <2>3. OfRun(proc[p])
    BY <2>1 DEF OfRun, RunPhases
  <2> QED
    BY <1>0, <1>7, <2>1, <2>2, <2>3 DEF TruncateHistory, history
<1>8. CASE Rewrites(p)
  <2>1. /\ proc'[p].pc = "write" /\ proc[p].pc # "idle"
        /\ proc'[p].run = proc[p].run
        /\ OfRun(proc'[p]) => OfRun(proc[p])
        /\ torn' = torn \cup {"state"}
        /\ \A q \in Procs \ {p} : proc'[q] = proc[q]
        /\ UNCHANGED <<saved, history>>
    BY <1>8, RewriteLocks
  <2>2. proc[p].pc # "save"
    BY <1>8 DEF Rewrites, CreateState, Activate, Rollback
  <2> QED
    BY <1>0, <2>1, <2>2 DEF history
<1>9. CASE \/ LoadState(p)
           \/ Rollback(p) /\ ~ Rewrites(p)
  <2>1. /\ UNCHANGED <<config, files, history>>
        /\ proc[p].pc \in {"load", "reload", "rollback"}
        /\ \A q \in Procs \ {p} : proc'[q] = proc[q]
        /\ \/ proc'[p] = Idle
           \/ /\ proc[p].pc \in {"load", "reload"}
              /\ proc'[p].pc \in {"activate", "read"}
              /\ proc'[p].run = proc[p].run
    BY <1>9, LoadMoves
  <2> QED
    BY <1>0, <2>1 DEF files, history, OfRun, RunPhases
<1> QED
  BY <1>1, <1>2, <1>3, <1>4, <1>5, <1>6, <1>7, <1>8, <1>9
     DEF Step, Rewrites

LEMMA HistoryStep ==
  ASSUME PipelineInv, HistoryInv, NEW p \in Procs,
         StartRun(p) \/ StartRollback(p) \/ Step(p), ~ SaveHistory(p)
  PROVE  HistoryInv'
<1>1. /\ saved' = saved
      /\ "history" \in torn' => "history" \in torn \/ proc'[p].pc = "save"
      /\ proc[p].pc # "save"
      /\ \A q \in Procs \ {p} : proc'[q] = proc[q]
  BY HistoryLeftAlone
<1>2. /\ proc'[p].pc \in {"compute", "truncate", "save"} =>
            \/ /\ proc[p].pc \in {"compute", "truncate"}
               /\ proc'[p].past = proc[p].past
            \/ /\ proc[p].pc = "past"
               /\ proc'[p].past = IF "history" \in torn THEN <<>> ELSE saved
      /\ OfRun(proc'[p]) => \/ OfRun(proc[p]) /\ proc'[p].run = proc[p].run
                            \/ proc'[p].run = started + 1
  BY HistoryLeftAlone
<1>3. /\ started' \in Nat /\ started' >= started /\ proc'[p].run <= started'
      /\ \/ clean' = {}
         \/ /\ clean' = clean
            /\ \/ proc[p].pc # "idle"
               \/ \A q \in Procs : proc[q].pc = "idle"
  BY HistoryLeftAlone
<1>4. started \in Nat /\ \A q \in Procs : proc[q].run \in Nat
  <2>1. proc \in [Procs -> Process] /\ started \in Nat
    BY DEF PipelineInv, TypeOK, Process
  <2> QED
    BY <2>1 DEF Process
<1>5. /\ clean' \subseteq 1..started'
      /\ \A q \in Procs : proc'[q].run <= started'
      /\ \A r \in clean' : Kept(saved', r)
  <2>1. clean' \subseteq clean
    BY <1>3
  <2>2. clean' \subseteq 1..started'
    BY <1>3, <1>4, <2>1 DEF HistoryInv
  <2>3. \A q \in Procs : proc'[q].run <= started'
    BY <1>1, <1>3, <1>4 DEF HistoryInv
  <2>4. \A r \in clean' : Kept(saved', r)
    BY <1>1, <2>1 DEF HistoryInv
  <2> QED
    BY <2>2, <2>3, <2>4
<1>6. CASE clean' # {}
  <2>1. /\ clean' = clean /\ clean # {}
        /\ \A q \in Procs \ {p} : proc[q].pc = "idle"
    BY <1>3, <1>6 DEF HistoryInv, Alone
  <2>2. Alone'
    BY <1>1, <2>1 DEF Alone
  <2>3. "history" \notin torn
    BY <1>1, <2>1 DEF HistoryInv
  <2>4. \A r \in clean : r \in Nat /\ r <= started
    BY <1>4 DEF HistoryInv
  <2>5. /\ proc'[p].pc \in {"compute", "truncate", "save"} =>
              proc'[p].past = saved'
        /\ OfRun(proc'[p]) => \A r \in clean' : proc'[p].run > r
    BY <1>1, <1>2, <1>4, <2>1, <2>3, <2>4 DEF HistoryInv
  <2>6. \A q \in Procs \ {p} : /\ proc'[q].pc = "idle"
                               /\ ~ OfRun(proc'[q])
    BY <1>1, <2>1 DEF OfRun, RunPhases
  <2> QED
    BY <1>1, <1>5, <2>2, <2>3, <2>5, <2>6 DEF HistoryInv
<1> QED
  BY <1>5, <1>6 DEF HistoryInv

LEMMA HistorySave ==
  ASSUME PipelineInv, HistoryInv, NEW p \in Procs, SaveHistory(p)
  PROVE  HistoryInv'
<1> DEFINE past == proc[p].past
           run == proc[p].run
<1>1. /\ proc'[p] = Idle /\ Idle.pc = "idle" /\ Idle.run = 0 /\ ~ OfRun(Idle)
      /\ proc[p].pc = "save" /\ run \in 1..MaxRuns
      /\ past \in Seq(1..MaxRuns) /\ Len(past) <= HistoryLimit
      /\ saved' = Cut(Append(past, run)) /\ torn' = torn \ {"history"}
      /\ \A q \in Procs \ {p} : proc'[q] = proc[q]
      /\ started' = started
  BY IdleIsProcess, SaveMoves
<1>2. \/ clean' = clean
      \/ clean' = clean \cup {run} /\ \A q \in Procs \ {p} : proc[q].pc = "idle"
  BY SaveMoves
<1>3. started \in Nat /\ run <= started
  BY DEF PipelineInv, HistoryInv
<1>4. ASSUME clean # {}
      PROVE  /\ \A q \in Procs \ {p} : proc[q].pc = "idle"
             /\ past = saved /\ \A r \in clean : run > r
  BY <1>1, <1>4 DEF HistoryInv, Alone, OfRun, RunPhases
<1> HIDE DEF past, run
<1>5. \A r \in clean : Kept(saved', r)
  <2> SUFFICES ASSUME NEW r \in clean PROVE Kept(saved', r)
    OBVIOUS
  <2>1. past = saved /\ run > r /\ r \in 1..started /\ Kept(saved, r)
    BY <1>4 DEF HistoryInv
  <2>2. Kept(past, r) /\ r \in Nat
    BY <1>3, <2>1
  <2> QED
    BY <1>1, <2>1, <2>2, KeptAfter
<1>6. Kept(saved', run)
  BY <1>1, KeptNew
<1>7. /\ clean' \subseteq 1..started'
      /\ \A q \in Procs : proc'[q].run <= started'
      /\ \A r \in clean' : Kept(saved', r)
  <2>1. run \in 1..started /\ clean \subseteq 1..started
    BY <1>1, <1>3 DEF HistoryInv
  <2>2. clean' \subseteq 1..started'
    BY <1>1, <1>2, <2>1
  <2>3. \A q \in Procs : proc'[q].run <= started'
    BY <1>1, <1>3 DEF HistoryInv
  <2>4. \A r \in clean' : Kept(saved', r)
    BY <1>2, <1>5, <1>6
  <2> QED
    BY <2>2, <2>3, <2>4
<1>8. CASE clean' # {}
  <2>1. \A q \in Procs : proc'[q].pc = "idle" /\ ~ OfRun(proc'[q])
    <3>1. \A q \in Procs \ {p} : proc[q].pc = "idle"
      BY <1>2, <1>4, <1>8
    <3> QED
      BY <1>1, <3>1 DEF OfRun, RunPhases
  <2> QED
    BY <1>1, <1>7, <2>1 DEF HistoryInv, Alone
<1> QED
  BY <1>7, <1>8 DEF HistoryInv

LEMMA HistoryNext == PipelineInv /\ HistoryInv /\ [Next]_vars => HistoryInv'
<1> SUFFICES ASSUME PipelineInv, HistoryInv, [Next]_vars PROVE HistoryInv'
  OBVIOUS
<1>1. CASE UNCHANGED vars \/ \E c \in Configs : EditConfig(c)
  <2>1. UNCHANGED <<saved, torn, proc, started, clean>>
    BY <1>1 DEF vars, files, history, EditConfig
  <2> QED
    BY <2>1 DEF HistoryInv, Alone, Kept, OfRun
<1>2. ASSUME NEW p \in Procs, Crash(p) PROVE HistoryInv'
  <2>1. /\ proc'[p] = Idle /\ Idle.run = 0 /\ clean' = {}
        /\ \A q \in Procs \ {p} : proc'[q] = proc[q]
        /\ started' = started
    BY <1>2, CrashMoves, IdleIsProcess
  <2>2. started \in Nat
    BY DEF PipelineInv
  <2> QED
    BY <2>1, <2>2 DEF HistoryInv
<1> QED
  BY <1>1, <1>2, HistoryStep, HistorySave DEF Next

(* A run that no other process disturbed stays in metrics_history.json     *)
(* until a hundred later ones have pushed it out: its oldest entries are   *)
(* the ones that go, and none is lost between being read and rewritten.    *)
THEOREM HistoryIsKept == Spec => []HistoryKept
<1>1. Init => HistoryInv
  BY IdleIsProcess DEF Init, HistoryInv
<1>2. PipelineInv /\ HistoryInv => HistoryKept
  <2> SUFFICES ASSUME PipelineInv, HistoryInv PROVE HistoryKept
    OBVIOUS
  <2>1. DOMAIN saved = 1..Len(saved)
    BY LenProperties DEF PipelineInv, TypeOK
  <2> QED
    BY <2>1 DEF HistoryInv, Kept, HistoryKept
<1> QED
  BY <1>1, <1>2, PipelineInit, PipelineNext, HistoryNext, PTL DEF Spec

-----------------------------------------------------------------------------
(* Results and the hash they are stamped with                              *)

(* A run that no edit disturbed has hashed the configuration that is       *)
(* installed, and then reads its thresholds.                               *)
StampedBy(e) ==
    /\ OfRun(e) /\ e.pc \notin {"past", "compute", "truncate", "save"} =>
          e.hash = config
    /\ e.pc \in {"past", "compute"} => e.new.active = e.hash

(* The classification a stamp stands for.                                  *)
StampedResult(x) == x.rag = BoundarySemantics(x.value, Threshold[x.stamp])

StampInv ==
    /\ \A p \in Procs : proc[p].run \notin edited => StampedBy(proc[p])
    /\ \A x \in result : StampedResult(x)

LEMMA StampKept ==
  ASSUME PipelineInv, StampInv, NEW p \in Procs,
         \A q \in Procs \ {p} : proc'[q] = proc[q],
         UNCHANGED <<config, edited>>,
         proc'[p].run \notin edited => StampedBy(proc'[p]),
         result' = result
  PROVE  StampInv'
  BY DEF StampInv, StampedBy, StampedResult, OfRun

LEMMA StampStep ==
  ASSUME PipelineInv, StampInv, NEW p \in Procs,
         StartRun(p) \/ StartRollback(p) \/ Step(p)
  PROVE  StampInv'
<1>0. /\ proc[p] \in Process /\ ProcessOK(proc[p])
      /\ ~ OfRun(Idle) /\ Idle.pc = "idle"
      /\ proc[p].run \notin edited => StampedBy(proc[p])
  BY IdleIsProcess DEF PipelineInv, TypeOK, Process, StampInv
<1>1. CASE StartRun(p)
  <2>1. StampedBy(proc'[p])
    BY <1>1, StartRunMoves DEF StampedBy
  <2> QED
    BY <1>1, <2>1, StartRunMoves, StampKept DEF files
<1>2. CASE StartRollback(p)
  <2>1. StampedBy(proc'[p])
    BY <1>2, StartRollbackMoves DEF StampedBy, OfRun, RunPhases
  <2> QED
    BY <1>2, <2>1, StartRollbackMoves, StampKept DEF files
<1>3. CASE ReadThresholds(p)
  <2>1. /\ proc[p].pc = "read" /\ proc'[p].pc = "past"
        /\ proc'[p].run = proc[p].run /\ proc'[p].hash = proc[p].hash
        /\ proc'[p].new.active = config
        /\ \A q \in Procs \ {p} : proc'[q] = proc[q]
        /\ UNCHANGED <<config, edited, result>>
    BY <1>3, ReadThresholdsMoves DEF files, history
  <2>2. proc'[p].run \notin edited => StampedBy(proc'[p])
    BY <1>0, <2>1 DEF StampedBy, OfRun, RunPhases
  <2> QED
    BY <2>1, <2>2, StampKept
<1>4. CASE ReadHistory(p)
  <2>1. /\ proc[p].pc = "past" /\ proc'[p].pc = "compute"
        /\ proc'[p].run = proc[p].run /\ proc'[p].hash = proc[p].hash
        /\ proc'[p].new = proc[p].new
        /\ \A q \in Procs \ {p} : proc'[q] = proc[q]
        /\ UNCHANGED <<config, edited, result>>
    BY <1>4, ReadHistoryMoves DEF files, history
  <2>2. proc'[p].run \notin edited => StampedBy(proc'[p])
    BY <1>0, <2>1 DEF StampedBy, OfRun, RunPhases
  <2> QED
    BY <2>1, <2>2, StampKept
<1>5. CASE Compute(p)
  <2>1. /\ proc[p].pc = "compute" /\ proc'[p].pc \in {"idle", "truncate"}
        /\ proc'[p] = Idle \/ proc'[p].run = proc[p].run
        /\ \A q \in Procs \ {p} : proc'[q] = proc[q]
        /\ UNCHANGED <<config, edited>>
    BY <1>0, <1>5, ComputeMoves
  <2>2. StampedBy(proc'[p])
    BY <1>0, <2>1 DEF StampedBy, OfRun, RunPhases
  <2>3. CASE result' = result
    BY <2>1, <2>2, <2>3, StampKept
  <2>4. CASE result' # result
    <3>0. proc[p].run \notin edited
      BY <1>5, <2>4, ComputeMoves
    <3>1. PICK v \in Values :
             result' = result \cup
                {[value |-> v, stamp |-> proc[p].hash,
                  rag |-> BoundarySemantics(v, Threshold[proc[p].new.active])]}
      BY <1>5, <2>4, ComputeMoves
    <3>2. ASSUME NEW x \in result' PROVE StampedResult(x)
      <4>1. CASE x \in result
        BY <3>2, <4>1 DEF StampInv
      <4>2. CASE x \notin result
        <5>1. /\ x.stamp = proc[p].hash
              /\ x.rag = BoundarySemantics(x.value,
                                           Threshold[proc[p].new.active])
          BY <3>1, <4>2
        <5>2. proc[p].new.active = proc[p].hash
          BY <1>0, <2>1, <3>0 DEF StampedBy
        <5> QED
          BY <5>1, <5>2 DEF StampedResult
      <4> QED
        BY <4>1, <4>2
    <3>3. \A q \in Procs : proc'[q].run \notin edited => StampedBy(proc'[q])
      BY <2>1, <2>2 DEF StampInv
    <3> QED
      BY <2>1, <3>2, <3>3 DEF StampInv, StampedBy, StampedResult, OfRun
  <2> QED
    BY <2>3, <2>4
<1>6. CASE WriteState(p)
  <2>1. /\ proc[p].pc = "write"
        /\ \/ proc'[p] = Idle
           \/ /\ proc'[p].pc = proc[p].next /\ proc'[p].run = proc[p].run
              /\ proc[p].next \in {"load", "reload", "rollback"}
              /\ proc'[p].hash = proc[p].hash
        /\ \A q \in Procs \ {p} : proc'[q] = proc[q]
        /\ UNCHANGED <<config, edited, result>>
    BY <1>6, WriteStateMoves DEF history
  <2>2. proc'[p].run \notin edited => StampedBy(proc'[p])
    BY <1>0, <2>1 DEF StampedBy, OfRun, RunPhases
  <2> QED
    BY <2>1, <2>2, StampKept
<1>7. CASE TruncateHistory(p)
  <2>1. GoTo(p, "save") /\ "save" \in Phases
    BY <1>7 DEF TruncateHistory, Phases
  <2>2. proc'[p].pc = "save" /\ \A q \in Procs \ {p} : proc'[q] = proc[q]
    BY <2>1, GoToMoves
  <2>3. StampedBy(proc'[p])
    BY <2>2 DEF StampedBy
  <2> QED
    BY <1>7, <2>2, <2>3, StampKept DEF TruncateHistory, history
<1>8. CASE Rewrites(p)
  <2>1. /\ proc'[p].pc = "write" /\ proc'[p].run = proc[p].run
        /\ proc'[p].hash = proc[p].hash
        /\ OfRun(proc'[p]) => OfRun(proc[p])
        /\ \A q \in Procs \ {p} : proc'[q] = proc[q]
        /\ UNCHANGED <<config, edited, result>>
    BY <1>8, RewriteLocks DEF history
  <2>2. proc[p].pc \in {"create", "activate", "rollback"}
    BY <1>8 DEF Rewrites, CreateState, Activate, Rollback
  <2>3. proc'[p].run \notin edited => StampedBy(proc'[p])
    BY <1>0, <2>1, <2>2 DEF StampedBy
  <2> QED
    BY <2>1, <2>3, StampKept
<1>9. CASE SaveHistory(p)
  <2>1. StampedBy(proc'[p])
    BY <1>0, <1>9, SaveMoves DEF StampedBy
  <2> QED
    BY <1>9, <2>1, SaveMoves, StampKept
<1>10. CASE \/ LoadState(p)
            \/ Rollback(p) /\ ~ Rewrites(p)
  <2>1. /\ UNCHANGED <<config, edited, result>>
        /\ \A q \in Procs \ {p} : proc'[q] = proc[q]
        /\ \/ proc'[p] = Idle
           \/ /\ proc[p].pc \in {"load", "reload"}
              /\ proc'[p].pc \in {"activate", "read"}
              /\ proc'[p].run = proc[p].run /\ proc'[p].hash = proc[p].hash
    BY <1>10, LoadMoves DEF history
  <2>2. proc'[p].run \notin edited => StampedBy(proc'[p])
    BY <1>0, <2>1 DEF StampedBy, OfRun, RunPhases
  <2> QED
    BY <2>1, <2>2, StampKept
<1> QED
  BY <1>1, <1>2, <1>3, <1>4, <1>5, <1>6, <1>7, <1>8, <1>9, <1>10
     DEF Step, Rewrites

LEMMA StampNext == PipelineInv /\ StampInv /\ [Next]_vars => StampInv'
<1> SUFFICES ASSUME PipelineInv, StampInv, [Next]_vars PROVE StampInv'
  OBVIOUS
<1>1. CASE UNCHANGED vars
  BY <1>1 DEF vars, history, StampInv, StampedBy, StampedResult, OfRun
<1>2. ASSUME NEW c \in Configs, EditConfig(c) PROVE StampInv'
  <2>1. /\ UNCHANGED <<proc, result>> /\ edited \subseteq edited'
        /\ \A p \in Procs : proc[p].run \in edited' \/ ~ Hashed(p)
    BY <1>2 DEF EditConfig
  <2>2. \A p \in Procs :
          ~ Hashed(p) /\ StampedBy(proc[p]) => StampedBy(proc[p])'
    BY <2>1 DEF StampedBy, OfRun, RunPhases, Hashed
  <2> QED
    BY <2>1, <2>2 DEF StampInv, StampedResult
<1>3. ASSUME NEW p \in Procs, Crash(p) PROVE StampInv'
  <2>1. StampedBy(proc'[p])
    BY <1>3, IdleIsProcess, CrashMoves DEF StampedBy
  <2> QED
    BY <1>3, <2>1, CrashMoves, StampKept
<1> QED
  BY <1>1, <1>2, <1>3, StampStep DEF Next

LEMMA StampStart == Init => StampInv
  BY IdleIsProcess DEF Init, StampInv, StampedBy

(* The bands of a half-open interval come one after the other: no          *)
(* validator of RAGThreshold checks it, rules/threshold_config.yaml        *)
(* satisfies it.  Nothing is assumed of the values.                        *)
BandsInOrder ==
    \A c \in Configs :
        LET t == Threshold[c] IN
        /\ t.interval = "[min, max)" =>
              /\ t.greenMin <= t.amberMin /\ t.amberMin <= t.amberMax
              /\ t.amberMax <= t.redMin
        /\ t.interval = "(min, max]" =>
              /\ t.redMax <= t.amberMin /\ t.amberMin <= t.amberMax
              /\ t.amberMax <= t.greenMax

(* The value v is rated no better than the value w that is nearer to green, *)
(* whatever other values there are.                                        *)
LEMMA FurtherIsNotBetter ==
  ASSUME BandsInOrder, NEW c \in Configs, NEW v \in Values, NEW w \in Values
  PROVE  LET t == Threshold[c]
             x == BoundarySemantics(v, t)
             y == BoundarySemantics(w, t)
         IN  /\ Further(v, w, t) => Worse[x] >= Worse[y]
             /\ Beyond(v, t) \/ t.interval = "[min, max]" => x = "Amber"
<1> DEFINE t == Threshold[c]
           x == BoundarySemantics(v, t)
           y == BoundarySemantics(w, t)
<1>1. t \in [greenMin: Int, greenMax: Int, amberMin: Int, amberMax: Int,
             redMin: Int, redMax: Int,
             interval: {"[min, max)", "(min, max]", "[min, max]"}]
  BY PipelineAssumption
<1>2. v \in Int /\ w \in Int
  BY PipelineAssumption
<1>3. /\ t.interval = "[min, max)" =>
            /\ t.greenMin <= t.amberMin /\ t.amberMin <= t.amberMax
            /\ t.amberMax <= t.redMin
      /\ t.interval = "(min, max]" =>
            /\ t.redMax <= t.amberMin /\ t.amberMin <= t.amberMax
            /\ t.amberMax <= t.greenMax
  BY DEF BandsInOrder
<1>4. Worse["Green"] = 0 /\ Worse["Amber"] = 1 /\ Worse["Red"] = 2
  BY DEF Worse
<1> HIDE DEF t
<1>8. /\ t.greenMin \in Int /\ t.greenMax \in Int /\ t.amberMin \in Int
      /\ t.amberMax \in Int /\ t.redMin \in Int /\ t.redMax \in Int
  BY <1>1
<1>0. x \in {"Green", "Amber", "Red"} /\ y \in {"Green", "Amber", "Red"}
  BY BoundaryIsRag
<1>5. CASE t.interval = "[min, max)"
  <2>1. ASSUME NEW u
        PROVE  BoundarySemantics(u, t) =
                  IF t.greenMin <= u /\ u < t.greenMax THEN "Green"
                  ELSE IF t.amberMin <= u /\ u < t.amberMax THEN "Amber"
                  ELSE IF u >= t.redMin THEN "Red" ELSE "Amber"
    BY <1>5 DEF BoundarySemantics
  <2>6. /\ x = IF t.greenMin <= v /\ v < t.greenMax THEN "Green"
               ELSE IF t.amberMin <= v /\ v < t.amberMax THEN "Amber"
               ELSE IF v >= t.redMin THEN "Red" ELSE "Amber"
        /\ y = IF t.greenMin <= w /\ w < t.greenMax THEN "Green"
               ELSE IF t.amberMin <= w /\ w < t.amberMax THEN "Amber"
               ELSE IF w >= t.redMin THEN "Red" ELSE "Amber"
    BY <2>1, Zenon
  <2> HIDE DEF x, y
  <2>2. /\ t.greenMin <= t.amberMin /\ t.amberMin <= t.amberMax
        /\ t.amberMax <= t.redMin
    BY <1>3, <1>5
  <2>3. ASSUME v >= w, t.greenMin <= w PROVE Worse[x] >= Worse[y]
    <3>1. x = "Green" => y = "Green"
      BY <1>2, <1>8, <2>2, <2>3, <2>6
    <3>2. y = "Red" => x = "Red"
      BY <1>2, <1>8, <2>2, <2>3, <2>6
    <3> QED
      BY <1>0, <1>4, <3>1, <3>2
  <2>4. v < t.greenMin => x = "Amber"
    BY <1>2, <1>8, <2>2, <2>6
  <2>5. /\ Further(v, w, t) => v >= w /\ t.greenMin <= w
        /\ Beyond(v, t) => v < t.greenMin
    <3>1. "(min, max]" # "[min, max)"
      OBVIOUS
    <3>2. /\ Further(v, w, t) => v >= w /\ ~ (w < t.greenMin)
          /\ Beyond(v, t) => v < t.greenMin
      BY <1>5, <3>1, Zenon DEF Further, Beyond
    <3> QED
      BY <1>2, <1>8, <3>2
  <2> QED
    BY <1>5, <2>3, <2>4, <2>5 DEF t, x, y
<1>6. CASE t.interval = "(min, max]"
  <2>1. ASSUME NEW u
        PROVE  BoundarySemantics(u, t) =
                  IF t.greenMin < u /\ u <= t.greenMax THEN "Green"
                  ELSE IF t.amberMin < u /\ u <= t.amberMax THEN "Amber"
                  ELSE IF u <= t.redMax THEN "Red" ELSE "Amber"
    BY <1>6 DEF BoundarySemantics
  <2>6. /\ x = IF t.greenMin < v /\ v <= t.greenMax THEN "Green"
               ELSE IF t.amberMin < v /\ v <= t.amberMax THEN "Amber"
               ELSE IF v <= t.redMax THEN "Red" ELSE "Amber"
        /\ y = IF t.greenMin < w /\ w <= t.greenMax THEN "Green"
               ELSE IF t.amberMin < w /\ w <= t.amberMax THEN "Amber"
               ELSE IF w <= t.redMax THEN "Red" ELSE "Amber"
    BY <2>1, Zenon
  <2> HIDE DEF x, y
  <2>2. /\ t.redMax <= t.amberMin /\ t.amberMin <= t.amberMax
        /\ t.amberMax <= t.greenMax
    BY <1>3, <1>6
  <2>3. ASSUME v <= w, w <= t.greenMax PROVE Worse[x] >= Worse[y]
    <3>1. x = "Green" => y = "Green"
      BY <1>2, <1>8, <2>2, <2>3, <2>6
    <3>2. y = "Red" => x = "Red"
      BY <1>2, <1>8, <2>2, <2>3, <2>6
    <3> QED
      BY <1>0, <1>4, <3>1, <3>2
  <2>4. v > t.greenMax => x = "Amber"
    BY <1>2, <1>8, <2>2, <2>6
  <2>5. /\ Further(v, w, t) => v <= w /\ w <= t.greenMax
        /\ Beyond(v, t) => v > t.greenMax
    <3>1. "(min, max]" # "[min, max)"
      OBVIOUS
    <3>2. /\ Further(v, w, t) => v <= w /\ ~ (w > t.greenMax)
          /\ Beyond(v, t) => v > t.greenMax
      BY <1>6, <3>1, Zenon DEF Further, Beyond
    <3> QED
      BY <1>2, <1>8, <3>2
  <2> QED
    BY <1>6, <2>3, <2>4, <2>5 DEF t, x, y
<1>7. CASE t.interval = "[min, max]"
  <2>1. x = "Amber" /\ ~ Further(v, w, t)
    BY <1>7 DEF BoundarySemantics, Further
  <2> QED
    BY <1>7, <2>1 DEF t, x
<1> QED
  BY <1>1, <1>5, <1>6, <1>7

(* Whatever the thresholds are, the hash on a result names the             *)
(* configuration its classification comes from, unless the file was edited *)
(* between being hashed and being read.                                    *)
THEOREM StampNamesThresholds ==
  Spec => [](\A x \in result : StampedResult(x))
<1>1. StampInv => \A x \in result : StampedResult(x)
  BY DEF StampInv
<1> QED
  BY <1>1, PipelineInit, PipelineNext, StampStart, StampNext, PTL DEF Spec

(* Results with the same stamp can be compared, whatever their values: the *)
(* same value is rated alike, one further from green never better, one     *)
(* beyond the green band amber, and with a closed interval all are amber.  *)
THEOREM StampsAreComparable ==
  ASSUME BandsInOrder PROVE Spec => []StampDeterminesRag
<1>1. PipelineInv /\ StampInv => StampDeterminesRag
  <2> SUFFICES ASSUME PipelineInv, StampInv, NEW x \in result, NEW y \in result,
                      x.stamp = y.stamp
               PROVE  LET t == Threshold[x.stamp] IN
                      /\ x.value = y.value => x.rag = y.rag
                      /\ Further(x.value, y.value, t) =>
                            Worse[x.rag] >= Worse[y.rag]
                      /\ Beyond(x.value, t) \/ t.interval = "[min, max]" =>
                            x.rag = "Amber"
    BY DEF StampDeterminesRag
  <2>1. x.value \in Values /\ y.value \in Values /\ x.stamp \in Configs
    BY DEF PipelineInv, TypeOK
  <2>2. /\ x.rag = BoundarySemantics(x.value, Threshold[x.stamp])
        /\ y.rag = BoundarySemantics(y.value, Threshold[x.stamp])
    BY DEF StampInv, StampedResult
  <2> QED
    BY <2>1, <2>2, FurtherIsNotBetter
<1> QED
  BY <1>1, PipelineInit, PipelineNext, StampStart, StampNext, PTL DEF Spec
=============================================================================
