------------------------ MODULE EvidenceWorkflowProofs ------------------------
(***************************************************************************)
(* Theorems about EvidenceWorkflow, for any number of handlers and rows.   *)
(***************************************************************************)
EXTENDS EvidenceWorkflow, TLAPS

(* The vault's variables as the handlers use them: a handler appends only  *)
(* while it waits for its evidence, and one that does not is back in the   *)
(* initial state of an appending coroutine.                                *)
WriterOK ==
    /\ vault \in [{Tenant} -> SUBSET Vault!Record]
    /\ clock \in Nat
    /\ writer \in [Handlers -> Vault!WriterState]
    /\ \A h \in Handlers :
          /\ writer[h].pc = "idle" => writer[h] = Vault!IdleWriter
          /\ writer[h].pc # "idle" => handler[h].pc = "append"
          /\ writer[h].pc = "commit" => writer[h].ts # None

(* The operations that write the evidence they file into a row.            *)
Filing == {"fulfil", "upload", "pentest", "sign"}

(* What an operation works on, and the status it will write.               *)
OpOK ==
    \A h \in Handlers : handler[h].pc # "idle" =>
        /\ handler[h].op \in Ops
        /\ handler[h].op \in {"upload", "update"} =>
              handler[h].target \in FindingStatus
        /\ handler[h].op \in {"pentest", "reopen"} =>
              handler[h].target \in PenTestStatus
        /\ handler[h].op = "sign" => handler[h].subject \in Documents
        /\ handler[h].op = "fulfil" => handler[h].subject \in Requests
        /\ handler[h].pc = "append" => handler[h].op \in Filing \cup {"auto"}

WorkInv == TypeOK /\ WriterOK /\ OpOK

(* The evidence a handler is about to write into its row was filed for it. *)
Carried ==
    \A h \in Handlers :
        handler[h].pc = "record" /\ handler[h].op \in Filing =>
            /\ handler[h].evidence # None
            /\ FiledFor(handler[h].evidence, handler[h].op, handler[h].subject)

(* Strengthening of RowsAreEvidenced: the inductive invariant.             *)
EvidenceInv == Carried /\ RowsAreEvidenced

-----------------------------------------------------------------------------
(* Type correctness                                                        *)

LEMMA IdleIsState == Idle \in HandlerState
  BY SubjectsAssumption
     DEF Idle, HandlerState, None, Status, FindingStatus, PenTestStatus, Ops

LEMMA IdleWriterIsState == Vault!IdleWriter \in Vault!WriterState
  BY DEF Vault!IdleWriter, Vault!WriterState, Vault!NoTenant, Vault!Genesis

LEMMA WorkInit == Init => WorkInv
<1> SUFFICES ASSUME Init PROVE WorkInv
  OBVIOUS
<1>1. TypeOK
  BY IdleIsState
     DEF Init, TypeOK, None, FindingStatus, PenTestStatus
<1>2. WriterOK
  BY IdleWriterIsState DEF Init, Vault!Init, WriterOK, Vault!IdleWriter
<1>3. OpOK
  BY DEF Init, OpOK, Idle
<1> QED
  BY <1>1, <1>2, <1>3 DEF WorkInv

(* Every first query is a Start with well-typed parameters.                *)
LEMMA BeginStarts ==
  ASSUME TypeOK, NEW h \in Handlers, Begin(h)
  PROVE  \E op \in Ops, s \in Subjects, pc \in {"append", "record"},
            seen, target \in Status :
            /\ Start(h, op, s, pc, seen, target)
            /\ op \in {"upload", "update"} => target \in FindingStatus
            /\ op \in {"pentest", "reopen"} => target \in PenTestStatus
            /\ op = "sign" => s \in Documents
            /\ pc = "record" => op \notin Filing
            /\ pc = "append" => op \in Filing \cup {"auto"}
            /\ op = "fulfil" => s \in Requests /\ request[s].status = "pending"
            /\ op = "auto" => s \in Requests /\ request[s].status = "absent"
            /\ op = "sign" => \A x \in signoffs : x.subject # s
            /\ op = "reopen" => target = "scheduled"
<1> USE DEF Ops, Subjects, Status, FindingStatus, PenTestStatus, Filing
<1>1. ASSUME NEW r \in Requests, BeginFulfil(h, r)
      PROVE  /\ request[r].status = "pending"
             /\ Start(h, "fulfil", r, "append", "finding", "finding")
  BY <1>1 DEF BeginFulfil, StartAppend
<1>2. ASSUME NEW r \in Requests, BeginAuto(h, r)
      PROVE  /\ request[r].status = "absent"
             /\ Start(h, "auto", r, "append", "finding", "finding")
  BY <1>2 DEF BeginAuto, StartAppend
<1>3. ASSUME NEW f \in Findings, BeginUpload(h, f)
      PROVE  /\ finding[f].status \in FindingStatus
             /\ Start(h, "upload", f, "append", finding[f].status, "closed")
  BY <1>3 DEF BeginUpload, TypeOK
<1>4. ASSUME NEW f \in Findings, NEW st \in FindingStatus, BeginUpdate(h, f, st)
      PROVE  /\ finding[f].status \in FindingStatus
             /\ Start(h, "update", f, "record", finding[f].status, st)
  BY <1>4 DEF BeginUpdate, TypeOK
<1>5. ASSUME NEW p \in PenTests, BeginPenTest(h, p)
      PROVE  /\ pentest[p].status \in PenTestStatus
             /\ Start(h, "pentest", p, "append", pentest[p].status, "completed")
  BY <1>5 DEF BeginPenTest, TypeOK
<1>6. ASSUME NEW p \in PenTests, BeginReopen(h, p)
      PROVE  /\ pentest[p].status \in PenTestStatus
             /\ Start(h, "reopen", p, "record", pentest[p].status, "scheduled")
  BY <1>6 DEF BeginReopen, TypeOK
<1>7. ASSUME NEW s \in Documents, BeginSignOff(h, s)
      PROVE  /\ \A x \in signoffs : x.subject # s
             /\ Start(h, "sign", s, "append", "finding", "finding")
  BY <1>7 DEF BeginSignOff, StartAppend
<1> QED
  BY <1>1, <1>2, <1>3, <1>4, <1>5, <1>6, <1>7 DEF Begin

(* A handler that starts leaves vault and rows alone.                      *)
LEMMA WorkBegin ==
  ASSUME WorkInv, NEW h \in Handlers, Begin(h)
  PROVE  WorkInv' /\ UNCHANGED <<vaultVars, rowVars, filed, lost>>
<1> USE DEF WorkInv
<1>1. PICK op \in Ops, s \in Subjects, pc \in {"append", "record"},
           seen, target \in Status :
            /\ Start(h, op, s, pc, seen, target)
            /\ op \in {"upload", "update"} => target \in FindingStatus
            /\ op \in {"pentest", "reopen"} => target \in PenTestStatus
            /\ op = "sign" => s \in Documents
            /\ op = "fulfil" => s \in Requests
            /\ pc = "append" => op \in Filing \cup {"auto"}
  BY BeginStarts
<1> DEFINE new == [op |-> op, subject |-> s, pc |-> pc, evidence |-> None,
                   seen |-> seen, target |-> target]
<1>2. /\ handler[h].pc = "idle"
      /\ handler' = [handler EXCEPT ![h] = new]
      /\ contended' \subseteq contended \cup {s}
      /\ UNCHANGED <<vaultVars, rowVars, filed, lost>>
  BY <1>1 DEF Start
<1>3. new \in HandlerState
  BY DEF HandlerState, None
<1>4. TypeOK'
  BY <1>2, <1>3 DEF TypeOK, rowVars
<1>5. \A g \in Handlers : handler'[g] = IF g = h THEN new ELSE handler[g]
  BY <1>2 DEF TypeOK
<1>6. WriterOK'
  BY <1>2, <1>5 DEF WriterOK, vaultVars
<1>7. OpOK'
  BY <1>1, <1>5 DEF OpOK
<1> QED
  BY <1>2, <1>4, <1>6, <1>7

LEMMA LatestIsNat ==
  ASSUME NEW rs \in SUBSET Vault!Record
  PROVE  Vault!LatestChainHashes(rs) \subseteq Nat
  BY DEF Vault!LatestChainHashes, Vault!Record, Vault!Genesis

LEMMA WorkReadTip ==
  ASSUME WorkInv, NEW h \in Handlers, ReadTip(h)
  PROVE  WorkInv'
<1> USE DEF WorkInv
<1>1. Vault!ReadTip(h, Tenant) /\ handler[h].pc = "append"
      /\ UNCHANGED <<rowVars, handler, history>>
  BY DEF ReadTip
<1>2. PICK linked \in BOOLEAN, prev \in Nat :
        writer' = [writer EXCEPT ![h] =
                     [pc |-> "stamp", tenant |-> Tenant, prev |-> prev,
                      ts |-> 0, linked |-> linked]]
  BY <1>1, LatestIsNat DEF Vault!ReadTip, Vault!Links, WriterOK
<1>3. UNCHANGED <<vault, clock>>
  BY <1>1 DEF Vault!ReadTip
<1>4. TypeOK' /\ OpOK'
  BY <1>1 DEF TypeOK, OpOK, rowVars, history
<1>5. WriterOK'
  BY <1>1, <1>2, <1>3 DEF WriterOK, Vault!WriterState
<1> QED
  BY <1>4, <1>5

LEMMA WorkStamp ==
  ASSUME WorkInv, NEW h \in Handlers, Stamp(h)
  PROVE  WorkInv'
<1> USE DEF WorkInv
<1>1. Vault!Stamp(h) /\ UNCHANGED <<rowVars, handler, history>>
  BY DEF Stamp
<1>2. /\ writer[h].pc = "stamp"
      /\ clock' = clock + 1 /\ vault' = vault
      /\ writer' = [writer EXCEPT ![h].pc = "commit", ![h].ts = clock + 1]
  BY <1>1 DEF Vault!Stamp
<1>3. TypeOK' /\ OpOK'
  BY <1>1 DEF TypeOK, OpOK, rowVars, history
<1> DEFINE new == [writer[h] EXCEPT !.pc = "commit", !.ts = clock + 1]
<1>4. /\ \A g \in Handlers : g # h => writer'[g] = writer[g]
      /\ writer'[h].pc = "commit" /\ writer'[h].ts = clock + 1
      /\ writer' \in [Handlers -> Vault!WriterState]
  <2>1. writer[h] \in Vault!WriterState /\ clock + 1 \in Nat
    BY DEF WriterOK
  <2>2. /\ new \in Vault!WriterState
        /\ new.pc = "commit" /\ new.ts = clock + 1
    BY <2>1 DEF Vault!WriterState
  <2>3. writer' = [writer EXCEPT ![h] = new]
    BY <1>2
  <2> HIDE DEF new
  <2> QED
    BY <2>2, <2>3 DEF WriterOK
<1>5. clock \in Nat /\ clock' \in Nat /\ clock + 1 # None
  BY <1>2 DEF WriterOK, None
<1>6. handler' = handler
  BY <1>1
<1>7. \A g \in Handlers :
        /\ writer'[g].pc = "idle" => writer'[g] = Vault!IdleWriter
        /\ writer'[g].pc # "idle" => handler'[g].pc = "append"
        /\ writer'[g].pc = "commit" => writer'[g].ts # None
  BY <1>2, <1>4, <1>5, <1>6 DEF WriterOK
<1>8. WriterOK'
  BY <1>2, <1>4, <1>5, <1>7 DEF WriterOK, Vault!IdleWriter, Vault!NoTenant,
     Vault!Genesis, Vault!Record, Vault!WriterState
<1> QED
  BY <1>3, <1>8

(* What CommitEvidence does to vault, writer and handler.                  *)
LEMMA CommitFiles ==
  ASSUME WorkInv, NEW h \in Handlers, CommitEvidence(h)
  PROVE  /\ handler[h].pc = "append"
         /\ writer[h].ts \in Nat /\ writer[h].ts # None
         /\ vault' = [vault EXCEPT ![Tenant] = @ \cup {Vault!NewRecord(h)}]
         /\ Vault!NewRecord(h) \in Vault!Record
         /\ Vault!NewRecord(h).ts = writer[h].ts
         /\ writer' = [writer EXCEPT ![h] = Vault!IdleWriter]
         /\ clock' = clock
         /\ \A g \in Handlers : g # h => handler'[g] = handler[g]
         /\ handler'[h] = IF handler[h].op = "auto" THEN Idle
                          ELSE [handler[h] EXCEPT !.pc = "record",
                                                  !.evidence = writer[h].ts]
         /\ handler'[h].pc = "record" =>
              /\ handler'[h].op = handler[h].op
              /\ handler'[h].subject = handler[h].subject
              /\ handler'[h].evidence = writer[h].ts
         /\ handler' \in [Handlers -> HandlerState]
<1> USE DEF WorkInv
<1>1. /\ writer[h].pc = "commit"
      /\ vault' = [vault EXCEPT ![writer[h].tenant] = @ \cup {Vault!NewRecord(h)}]
      /\ writer' = [writer EXCEPT ![h] = Vault!IdleWriter]
      /\ clock' = clock
  BY DEF CommitEvidence, Vault!Commit
<1>2. writer[h] \in Vault!WriterState
  BY DEF WriterOK
<1>3. writer[h].tenant = Tenant /\ writer[h].ts \in Nat
  BY <1>2 DEF Vault!WriterState
<1>4. /\ Vault!NewRecord(h) \in Vault!Record
      /\ Vault!NewRecord(h).ts = writer[h].ts
  BY <1>2 DEF Vault!NewRecord, Vault!Record, Vault!WriterState
<1>5. handler[h].pc = "append" /\ writer[h].ts # None
  BY <1>1 DEF WriterOK
<1> DEFINE new == IF handler[h].op = "auto" THEN Idle
                  ELSE [handler[h] EXCEPT !.pc = "record",
                                          !.evidence = writer[h].ts]
<1>6. handler' = [handler EXCEPT ![h] = new]
  BY DEF CommitEvidence
<1>7. /\ new \in HandlerState
      /\ new.pc = "record" =>
           /\ new.op = handler[h].op /\ new.subject = handler[h].subject
           /\ new.evidence = writer[h].ts
  <2>1. handler[h] \in HandlerState
    BY DEF TypeOK
  <2>2. Idle.pc = "idle"
    BY DEF Idle
  <2> QED
    BY <1>3, <2>1, <2>2, IdleIsState DEF HandlerState
<1> HIDE DEF new
<1>8. /\ \A g \in Handlers : g # h => handler'[g] = handler[g]
      /\ handler'[h] = new
      /\ handler' \in [Handlers -> HandlerState]
  BY <1>6, <1>7 DEF TypeOK
<1> QED
  BY <1>1, <1>3, <1>4, <1>5, <1>7, <1>8 DEF new

LEMMA StatusIsTyped ==
  ASSUME TypeOK, OpOK, NEW h \in Handlers, handler[h].pc # "idle", NEW st
  PROVE  /\ handler[h].op \in {"upload", "update"} /\ st \in FindingStatus
              => StatusColumn(h, st) \in FindingStatus
         /\ handler[h].op \in {"pentest", "reopen"} /\ st \in PenTestStatus
              => StatusColumn(h, st) \in PenTestStatus
  BY DEF OpOK, StatusColumn

LEMMA PenTestIsTyped ==
  ASSUME TypeOK, OpOK, NEW h \in Handlers, handler[h].pc # "idle",
         handler[h].op \in {"pentest", "reopen"}, SetPenTestStatus(h)
  PROVE  pentest' \in [PenTests -> [status: PenTestStatus, evidence: Nat]]
  BY StatusIsTyped DEF SetPenTestStatus, TypeOK

LEMMA WorkCommit ==
  ASSUME WorkInv, NEW h \in Handlers, CommitEvidence(h)
  PROVE  WorkInv'
<1> USE DEF WorkInv
<1> DEFINE s == handler[h].subject
           entry == [evidence |-> writer[h].ts, op |-> handler[h].op,
                     subject |-> s]
<1>1. /\ filed' = filed \cup {entry}
      /\ request' = IF handler[h].op = "auto"
                      THEN [request EXCEPT ![s].status = "pending"] ELSE request
      /\ IF handler[h].op = "pentest" THEN SetPenTestStatus(h) ELSE UNCHANGED pentest
      /\ UNCHANGED <<finding, signoffs, contended, lost>>
  BY DEF CommitEvidence
<1>2. handler[h].pc = "append" /\ writer[h].ts \in Nat
  BY CommitFiles
<1>3. entry \in [evidence: Nat, op: Ops, subject: Subjects]
  BY <1>2 DEF TypeOK, HandlerState, OpOK
<1>4. pentest' \in [PenTests -> [status: PenTestStatus, evidence: Nat]]
  <2>1. CASE handler[h].op = "pentest"
    BY <1>1, <1>2, <2>1, PenTestIsTyped
  <2>2. CASE handler[h].op # "pentest"
    BY <1>1, <2>2 DEF TypeOK
  <2> QED
    BY <2>1, <2>2
<1>5. request' \in [Requests -> [status: {"absent", "pending", "fulfilled"},
                                 evidence: Nat]]
  BY <1>1 DEF TypeOK
<1> HIDE DEF entry
<1>6. TypeOK'
  BY <1>1, <1>3, <1>4, <1>5, CommitFiles DEF TypeOK
<1>7. /\ \A g \in Handlers : g # h => writer'[g] = writer[g]
      /\ writer'[h] = Vault!IdleWriter
      /\ writer' \in [Handlers -> Vault!WriterState]
  BY CommitFiles, IdleWriterIsState DEF WriterOK
<1>8. vault' \in [{Tenant} -> SUBSET Vault!Record]
  <2>1. /\ vault' = [vault EXCEPT ![Tenant] = @ \cup {Vault!NewRecord(h)}]
        /\ Vault!NewRecord(h) \in Vault!Record
    BY CommitFiles
  <2> QED
    BY <2>1 DEF WriterOK
<1>9. Vault!IdleWriter.pc = "idle"
  BY DEF Vault!IdleWriter
<1>10. \A g \in Handlers : g # h => handler'[g] = handler[g]
  BY CommitFiles
<1>11. WriterOK'
  <2>1. \A g \in Handlers :
          /\ writer'[g].pc = "idle" => writer'[g] = Vault!IdleWriter
          /\ writer'[g].pc # "idle" => handler'[g].pc = "append"
          /\ writer'[g].pc = "commit" => writer'[g].ts # None
    BY <1>7, <1>9, <1>10 DEF WriterOK
  <2> QED
    BY <1>7, <1>8, <2>1, CommitFiles DEF WriterOK, Vault!IdleWriter,
       Vault!NoTenant, Vault!Genesis, Vault!Record, Vault!WriterState
<1>12. OpOK'
  <2>1. ~ (Idle.pc # "idle")
    BY DEF Idle
  <2>2. handler[h].op # "auto" =>
          /\ handler'[h].op = handler[h].op
          /\ handler'[h].target = handler[h].target
          /\ handler'[h].subject = handler[h].subject
    <3>1. handler[h] \in HandlerState
      BY DEF TypeOK
    <3>2. handler[h].op # "auto" =>
            handler'[h] = [handler[h] EXCEPT !.pc = "record",
                                             !.evidence = writer[h].ts]
      BY CommitFiles
    <3> QED
      BY <3>1, <3>2 DEF HandlerState
  <2>3. handler[h].op = "auto" => handler'[h] = Idle
    BY CommitFiles
  <2> QED
    BY <1>2, <1>10, <2>1, <2>2, <2>3 DEF OpOK
<1> QED
  BY <1>6, <1>11, <1>12

(* A handler that is back in its initial state, its writer idle.           *)
LEMMA BackToIdle ==
  ASSUME WorkInv, NEW h \in Handlers,
         handler' = [handler EXCEPT ![h] = Idle],
         writer' = [writer EXCEPT ![h] = Vault!IdleWriter],
         vault' = vault, clock' = clock
  PROVE  WriterOK' /\ OpOK' /\ handler' \in [Handlers -> HandlerState]
<1> USE DEF WorkInv
<1>1. /\ \A g \in Handlers : g # h => /\ handler'[g] = handler[g]
                                      /\ writer'[g] = writer[g]
      /\ handler'[h] = Idle /\ writer'[h] = Vault!IdleWriter
      /\ writer' \in [Handlers -> Vault!WriterState]
      /\ handler' \in [Handlers -> HandlerState]
  BY IdleIsState, IdleWriterIsState DEF TypeOK, WriterOK
<1>2. Idle.pc = "idle" /\ Vault!IdleWriter.pc = "idle"
  BY DEF Idle, Vault!IdleWriter
<1>3. OpOK'
  BY <1>1, <1>2 DEF OpOK
<1>4. \A g \in Handlers :
        /\ writer'[g].pc = "idle" => writer'[g] = Vault!IdleWriter
        /\ writer'[g].pc # "idle" => handler'[g].pc = "append"
        /\ writer'[g].pc = "commit" => writer'[g].ts # None
  BY <1>1, <1>2 DEF WriterOK
<1>5. WriterOK'
  BY <1>1, <1>4 DEF WriterOK, Vault!IdleWriter, Vault!NoTenant,
     Vault!Genesis, Vault!Record, Vault!WriterState
<1> QED
  BY <1>1, <1>3, <1>5

(* A handler writes its row only when its writer is done.                  *)
LEMMA RecordFrame ==
  ASSUME WorkInv, NEW h \in Handlers, Record(h)
  PROVE  /\ handler[h].pc = "record"
         /\ handler' = [handler EXCEPT ![h] = Idle]
         /\ writer' = [writer EXCEPT ![h] = Vault!IdleWriter]
         /\ UNCHANGED <<vaultVars, filed, contended, lost>>
<1>1. /\ handler[h].pc = "record"
      /\ handler' = [handler EXCEPT ![h] = Idle]
      /\ UNCHANGED <<vaultVars, filed, contended, lost>>
  BY DEF Record, history
<1>2. writer[h] = Vault!IdleWriter /\ writer \in [Handlers -> Vault!WriterState]
  <2>1. writer[h].pc \in {"idle", "stamp", "commit"}
    BY DEF WorkInv, WriterOK, Vault!WriterState
  <2> QED
    BY <1>1, <2>1 DEF WorkInv, WriterOK
<1>3. writer' = writer
  BY <1>1 DEF vaultVars
<1> QED
  BY <1>1, <1>2, <1>3

LEMMA WorkRecord ==
  ASSUME WorkInv, NEW h \in Handlers, Record(h)
  PROVE  WorkInv'
<1> USE DEF WorkInv
<1>1. /\ handler[h].pc = "record" /\ vault' = vault /\ clock' = clock
      /\ UNCHANGED <<filed, contended, lost>>
  BY RecordFrame DEF vaultVars
<1>2. WriterOK' /\ OpOK' /\ handler' \in [Handlers -> HandlerState]
  BY <1>1, RecordFrame, BackToIdle
<1>3. handler[h].evidence \in Nat
  BY DEF TypeOK, HandlerState
<1>4. /\ request' \in [Requests -> [status: {"absent", "pending", "fulfilled"},
                                    evidence: Nat]]
      /\ finding' \in [Findings -> [status: FindingStatus, evidence: Nat]]
      /\ pentest' \in [PenTests -> [status: PenTestStatus, evidence: Nat]]
      /\ signoffs' \subseteq [subject: Documents, evidence: Nat]
  <2>1. CASE RecordRequest(h)
    BY <1>3, <2>1 DEF RecordRequest, TypeOK
  <2>2. CASE RecordFinding(h)
    <3>1. /\ finding' = [finding EXCEPT
                ![handler[h].subject].status = StatusColumn(h, @),
                ![handler[h].subject].evidence =
                    IF handler[h].op = "upload" THEN handler[h].evidence ELSE @]
          /\ handler[h].op \in {"upload", "update"}
          /\ UNCHANGED <<request, pentest, signoffs>>
      BY <2>2 DEF RecordFinding
    <3>2. \A st \in FindingStatus : StatusColumn(h, st) \in FindingStatus
      BY <1>1, <3>1, StatusIsTyped
    <3>3. finding \in [Findings -> [status: FindingStatus, evidence: Nat]]
      BY DEF TypeOK
    <3>4. finding' \in [Findings -> [status: FindingStatus, evidence: Nat]]
      BY <1>3, <3>1, <3>2, <3>3
    <3> QED
      BY <3>1, <3>4 DEF TypeOK
  <2>3. CASE RecordPenTest(h)
    <3>1. CASE handler[h].op = "pentest"
      BY <1>3, <2>3, <3>1 DEF RecordPenTest, TypeOK
    <3>2. CASE handler[h].op = "reopen"
      BY <1>1, <2>3, <3>2, PenTestIsTyped DEF RecordPenTest, TypeOK
    <3> QED
      BY <2>3, <3>1, <3>2 DEF RecordPenTest
  <2>4. CASE RecordSignOff(h)
    BY <1>1, <1>3, <2>4 DEF RecordSignOff, TypeOK, OpOK
  <2> QED
    BY <2>1, <2>2, <2>3, <2>4 DEF Record
<1>5. TypeOK'
  BY <1>1, <1>2, <1>4 DEF TypeOK
<1> QED
  BY <1>2, <1>5

LEMMA WorkFail ==
  ASSUME WorkInv, NEW h \in Handlers, Fail(h)
  PROVE  WorkInv'
<1> USE DEF WorkInv
<1> DEFINE entry == [evidence |-> handler[h].evidence, op |-> handler[h].op,
                     subject |-> handler[h].subject]
<1>1. /\ handler[h].pc # "idle"
      /\ handler' = [handler EXCEPT ![h] = Idle]
      /\ writer' = [writer EXCEPT ![h] = Vault!IdleWriter]
      /\ lost' \subseteq lost \cup {entry}
      /\ UNCHANGED <<vault, clock, rowVars, filed, contended>>
  BY DEF Fail
<1>2. entry \in [evidence: Nat, op: Ops, subject: Subjects]
  BY <1>1 DEF TypeOK, HandlerState, OpOK
<1>3. WriterOK' /\ OpOK' /\ handler' \in [Handlers -> HandlerState]
  BY <1>1, BackToIdle
<1> HIDE DEF entry
<1>4. TypeOK'
  BY <1>1, <1>2, <1>3 DEF TypeOK, rowVars
<1> QED
  BY <1>3, <1>4

LEMMA WorkCreate ==
  ASSUME WorkInv, NEW r \in Requests, CreateRequest(r)
  PROVE  WorkInv'
<1> USE DEF WorkInv
<1>1. /\ request' = [request EXCEPT ![r].status = "pending"]
      /\ UNCHANGED <<vaultVars, finding, pentest, signoffs, handler, history>>
  BY DEF CreateRequest
<1>2. TypeOK'
  BY <1>1 DEF TypeOK, history
<1>3. WriterOK' /\ OpOK'
  BY <1>1 DEF WriterOK, OpOK, vaultVars
<1> QED
  BY <1>2, <1>3

LEMMA WorkNext == WorkInv /\ [Next]_vars => WorkInv'
<1>1. WorkInv /\ UNCHANGED vars => WorkInv'
  BY DEF WorkInv, TypeOK, WriterOK, OpOK, vars, vaultVars, rowVars, history
<1> QED
  BY <1>1, WorkBegin, WorkReadTip, WorkStamp, WorkCommit, WorkRecord, WorkFail,
     WorkCreate DEF Next

(* The types of the rows and of the handlers' local state (the models      *)
(* EvidenceRequest, AuditFinding, PenTestEngagement and PolicyAttestation).*)
THEOREM WorkflowTypeCorrect == Spec => []TypeOK
<1>1. WorkInv => TypeOK
  BY DEF WorkInv
<1> QED
  BY <1>1, WorkInit, WorkNext, PTL DEF Spec

-----------------------------------------------------------------------------
(* The handlers implement the vault                                        *)

LEMMA VaultStep == WorkInv /\ [Next]_vars => [Vault!Next]_(Vault!vars)
<1> SUFFICES ASSUME WorkInv, [Next]_vars PROVE [Vault!Next]_(Vault!vars)
  OBVIOUS
<1> USE DEF Vault!vars, vaultVars
<1>1. ASSUME NEW h \in Handlers, Begin(h) PROVE UNCHANGED Vault!vars
  BY <1>1, WorkBegin
<1>2. ASSUME NEW h \in Handlers, ReadTip(h) PROVE Vault!AppendEvidence(h)
  BY <1>2 DEF ReadTip, Vault!AppendEvidence
<1>3. ASSUME NEW h \in Handlers, Stamp(h) PROVE Vault!AppendEvidence(h)
  BY <1>3 DEF Stamp, Vault!AppendEvidence
<1>4. ASSUME NEW h \in Handlers, CommitEvidence(h) PROVE Vault!AppendEvidence(h)
  BY <1>4 DEF CommitEvidence, Vault!AppendEvidence
<1>5. ASSUME NEW h \in Handlers, Record(h) PROVE UNCHANGED Vault!vars
  BY <1>5 DEF Record
<1>6. ASSUME NEW h \in Handlers, Fail(h)
      PROVE  UNCHANGED Vault!vars \/ Vault!Fail
  <2>1. /\ writer' = [writer EXCEPT ![h] = Vault!IdleWriter]
        /\ UNCHANGED <<vault, clock, lister, overlapped>>
    BY <1>6 DEF Fail
  <2>2. CASE writer[h].pc = "idle"
    <3>1. writer[h] = Vault!IdleWriter /\ writer \in [Handlers -> Vault!WriterState]
      BY <2>2 DEF WorkInv, WriterOK
    <3>2. writer' = writer
      BY <2>1, <3>1
    <3> QED
      BY <2>1, <3>2
  <2>3. CASE writer[h].pc # "idle"
    BY <2>1, <2>3 DEF Vault!Fail, Vault!AppendFails
  <2> QED
    BY <2>2, <2>3
<1>7. ASSUME NEW r \in Requests, CreateRequest(r) PROVE UNCHANGED Vault!vars
  BY <1>7 DEF CreateRequest
<1>8. CASE UNCHANGED vars
  BY <1>8 DEF vars
<1> QED
  BY <1>1, <1>2, <1>3, <1>4, <1>5, <1>6, <1>7, <1>8 DEF Next, Vault!Next

(* Every behaviour of the request handlers is, seen from the vault, one of *)
(* append_evidence_record as EvidenceVault specifies it: calling it in the *)
(* middle of a handler's own transaction adds nothing to what the vault    *)
(* goes through, and what is proved of the vault holds for its callers.    *)
THEOREM WorkflowImplementsVault == Spec => ImplementsVault
<1>1. Init => Vault!Init
  BY DEF Init
<1> QED
  BY <1>1, WorkInit, WorkNext, VaultStep, PTL
     DEF Spec, ImplementsVault, Vault!Spec

-----------------------------------------------------------------------------
(* Rows name their evidence                                                *)

LEMMA EvidenceInit == Init => EvidenceInv
  BY DEF Init, EvidenceInv, Carried, RowsAreEvidenced, Idle, None

(* Evidence that was filed stays filed.                                    *)
LEMMA FiledStays ==
  ASSUME filed \subseteq filed', vault[Tenant] \subseteq vault'[Tenant],
         NEW e, NEW op, NEW s, FiledFor(e, op, s)
  PROVE  FiledFor(e, op, s)'
  BY DEF FiledFor

(* A step that writes no evidence_id, fulfils nothing and takes no         *)
(* evidence away.                                                          *)
LEMMA RowsStay ==
  ASSUME TypeOK, RowsAreEvidenced,
         filed \subseteq filed', vault[Tenant] \subseteq vault'[Tenant],
         \A r \in Requests :
            /\ request'[r].evidence = request[r].evidence
            /\ request'[r].status = "fulfilled" => request[r].status = "fulfilled",
         \A f \in Findings : finding'[f].evidence = finding[f].evidence,
         \A p \in PenTests : pentest'[p].evidence = pentest[p].evidence,
         signoffs' = signoffs
  PROVE  RowsAreEvidenced'
<1>1. ASSUME NEW r \in Requests
      PROVE  (/\ request[r].status = "fulfilled" => request[r].evidence # None
              /\ request[r].evidence # None =>
                    FiledFor(request[r].evidence, "fulfil", r))'
  BY DEF RowsAreEvidenced, FiledFor
<1>2. ASSUME NEW f \in Findings
      PROVE  (finding[f].evidence # None =>
                FiledFor(finding[f].evidence, "upload", f))'
  BY DEF RowsAreEvidenced, FiledFor
<1>3. ASSUME NEW p \in PenTests
      PROVE  (pentest[p].evidence # None =>
                FiledFor(pentest[p].evidence, "pentest", p))'
  BY DEF RowsAreEvidenced, FiledFor
<1>4. (\A x \in signoffs : FiledFor(x.evidence, "sign", x.subject))'
  BY DEF RowsAreEvidenced, FiledFor
<1> QED
  BY <1>1, <1>2, <1>3, <1>4 DEF RowsAreEvidenced

(* A step after which no further handler is about to write evidence.       *)
LEMMA CarriedStays ==
  ASSUME Carried,
         filed \subseteq filed', vault[Tenant] \subseteq vault'[Tenant],
         \A h \in Handlers :
            \/ handler'[h] = handler[h]
            \/ handler'[h].pc # "record"
            \/ handler'[h].op \notin Filing
  PROVE  Carried'
<1> SUFFICES ASSUME NEW h \in Handlers
             PROVE  (handler[h].pc = "record" /\ handler[h].op \in Filing =>
                       /\ handler[h].evidence # None
                       /\ FiledFor(handler[h].evidence, handler[h].op,
                                   handler[h].subject))'
  BY DEF Carried
<1> QED
  BY DEF Carried, FiledFor

LEMMA EvidenceBegin ==
  ASSUME WorkInv, EvidenceInv, NEW h \in Handlers, Begin(h)
  PROVE  EvidenceInv'
<1> USE DEF EvidenceInv, WorkInv
<1>1. UNCHANGED <<vaultVars, rowVars, filed, lost>>
  BY WorkBegin
<1>2. PICK op \in Ops, s \in Subjects, pc \in {"append", "record"},
           seen, target \in Status :
            /\ Start(h, op, s, pc, seen, target)
            /\ pc = "record" => op \notin Filing
  BY BeginStarts
<1>3. \A g \in Handlers :
         \/ handler'[g] = handler[g]
         \/ handler'[g].pc # "record"
         \/ handler'[g].op \notin Filing
  BY <1>2 DEF Start, TypeOK
<1>4. Carried'
  BY <1>1, <1>3, CarriedStays DEF vaultVars
<1>5. RowsAreEvidenced'
  BY <1>1, RowsStay DEF vaultVars, rowVars
<1> QED
  BY <1>4, <1>5

LEMMA EvidenceCommit ==
  ASSUME WorkInv, EvidenceInv, NEW h \in Handlers, CommitEvidence(h)
  PROVE  EvidenceInv'
<1> USE DEF EvidenceInv, WorkInv
<1> DEFINE e == writer[h].ts
           op == handler[h].op
           s == handler[h].subject
<1>1. /\ filed' = filed \cup {[evidence |-> e, op |-> op, subject |-> s]}
      /\ request' = IF op = "auto" THEN [request EXCEPT ![s].status = "pending"]
                    ELSE request
      /\ IF op = "pentest" THEN SetPenTestStatus(h) ELSE UNCHANGED pentest
      /\ UNCHANGED <<finding, signoffs>>
  BY DEF CommitEvidence
<1>2. vault[Tenant] \subseteq vault'[Tenant] /\ \E r \in vault'[Tenant] : r.ts = e
  <2>1. /\ vault' = [vault EXCEPT ![Tenant] = @ \cup {Vault!NewRecord(h)}]
        /\ Vault!NewRecord(h).ts = e
    BY CommitFiles
  <2>2. vault'[Tenant] = vault[Tenant] \cup {Vault!NewRecord(h)}
    BY <2>1 DEF WriterOK
  <2> QED
    BY <2>1, <2>2
<1>3. /\ \A g \in Handlers : g # h => handler'[g] = handler[g]
      /\ e # None
      /\ handler'[h].pc = "record" =>
           handler'[h].op = op /\ handler'[h].subject = s /\ handler'[h].evidence = e
  BY CommitFiles
<1>4. Carried'
  <2>1. ASSUME NEW g \in Handlers
        PROVE  (handler[g].pc = "record" /\ handler[g].op \in Filing =>
                  /\ handler[g].evidence # None
                  /\ FiledFor(handler[g].evidence, handler[g].op,
                              handler[g].subject))'
    <3>1. CASE g = h
      BY <1>1, <1>2, <1>3, <3>1 DEF FiledFor
    <3>2. CASE g # h
      BY <1>1, <1>2, <1>3, <3>2 DEF Carried, FiledFor
    <3> QED
      BY <3>1, <3>2
  <2> QED
    BY <2>1 DEF Carried
<1>5. RowsAreEvidenced'
  <2>1. \A r \in Requests :
          /\ request'[r].evidence = request[r].evidence
          /\ request'[r].status = "fulfilled" => request[r].status = "fulfilled"
    BY <1>1 DEF TypeOK
  <2>2. \A p \in PenTests : pentest'[p].evidence = pentest[p].evidence
    BY <1>1 DEF SetPenTestStatus, TypeOK
  <2> QED
    BY <1>1, <1>2, <2>1, <2>2, RowsStay
<1> QED
  BY <1>4, <1>5

LEMMA EvidenceRecord ==
  ASSUME WorkInv, EvidenceInv, NEW h \in Handlers, Record(h)
  PROVE  EvidenceInv'
<1> USE DEF EvidenceInv, WorkInv
<1> DEFINE e == handler[h].evidence
           s == handler[h].subject
<1>1. /\ handler[h].pc = "record" /\ vault' = vault /\ filed' = filed
      /\ handler' = [handler EXCEPT ![h] = Idle]
  BY RecordFrame DEF vaultVars
<1>2. Carried'
  <2>1. \A g \in Handlers : handler'[g] = handler[g] \/ handler'[g].pc # "record"
    BY <1>1 DEF TypeOK, Idle
  <2> QED
    BY <1>1, <2>1, CarriedStays
<1>3. handler[h].op \in Filing => e # None /\ FiledFor(e, handler[h].op, s)
  BY <1>1 DEF Carried
<1>4. RowsAreEvidenced'
  <2>1. CASE RecordRequest(h)
    <3>1. /\ handler[h].op = "fulfil"
          /\ request' = [request EXCEPT ![s] =
                           [status |-> "fulfilled", evidence |-> e]]
          /\ UNCHANGED <<finding, pentest, signoffs>>
      BY <2>1 DEF RecordRequest
    <3>2. e # None /\ FiledFor(e, "fulfil", s)
      BY <1>3, <3>1 DEF Filing
    <3>3. \A r \in Requests :
            \/ request'[r] = request[r]
            \/ r = s /\ request'[r].evidence = e
      BY <3>1 DEF TypeOK
    <3> QED
      BY <1>1, <3>1, <3>2, <3>3 DEF RowsAreEvidenced, FiledFor
  <2>2. CASE RecordFinding(h)
    <3>1. UNCHANGED <<request, pentest, signoffs>>
      BY <2>2 DEF RecordFinding
    <3>2. \A f \in Findings :
            \/ finding'[f].evidence = finding[f].evidence
            \/ f = s /\ handler[h].op = "upload" /\ finding'[f].evidence = e
      BY <2>2 DEF RecordFinding, TypeOK
    <3>3. handler[h].op = "upload" => FiledFor(e, "upload", s)
      BY <1>3 DEF Filing
    <3> QED
      BY <1>1, <3>1, <3>2, <3>3 DEF RowsAreEvidenced, FiledFor
  <2>3. CASE RecordPenTest(h)
    <3>1. UNCHANGED <<request, finding, signoffs>>
      BY <2>3 DEF RecordPenTest
    <3>2. \A p \in PenTests :
            \/ pentest'[p].evidence = pentest[p].evidence
            \/ p = s /\ handler[h].op = "pentest" /\ pentest'[p].evidence = e
      BY <2>3 DEF RecordPenTest, SetPenTestStatus, TypeOK
    <3>3. handler[h].op = "pentest" => FiledFor(e, "pentest", s)
      BY <1>3 DEF Filing
    <3> QED
      BY <1>1, <3>1, <3>2, <3>3 DEF RowsAreEvidenced, FiledFor
  <2>4. CASE RecordSignOff(h)
    <3>1. /\ handler[h].op = "sign"
          /\ signoffs' = signoffs \cup {[subject |-> s, evidence |-> e]}
          /\ UNCHANGED <<request, finding, pentest>>
      BY <2>4 DEF RecordSignOff
    <3>2. FiledFor(e, "sign", s)
      BY <1>3, <3>1 DEF Filing
    <3> QED
      BY <1>1, <3>1, <3>2 DEF RowsAreEvidenced, FiledFor
  <2> QED
    BY <2>1, <2>2, <2>3, <2>4 DEF Record
<1> QED
  BY <1>2, <1>4

LEMMA EvidenceNext == WorkInv /\ EvidenceInv /\ [Next]_vars => EvidenceInv'
<1> SUFFICES ASSUME WorkInv, EvidenceInv, [Next]_vars PROVE EvidenceInv'
  OBVIOUS
<1> USE DEF EvidenceInv, WorkInv
<1>1. ASSUME NEW h \in Handlers, ReadTip(h) \/ Stamp(h) PROVE EvidenceInv'
  <2>1. vault' = vault /\ UNCHANGED <<rowVars, handler, history>>
    BY <1>1 DEF ReadTip, Stamp, Vault!ReadTip, Vault!Stamp
  <2> QED
    BY <2>1, CarriedStays, RowsStay DEF rowVars, history
<1>2. ASSUME NEW h \in Handlers, Fail(h) PROVE EvidenceInv'
  <2>1. /\ vault' = vault /\ UNCHANGED <<rowVars, filed>>
        /\ handler' = [handler EXCEPT ![h] = Idle]
    BY <1>2 DEF Fail
  <2>2. \A g \in Handlers : handler'[g] = handler[g] \/ handler'[g].pc # "record"
    BY <2>1 DEF TypeOK, Idle
  <2> QED
    BY <2>1, <2>2, CarriedStays, RowsStay DEF rowVars
<1>3. ASSUME NEW r \in Requests, CreateRequest(r) PROVE EvidenceInv'
  <2>1. /\ request' = [request EXCEPT ![r].status = "pending"]
        /\ UNCHANGED <<vaultVars, finding, pentest, signoffs, handler, history>>
    BY <1>3 DEF CreateRequest
  <2>2. \A q \in Requests :
          /\ request'[q].evidence = request[q].evidence
          /\ request'[q].status = "fulfilled" => request[q].status = "fulfilled"
    BY <2>1 DEF TypeOK
  <2> QED
    BY <2>1, <2>2, CarriedStays, RowsStay DEF vaultVars, history
<1>4. CASE UNCHANGED vars
  BY <1>4, CarriedStays, RowsStay DEF vars, vaultVars, rowVars, history
<1> QED
  BY <1>1, <1>2, <1>3, <1>4, EvidenceBegin, EvidenceCommit, EvidenceRecord
     DEF Next

(* Whatever interleaves or fails, an evidence_id in a business row names a *)
(* committed vault record that was filed for that row, and no request is   *)
(* fulfilled without (fulfill_evidence_request, upload_finding_evidence,   *)
(* update_pentest, attest_policy, complete_training).                      *)
THEOREM RowsAlwaysEvidenced == Spec => []RowsAreEvidenced
<1>1. EvidenceInv => RowsAreEvidenced
  BY DEF EvidenceInv
<1> QED
  BY <1>1, WorkInit, WorkNext, EvidenceInit, EvidenceNext, PTL DEF Spec

-----------------------------------------------------------------------------
(* Two handlers on one row                                                 *)

(* contended knows every row that two handlers work on.                    *)
Exclusive ==
    \A g, h \in Handlers :
        g # h /\ handler[h].pc # "idle" /\ WorksOn(g, handler[h].subject)
            => handler[h].subject \in contended

(* What a handler that starts has found and what it remembers of it.       *)
LEMMA BeginWorks ==
  ASSUME WorkInv, NEW h \in Handlers, Begin(h)
  PROVE  /\ handler[h].pc = "idle" /\ handler'[h].pc # "idle"
         /\ handler'[h].evidence = None
         /\ handler'[h].pc = "record" => handler'[h].op \notin Filing
         /\ \A g \in Handlers : g # h => handler'[g] = handler[g]
         /\ contended \subseteq contended'
         /\ \A g \in Handlers : WorksOn(g, handler'[h].subject)
                                  => handler'[h].subject \in contended'
         /\ handler'[h].op = "fulfil" =>
              /\ handler'[h].subject \in Requests
              /\ request[handler'[h].subject].status = "pending"
         /\ handler'[h].op = "auto" =>
              /\ handler'[h].subject \in Requests
              /\ request[handler'[h].subject].status = "absent"
         /\ handler'[h].op = "sign" =>
              \A x \in signoffs : x.subject # handler'[h].subject
         /\ handler'[h].op = "reopen" => handler'[h].target = "scheduled"
<1> USE DEF WorkInv
<1>1. PICK op \in Ops, s \in Subjects, pc \in {"append", "record"},
           seen, target \in Status :
            /\ Start(h, op, s, pc, seen, target)
            /\ pc = "record" => op \notin Filing
            /\ op = "fulfil" => s \in Requests /\ request[s].status = "pending"
            /\ op = "auto" => s \in Requests /\ request[s].status = "absent"
            /\ op = "sign" => \A x \in signoffs : x.subject # s
            /\ op = "reopen" => target = "scheduled"
  BY BeginStarts
<1> DEFINE new == [op |-> op, subject |-> s, pc |-> pc, evidence |-> None,
                   seen |-> seen, target |-> target]
<1>2. /\ handler[h].pc = "idle"
      /\ handler' = [handler EXCEPT ![h] = new]
      /\ contended' = IF \E g \in Handlers : WorksOn(g, s)
                        THEN contended \cup {s} ELSE contended
  BY <1>1 DEF Start
<1>3. handler'[h] = new /\ \A g \in Handlers : g # h => handler'[g] = handler[g]
  BY <1>2 DEF TypeOK
<1> QED
  BY <1>1, <1>2, <1>3

(* After its first query a handler keeps its operation and its row until   *)
(* it is done.                                                             *)
LEMMA WorkContinues ==
  ASSUME WorkInv, [Next]_vars, ~ \E h \in Handlers : Begin(h)
  PROVE  /\ contended' = contended
         /\ \A g \in Handlers :
              \/ handler'[g].pc = "idle"
              \/ /\ handler[g].pc # "idle"
                 /\ handler'[g].op = handler[g].op
                 /\ handler'[g].subject = handler[g].subject
                 /\ handler'[g].target = handler[g].target
<1> DEFINE Continues(g) ==
      \/ handler'[g].pc = "idle"
      \/ /\ handler[g].pc # "idle"
         /\ handler'[g].op = handler[g].op
         /\ handler'[g].subject = handler[g].subject
         /\ handler'[g].target = handler[g].target
<1>1. CASE handler' = handler /\ contended' = contended
  BY <1>1
<1>2. ASSUME NEW h \in Handlers, CommitEvidence(h)
      PROVE  contended' = contended /\ \A g \in Handlers : Continues(g)
  <2>1. \A g \in Handlers : g # h => handler'[g] = handler[g]
    BY <1>2, CommitFiles
  <2>2. Continues(h)
    <3>1. handler[h] \in HandlerState /\ Idle.pc = "idle"
      BY DEF WorkInv, TypeOK, Idle
    <3>2. /\ handler[h].pc = "append"
          /\ handler'[h] = IF handler[h].op = "auto" THEN Idle
                           ELSE [handler[h] EXCEPT !.pc = "record",
                                                   !.evidence = writer[h].ts]
      BY <1>2, CommitFiles
    <3> QED
      BY <3>1, <3>2 DEF HandlerState
  <2>3. contended' = contended
    BY <1>2 DEF CommitEvidence
  <2> QED
    BY <2>1, <2>2, <2>3
<1>3. ASSUME NEW h \in Handlers, Record(h) \/ Fail(h)
      PROVE  contended' = contended /\ \A g \in Handlers : Continues(g)
  <2>1. handler' = [handler EXCEPT ![h] = Idle] /\ contended' = contended
    BY <1>3, RecordFrame DEF Fail
  <2>2. Idle.pc = "idle" /\ handler \in [Handlers -> HandlerState]
    BY DEF Idle, WorkInv, TypeOK
  <2> QED
    BY <2>1, <2>2
<1>4. ASSUME NEW h \in Handlers, ReadTip(h) \/ Stamp(h)
      PROVE  handler' = handler /\ contended' = contended
  BY <1>4 DEF ReadTip, Stamp, history
<1>5. ASSUME NEW r \in Requests, CreateRequest(r)
      PROVE  handler' = handler /\ contended' = contended
  BY <1>5 DEF CreateRequest, history
<1>6. CASE UNCHANGED vars
  BY <1>6 DEF vars, history
<1> QED
  BY <1>1, <1>2, <1>3, <1>4, <1>5, <1>6 DEF Next

LEMMA ExclusiveNext == WorkInv /\ Exclusive /\ [Next]_vars => Exclusive'
<1> SUFFICES ASSUME WorkInv, Exclusive, [Next]_vars,
                    NEW g \in Handlers, NEW h \in Handlers, g # h,
                    handler'[h].pc # "idle", WorksOn(g, handler[h].subject)'
             PROVE  handler'[h].subject \in contended'
  BY DEF Exclusive
<1>1. handler'[g].pc # "idle" /\ handler'[g].subject = handler'[h].subject
  BY DEF WorksOn
<1>2. CASE \E k \in Handlers : Begin(k)
  <2> PICK k \in Handlers : Begin(k)
    BY <1>2
  <2>1. CASE k = h
    BY <1>1, <2>1, BeginWorks DEF WorksOn
  <2>2. CASE k = g
    BY <1>1, <2>2, BeginWorks DEF WorksOn
  <2>3. CASE k # h /\ k # g
    BY <1>1, <2>3, BeginWorks DEF WorksOn, Exclusive
  <2> QED
    BY <2>1, <2>2, <2>3
<1>3. CASE ~ \E k \in Handlers : Begin(k)
  BY <1>1, <1>3, WorkContinues DEF WorksOn, Exclusive
<1> QED
  BY <1>2, <1>3

-----------------------------------------------------------------------------
(* A fulfilled request is final                                            *)

(* A handler that fulfils a request works on a pending one, the agent on   *)
(* one that is not there yet, and only a fulfilled request names evidence. *)
RequestInv ==
    /\ \A h \in Handlers :
          handler[h].pc # "idle" /\ handler[h].subject \notin contended =>
             /\ handler[h].op = "fulfil" =>
                   /\ handler[h].subject \in Requests
                   /\ request[handler[h].subject].status = "pending"
             /\ handler[h].op = "auto" =>
                   /\ handler[h].subject \in Requests
                   /\ request[handler[h].subject].status = "absent"
    /\ \A r \in Requests :
          request[r].status # "fulfilled" /\ r \notin contended
              => request[r].evidence = None

(* What any step does to a request that no two handlers worked on.         *)
RequestStep(r) ==
    \/ request'[r] = request[r]
    \/ /\ request[r].status = "absent"
       /\ request'[r].status = "pending"
       /\ request'[r].evidence = request[r].evidence
       /\ \A g \in Handlers : WorksOn(g, r) => handler'[g].pc = "idle"
    \/ \E h \in Handlers :
          /\ Record(h) /\ handler[h].op = "fulfil" /\ WorksOn(h, r)
          /\ request[r].status = "pending" /\ request'[r].status = "fulfilled"
          /\ request'[r].evidence = handler[h].evidence

LEMMA RequestSteps ==
  ASSUME WorkInv, Exclusive, RequestInv, [Next]_vars,
         NEW r \in Requests, r \notin contended
  PROVE  RequestStep(r)
<1> USE DEF WorkInv
<1>1. ASSUME NEW h \in Handlers, Begin(h) PROVE RequestStep(r)
  BY <1>1, WorkBegin DEF RequestStep, rowVars
<1>2. ASSUME NEW h \in Handlers, ReadTip(h) \/ Stamp(h) PROVE RequestStep(r)
  BY <1>2 DEF RequestStep, ReadTip, Stamp, rowVars
<1>3. ASSUME NEW h \in Handlers, CommitEvidence(h) PROVE RequestStep(r)
  <2>1. request' = IF handler[h].op = "auto"
                     THEN [request EXCEPT ![handler[h].subject].status = "pending"]
                     ELSE request
    BY <1>3 DEF CommitEvidence
  <2>2. handler[h].pc = "append"
    BY <1>3, CommitFiles
  <2>3. CASE handler[h].op = "auto" /\ handler[h].subject = r
    <3>1. request[r].status = "absent"
      BY <2>2, <2>3 DEF RequestInv
    <3>2. /\ request'[r].status = "pending"
          /\ request'[r].evidence = request[r].evidence
      BY <2>1, <2>3 DEF TypeOK
    <3>3. \A g \in Handlers : WorksOn(g, r) => g = h
      BY <2>2, <2>3 DEF Exclusive
    <3>4. handler'[h].pc = "idle"
      <4>1. handler'[h] = Idle
        BY <1>3, <2>3, CommitFiles
      <4> QED
        BY <4>1 DEF Idle
    <3> QED
      BY <3>1, <3>2, <3>3, <3>4 DEF RequestStep
  <2>4. CASE ~ (handler[h].op = "auto" /\ handler[h].subject = r)
    BY <2>1, <2>4 DEF RequestStep, TypeOK
  <2> QED
    BY <2>3, <2>4
<1>4. ASSUME NEW h \in Handlers, Record(h) PROVE RequestStep(r)
  <2>1. CASE RecordRequest(h) /\ handler[h].subject = r
    <3>1. /\ handler[h].op = "fulfil"
          /\ request'[r].status = "fulfilled"
          /\ request'[r].evidence = handler[h].evidence
      BY <2>1 DEF RecordRequest, TypeOK
    <3>2. WorksOn(h, r)
      BY <1>4, <2>1, RecordFrame DEF WorksOn
    <3>3. request[r].status = "pending"
      BY <2>1, <3>1, <3>2 DEF RequestInv, WorksOn
    <3> QED
      BY <1>4, <3>1, <3>2, <3>3 DEF RequestStep
  <2>2. CASE RecordRequest(h) /\ handler[h].subject # r
    BY <2>2 DEF RecordRequest, RequestStep, TypeOK
  <2>3. CASE ~ RecordRequest(h)
    BY <1>4, <2>3
       DEF Record, RecordFinding, RecordPenTest, RecordSignOff, RequestStep
  <2> QED
    BY <2>1, <2>2, <2>3
<1>5. ASSUME NEW h \in Handlers, Fail(h) PROVE RequestStep(r)
  BY <1>5 DEF Fail, RequestStep, rowVars
<1>6. ASSUME NEW q \in Requests, CreateRequest(q) PROVE RequestStep(r)
  BY <1>6 DEF CreateRequest, RequestStep, TypeOK
<1>7. CASE UNCHANGED vars
  BY <1>7 DEF vars, rowVars, RequestStep
<1> QED
  BY <1>1, <1>2, <1>3, <1>4, <1>5, <1>6, <1>7 DEF Next

LEMMA RequestInit == Init => Exclusive /\ RequestInv
  BY DEF Init, Exclusive, RequestInv, WorksOn, Idle, None

LEMMA ContendedGrows ==
  ASSUME WorkInv, [Next]_vars
  PROVE  contended \subseteq contended'
  BY BeginWorks, WorkContinues

LEMMA RequestNext ==
  WorkInv /\ Exclusive /\ RequestInv /\ [Next]_vars => RequestInv'
<1> SUFFICES ASSUME WorkInv, Exclusive, RequestInv, [Next]_vars PROVE RequestInv'
  OBVIOUS
<1>1. contended \subseteq contended'
  BY ContendedGrows
<1>2. ASSUME NEW h \in Handlers, handler'[h].pc # "idle",
             handler'[h].subject \notin contended'
      PROVE  /\ handler'[h].op = "fulfil" =>
                  /\ handler'[h].subject \in Requests
                  /\ request'[handler'[h].subject].status = "pending"
             /\ handler'[h].op = "auto" =>
                  /\ handler'[h].subject \in Requests
                  /\ request'[handler'[h].subject].status = "absent"
  <2> DEFINE s == handler'[h].subject
  <2>1. CASE \E k \in Handlers : Begin(k)
    <3> PICK k \in Handlers : Begin(k)
      BY <2>1
    <3>1. request' = request
      BY WorkBegin DEF rowVars
    <3>2. CASE k = h
      BY <1>2, <3>1, <3>2, BeginWorks
    <3>3. CASE k # h
      BY <1>1, <1>2, <3>1, <3>3, BeginWorks DEF RequestInv
    <3> QED
      BY <3>2, <3>3
  <2>2. CASE ~ \E k \in Handlers : Begin(k)
    <3>1. /\ handler[h].pc # "idle" /\ handler'[h].op = handler[h].op
          /\ handler[h].subject = s /\ s \notin contended
      BY <1>1, <1>2, <2>2, WorkContinues
    <3>2. WorksOn(h, s) /\ \A g \in Handlers : WorksOn(g, s) => g = h
      BY <3>1 DEF WorksOn, Exclusive
    <3>3. s \in Requests => request'[s] = request[s]
      <4> SUFFICES ASSUME s \in Requests PROVE request'[s] = request[s]
        OBVIOUS
      <4>1. RequestStep(s)
        BY <3>1, RequestSteps
      <4>2. ~ Record(h)
        BY <1>2, RecordFrame DEF WorkInv, TypeOK, Idle
      <4> QED
        BY <1>2, <3>2, <4>1, <4>2 DEF RequestStep
    <3> QED
      BY <3>1, <3>3 DEF RequestInv
  <2> QED
    BY <2>1, <2>2
<1>3. ASSUME NEW r \in Requests, request'[r].status # "fulfilled",
             r \notin contended'
      PROVE  request'[r].evidence = None
  <2>1. RequestStep(r) /\ r \notin contended
    BY <1>1, <1>3, RequestSteps
  <2>2. request[r] \in [status: {"absent", "pending", "fulfilled"}, evidence: Nat]
    BY DEF WorkInv, TypeOK
  <2>3. request[r].status # "fulfilled"
    BY <1>3, <2>1, <2>2 DEF RequestStep
  <2>4. request'[r].evidence = request[r].evidence
    BY <1>3, <2>1 DEF RequestStep
  <2> QED
    BY <2>1, <2>3, <2>4 DEF RequestInv
<1> QED
  BY <1>2, <1>3 DEF RequestInv

(* fulfill_evidence_request answers 409 to a request that is fulfilled:    *)
(* unless two of its calls passed that check together, no step of any      *)
(* handler ever changes a fulfilled request or the evidence it names.      *)
THEOREM FulfilledRequestIsFinal == Spec => FulfilledIsFinal
<1>1. WorkInv /\ Exclusive /\ RequestInv /\ [Next]_vars
        => [\A r \in Requests :
              request[r].status = "fulfilled" /\ r \notin contended
                  => request'[r] = request[r]]_vars
  BY RequestSteps DEF RequestStep
<1> QED
  BY <1>1, WorkInit, WorkNext, RequestInit, ExclusiveNext, RequestNext, PTL
     DEF Spec, FulfilledIsFinal

-----------------------------------------------------------------------------
(* One sign-off for each user and document                                 *)

(* A handler that is signing has found no row, and there is none yet.      *)
SignInv ==
    /\ \A h \in Handlers :
          handler[h].pc # "idle" /\ handler[h].subject \notin contended
          /\ handler[h].op = "sign" =>
                \A x \in signoffs : x.subject # handler[h].subject
    /\ SignedOnce

(* A step that adds a sign-off is the last one of a handler that signs.    *)
LEMMA SignSteps ==
  ASSUME WorkInv, [Next]_vars, NEW x \in signoffs', x \notin signoffs
  PROVE  \E h \in Handlers :
            /\ handler[h].op = "sign" /\ handler[h].pc = "record"
            /\ handler' = [handler EXCEPT ![h] = Idle]
            /\ contended' = contended
            /\ x = [subject |-> handler[h].subject, evidence |-> handler[h].evidence]
            /\ signoffs' = signoffs \cup {x}
<1>1. ASSUME NEW h \in Handlers, Begin(h) PROVE signoffs' = signoffs
  BY <1>1, WorkBegin DEF rowVars
<1>2. ASSUME NEW h \in Handlers, ReadTip(h) \/ Stamp(h) PROVE signoffs' = signoffs
  BY <1>2 DEF ReadTip, Stamp, rowVars
<1>3. ASSUME NEW h \in Handlers, CommitEvidence(h) PROVE signoffs' = signoffs
  BY <1>3 DEF CommitEvidence
<1>4. ASSUME NEW h \in Handlers, Fail(h) PROVE signoffs' = signoffs
  BY <1>4 DEF Fail, rowVars
<1>5. ASSUME NEW q \in Requests, CreateRequest(q) PROVE signoffs' = signoffs
  BY <1>5 DEF CreateRequest
<1>6. UNCHANGED vars => signoffs' = signoffs
  BY DEF vars, rowVars
<1>7. signoffs' # signoffs
  OBVIOUS
<1>8. PICK h \in Handlers : Record(h)
  BY <1>1, <1>2, <1>3, <1>4, <1>5, <1>6, <1>7 DEF Next
<1>9. RecordSignOff(h)
  BY <1>7, <1>8 DEF Record, RecordRequest, RecordFinding, RecordPenTest
<1> QED
  BY <1>8, <1>9, RecordFrame DEF RecordSignOff

LEMMA SignInit == Init => SignInv
  BY DEF Init, SignInv, SignedOnce, Idle

LEMMA SignNext == WorkInv /\ Exclusive /\ SignInv /\ [Next]_vars => SignInv'
<1> SUFFICES ASSUME WorkInv, Exclusive, SignInv, [Next]_vars PROVE SignInv'
  OBVIOUS
<1>1. contended \subseteq contended'
  BY ContendedGrows
<1>2. Idle.pc = "idle" /\ handler \in [Handlers -> HandlerState]
  BY DEF Idle, WorkInv, TypeOK
<1>3. signoffs' = signoffs \/ \E x \in signoffs' : x \notin signoffs
  <2>1. signoffs \subseteq signoffs'
    <3>1. ASSUME NEW h \in Handlers, Record(h) PROVE signoffs \subseteq signoffs'
      BY <3>1 DEF Record, RecordRequest, RecordFinding, RecordPenTest, RecordSignOff
    <3>2. ASSUME NEW h \in Handlers, Begin(h) PROVE signoffs' = signoffs
      BY <3>2, WorkBegin DEF rowVars
    <3> QED
      BY <3>1, <3>2 DEF Next, ReadTip, Stamp, CommitEvidence, Fail,
         CreateRequest, vars, rowVars
  <2> QED
    BY <2>1
<1>4. CASE signoffs' = signoffs
  <2>1. ASSUME NEW h \in Handlers, handler'[h].pc # "idle",
               handler'[h].op = "sign", handler'[h].subject \notin contended'
        PROVE  \A x \in signoffs : x.subject # handler'[h].subject
    <3>1. CASE \E k \in Handlers : Begin(k)
      BY <1>1, <2>1, <3>1, BeginWorks DEF SignInv
    <3>2. CASE ~ \E k \in Handlers : Begin(k)
      BY <1>1, <2>1, <3>2, WorkContinues DEF SignInv
    <3> QED
      BY <3>1, <3>2
  <2> QED
    BY <1>1, <1>4, <2>1 DEF SignInv, SignedOnce
<1>5. CASE \E x \in signoffs' : x \notin signoffs
  <2> PICK new \in signoffs' : new \notin signoffs
    BY <1>5
  <2>1. PICK h \in Handlers :
            /\ handler[h].op = "sign" /\ handler[h].pc = "record"
            /\ handler' = [handler EXCEPT ![h] = Idle]
            /\ contended' = contended
            /\ new = [subject |-> handler[h].subject,
                      evidence |-> handler[h].evidence]
            /\ signoffs' = signoffs \cup {new}
    BY SignSteps
  <2>2. new.subject = handler[h].subject
    BY <2>1
  <2>3. SignedOnce'
    BY <2>1, <2>2 DEF SignInv, SignedOnce
  <2>4. ASSUME NEW g \in Handlers, handler'[g].pc # "idle",
               handler'[g].op = "sign", handler'[g].subject \notin contended'
        PROVE  \A x \in signoffs' : x.subject # handler'[g].subject
    <3>1. g # h /\ handler'[g] = handler[g]
      BY <1>2, <2>1, <2>4
    <3>2. handler[g].subject # handler[h].subject
      BY <2>1, <2>4, <3>1 DEF Exclusive, WorksOn
    <3> QED
      BY <2>1, <2>2, <2>4, <3>1, <3>2 DEF SignInv
  <2> QED
    BY <2>3, <2>4 DEF SignInv
<1> QED
  BY <1>3, <1>4, <1>5

(* attest_policy and complete_training answer 409 to a second attestation: *)
(* a user has two rows for one document only after two of the calls passed *)
(* that check together; failures and retries in any number make none.      *)
THEOREM NeverSignedTwice == Spec => []SignedOnce
<1>1. SignInv => SignedOnce
  BY DEF SignInv
<1> QED
  BY <1>1, WorkInit, WorkNext, RequestInit, ExclusiveNext, SignInit, SignNext, PTL
     DEF Spec

-----------------------------------------------------------------------------
(* A completed penetration test has its report                             *)

(* The report of a penetration test is still to be stored, or was lost.    *)
ReportAwaited(p) ==
    \/ \E h \in Handlers :
          handler[h].pc = "record" /\ handler[h].op = "pentest"
              /\ handler[h].subject = p
    \/ \E x \in lost : x.subject = p

(* A handler that reopens a test was asked for the status "scheduled".     *)
ReportInv ==
    /\ \A h \in Handlers :
          handler[h].pc # "idle" /\ handler[h].op = "reopen"
              => handler[h].target = "scheduled"
    /\ \A p \in PenTests :
          pentest[p].status = "completed" /\ pentest[p].evidence = None
              => ReportAwaited(p)

LEMMA ReportInit == Init => ReportInv
  BY DEF Init, ReportInv, Idle

LEMMA ReopenNext ==
  ASSUME WorkInv, ReportInv, [Next]_vars, NEW h \in Handlers,
         handler'[h].pc # "idle", handler'[h].op = "reopen"
  PROVE  handler'[h].target = "scheduled"
<1>1. CASE \E k \in Handlers : Begin(k)
  BY <1>1, BeginWorks DEF ReportInv
<1>2. CASE ~ \E k \in Handlers : Begin(k)
  BY <1>2, WorkContinues DEF ReportInv
<1> QED
  BY <1>1, <1>2

(* A handler that waits to store a report waits until it does or fails.    *)
LEMMA AwaitedStays ==
  ASSUME WorkInv, NEW p \in PenTests, ReportAwaited(p),
         NEW h \in Handlers, lost \subseteq lost',
         \A g \in Handlers : g # h => handler'[g] = handler[g],
         \/ handler[h].pc # "record" \/ handler[h].op # "pentest"
         \/ handler[h].subject # p
  PROVE  ReportAwaited(p)'
  BY DEF ReportAwaited

LEMMA ReportRecord ==
  ASSUME WorkInv, Carried, ReportInv, NEW h \in Handlers, Record(h),
         NEW p \in PenTests,
         pentest'[p].status = "completed", pentest'[p].evidence = None
  PROVE  ReportAwaited(p)'
<1>1. /\ handler[h].pc = "record" /\ lost' = lost
      /\ \A g \in Handlers : g # h => handler'[g] = handler[g]
  BY RecordFrame DEF WorkInv, TypeOK
<1>2. CASE handler[h].op = "pentest" /\ handler[h].subject = p
  <2>1. handler[h].evidence # None
    BY <1>1, <1>2 DEF Carried, Filing
  <2>2. pentest'[p].evidence = handler[h].evidence
    BY <1>2 DEF Record, RecordRequest, RecordFinding, RecordPenTest,
       RecordSignOff, WorkInv, TypeOK
  <2> QED
    BY <2>1, <2>2
<1>3. CASE ~ (handler[h].op = "pentest" /\ handler[h].subject = p)
  <2>1. pentest[p].status = "completed" /\ pentest[p].evidence = None
    <3>1. CASE handler[h].op = "reopen"
      <4>1. SetPenTestStatus(h) /\ handler[h].target = "scheduled"
        BY <1>1, <3>1 DEF Record, RecordRequest, RecordFinding, RecordPenTest,
           RecordSignOff, ReportInv
      <4> QED
        BY <4>1 DEF SetPenTestStatus, StatusColumn, WorkInv, TypeOK
    <3>2. CASE handler[h].op # "reopen"
      BY <1>3, <3>2 DEF Record, RecordRequest, RecordFinding, RecordPenTest,
         RecordSignOff, WorkInv, TypeOK
    <3> QED
      BY <3>1, <3>2
  <2> QED
    BY <1>1, <1>3, <2>1, AwaitedStays DEF ReportInv
<1> QED
  BY <1>2, <1>3

LEMMA ReportNext ==
  WorkInv /\ Carried /\ ReportInv /\ [Next]_vars => ReportInv'
<1> SUFFICES ASSUME WorkInv, Carried, ReportInv, [Next]_vars,
                    NEW p \in PenTests,
                    pentest'[p].status = "completed", pentest'[p].evidence = None
             PROVE  ReportAwaited(p)'
  BY ReopenNext DEF ReportInv
<1>1. ASSUME NEW h \in Handlers, Begin(h) PROVE ReportAwaited(p)'
  BY <1>1, WorkBegin, BeginWorks, AwaitedStays DEF rowVars, ReportInv
<1>2. ASSUME handler' = handler, lost' = lost, pentest' = pentest
      PROVE  ReportAwaited(p)'
  BY <1>2 DEF ReportInv, ReportAwaited
<1>3. ASSUME NEW h \in Handlers, CommitEvidence(h) PROVE ReportAwaited(p)'
  <2>1. /\ handler[h].pc = "append" /\ lost' = lost
        /\ \A g \in Handlers : g # h => handler'[g] = handler[g]
    BY <1>3, CommitFiles DEF CommitEvidence
  <2>2. CASE handler[h].op = "pentest" /\ handler[h].subject = p
    <3>1. /\ handler[h] \in HandlerState
          /\ handler'[h] = [handler[h] EXCEPT !.pc = "record",
                                              !.evidence = writer[h].ts]
      BY <1>3, <2>2, CommitFiles DEF WorkInv, TypeOK
    <3>2. handler'[h].pc = "record" /\ handler'[h].op = "pentest"
          /\ handler'[h].subject = p
      BY <2>2, <3>1 DEF HandlerState
    <3> QED
      BY <3>2 DEF ReportAwaited
  <2>3. CASE ~ (handler[h].op = "pentest" /\ handler[h].subject = p)
    <3>1. pentest'[p] = pentest[p]
      BY <1>3, <2>3 DEF CommitEvidence, SetPenTestStatus, WorkInv, TypeOK
    <3> QED
      BY <2>1, <3>1, AwaitedStays DEF ReportInv
  <2> QED
    BY <2>2, <2>3
<1>4. ASSUME NEW h \in Handlers, Fail(h) PROVE ReportAwaited(p)'
  <2> DEFINE entry == [evidence |-> handler[h].evidence, op |-> handler[h].op,
                       subject |-> handler[h].subject]
  <2>1. /\ pentest' = pentest /\ lost \subseteq lost'
        /\ \A g \in Handlers : g # h => handler'[g] = handler[g]
        /\ handler[h].evidence # None =>
             \E x \in lost' : x.subject = handler[h].subject
    <3>1. /\ handler' = [handler EXCEPT ![h] = Idle] /\ pentest' = pentest
          /\ lost' = IF handler[h].evidence = None THEN lost
                     ELSE lost \cup {entry}
      BY <1>4 DEF Fail, rowVars
    <3>2. entry.subject = handler[h].subject
      OBVIOUS
    <3> QED
      BY <3>1, <3>2 DEF WorkInv, TypeOK
  <2>2. ReportAwaited(p)
    BY <2>1 DEF ReportInv
  <2>3. CASE /\ handler[h].pc = "record" /\ handler[h].op = "pentest"
             /\ handler[h].subject = p
    <3>1. handler[h].evidence # None
      BY <2>3 DEF Carried, Filing
    <3> QED
      BY <2>1, <2>3, <3>1 DEF ReportAwaited
  <2>4. CASE ~ (/\ handler[h].pc = "record" /\ handler[h].op = "pentest"
                /\ handler[h].subject = p)
    BY <2>1, <2>2, <2>4, AwaitedStays
  <2> QED
    BY <2>3, <2>4
<1>5. ASSUME NEW h \in Handlers, ReadTip(h) \/ Stamp(h) PROVE ReportAwaited(p)'
  BY <1>2, <1>5 DEF ReadTip, Stamp, rowVars, history
<1>6. ASSUME NEW r \in Requests, CreateRequest(r) PROVE ReportAwaited(p)'
  BY <1>2, <1>6 DEF CreateRequest, history
<1>7. CASE UNCHANGED vars
  BY <1>2, <1>7 DEF vars, rowVars, history
<1> QED
  BY <1>1, <1>3, <1>4, <1>5, <1>6, <1>7, ReportRecord DEF Next

(* update_pentest commits the status "completed" with the evidence and the *)
(* report's id in a transaction of its own: a completed test without a     *)
(* report is one whose handler has not come to it, or has failed before.   *)
THEOREM CompletedTestsHaveReports == Spec => []CompletedHasReport
<1>1. ReportInv => CompletedHasReport
  BY DEF ReportInv, ReportAwaited, CompletedHasReport, WorksOn
<1>2. EvidenceInv => Carried
  BY DEF EvidenceInv
<1> QED
  BY <1>1, <1>2, WorkInit, WorkNext, EvidenceInit, EvidenceNext, ReportInit,
     ReportNext, PTL DEF Spec

-----------------------------------------------------------------------------
(* Evidence that is filed is not left behind                               *)

(* Every record is filed once: the clock's value stamps one record only.   *)
StampInv ==
    /\ \A x \in filed : x.evidence # None /\ x.evidence <= clock
    /\ \A x, y \in filed : x.evidence = y.evidence => x = y
    /\ \A h \in Handlers : writer[h].pc = "commit" =>
          /\ writer[h].ts <= clock
          /\ \A x \in filed : x.evidence # writer[h].ts
          /\ \A g \in Handlers :
                g # h /\ writer[g].pc = "commit" => writer[g].ts # writer[h].ts

LEMMA StampInit == Init => StampInv
  BY DEF Init, StampInv, Vault!Init, Vault!IdleWriter

LEMMA StampStays ==
  ASSUME StampInv, filed' = filed, clock' = clock,
         \A h \in Handlers : writer'[h] = writer[h] \/ writer'[h].pc # "commit"
  PROVE  StampInv'
  BY DEF StampInv

LEMMA StampStamp ==
  ASSUME WorkInv, StampInv, NEW h \in Handlers, Stamp(h)
  PROVE  StampInv'
<1>1. filed' = filed /\ clock' = clock + 1 /\ clock \in Nat
  BY DEF Stamp, Vault!Stamp, history, WorkInv, WriterOK
<1>2. \A x \in filed : x.evidence \in Nat
  BY DEF WorkInv, TypeOK
<1>3. \A g \in Handlers : writer[g] \in Vault!WriterState /\ writer[g].ts \in Nat
  BY DEF WorkInv, WriterOK, Vault!WriterState
<1>4. /\ \A g \in Handlers : g # h => writer'[g] = writer[g]
      /\ writer'[h].ts = clock + 1
  <2>1. writer' = [writer EXCEPT ![h] = [writer[h] EXCEPT !.pc = "commit",
                                                          !.ts = clock + 1]]
    BY DEF Stamp, Vault!Stamp
  <2>2. [writer[h] EXCEPT !.pc = "commit", !.ts = clock + 1].ts = clock + 1
    BY <1>3 DEF Vault!WriterState
  <2> QED
    BY <2>1, <2>2 DEF WorkInv, WriterOK
<1>5. \A x \in filed : x.evidence # None /\ x.evidence < clock + 1
  BY <1>1, <1>2 DEF StampInv
<1>6. \A g \in Handlers : g # h /\ writer[g].pc = "commit" =>
         writer[g].ts < clock + 1
  BY <1>1, <1>3 DEF StampInv
<1> QED
  BY <1>1, <1>2, <1>3, <1>4, <1>5, <1>6 DEF StampInv

LEMMA StampCommit ==
  ASSUME WorkInv, StampInv, NEW h \in Handlers, CommitEvidence(h)
  PROVE  StampInv'
<1> DEFINE e == writer[h].ts
           entry == [evidence |-> e, op |-> handler[h].op,
                     subject |-> handler[h].subject]
<1>1. /\ filed' = filed \cup {entry} /\ clock' = clock
      /\ writer[h].pc = "commit"
  BY DEF CommitEvidence, Vault!Commit
<1>2. entry.evidence = e /\ e # None
  BY CommitFiles
<1>3. /\ \A g \in Handlers : g # h => writer'[g] = writer[g]
      /\ writer'[h].pc # "commit"
  <2>1. Vault!IdleWriter.pc = "idle"
    BY DEF Vault!IdleWriter
  <2> QED
    BY <2>1, CommitFiles DEF WorkInv, WriterOK
<1> HIDE DEF entry
<1> QED
  BY <1>1, <1>2, <1>3 DEF StampInv

LEMMA StampNext == WorkInv /\ StampInv /\ [Next]_vars => StampInv'
<1> SUFFICES ASSUME WorkInv, StampInv, [Next]_vars PROVE StampInv'
  OBVIOUS
<1>1. ASSUME NEW h \in Handlers, Begin(h) PROVE StampInv'
  BY <1>1, WorkBegin, StampStays DEF vaultVars
<1>2. ASSUME NEW h \in Handlers, ReadTip(h) PROVE StampInv'
  <2>1. filed' = filed /\ clock' = clock
    BY <1>2 DEF ReadTip, Vault!ReadTip, history
  <2>2. \A g \in Handlers : writer'[g] = writer[g] \/ writer'[g].pc # "commit"
    BY <1>2 DEF ReadTip, Vault!ReadTip, WorkInv, WriterOK
  <2> QED
    BY <2>1, <2>2, StampStays
<1>3. ASSUME NEW h \in Handlers, Record(h) PROVE StampInv'
  BY <1>3, RecordFrame, StampStays DEF vaultVars
<1>4. ASSUME NEW h \in Handlers, Fail(h) PROVE StampInv'
  <2>1. /\ filed' = filed /\ clock' = clock
        /\ writer' = [writer EXCEPT ![h] = Vault!IdleWriter]
    BY <1>4 DEF Fail
  <2>2. \A g \in Handlers : writer'[g] = writer[g] \/ writer'[g].pc # "commit"
    BY <2>1 DEF WorkInv, WriterOK, Vault!IdleWriter
  <2> QED
    BY <2>1, <2>2, StampStays
<1>5. ASSUME NEW r \in Requests, CreateRequest(r) PROVE StampInv'
  BY <1>5, StampStays DEF CreateRequest, vaultVars, history
<1>6. CASE UNCHANGED vars
  BY <1>6, StampStays DEF vars, vaultVars, history
<1> QED
  BY <1>1, <1>2, <1>3, <1>4, <1>5, <1>6, StampStamp, StampCommit DEF Next

(* A handler carries evidence only once it has filed some, and every piece *)
(* that is filed is on its way to its row, in it, or was lost.             *)
OrphanInv ==
    /\ \A h \in Handlers :
          handler[h].pc # "idle" /\ handler[h].evidence # None
              => handler[h].pc = "record" /\ handler[h].op \in Filing
    /\ \A x \in filed : x.op = "fulfil" => x.subject \in Requests
    /\ NoOrphanEvidence

(* The evidence a handler carries was filed by it and by no other.         *)
LEMMA CarriedIsFiled ==
  ASSUME WorkInv, Carried, StampInv, OrphanInv, NEW h \in Handlers,
         handler[h].pc = "record", NEW x \in filed,
         handler[h].evidence = x.evidence
  PROVE  /\ x.op = handler[h].op /\ x.subject = handler[h].subject
         /\ handler[h].op \in Filing
<1>1. handler[h].op \in Filing
  BY DEF OrphanInv, StampInv
<1> DEFINE y == [evidence |-> handler[h].evidence, op |-> handler[h].op,
                 subject |-> handler[h].subject]
<1>2. y \in filed
  BY <1>1 DEF Carried, FiledFor
<1>3. y.evidence = x.evidence
  OBVIOUS
<1>4. y = x
  BY <1>2, <1>3 DEF StampInv
<1> QED
  BY <1>1, <1>4

(* What is left of a filed record when no handler is about to store it.    *)
Kept(x) ==
    /\ x.op = "fulfil" =>
          request[x.subject].evidence = x.evidence \/ x.subject \in contended
    /\ x.op = "sign" =>
          [subject |-> x.subject, evidence |-> x.evidence] \in signoffs

(* A record that is kept stays so: only a fulfilling handler changes the   *)
(* evidence of a request, and that of a fulfilled one only if contended.   *)
LEMMA KeptStays ==
  ASSUME WorkInv, Exclusive, RequestInv, StampInv, OrphanInv, [Next]_vars,
         NEW x \in filed, Kept(x), signoffs \subseteq signoffs'
  PROVE  Kept(x)'
<1>1. contended \subseteq contended'
  BY ContendedGrows
<1>2. ASSUME x.op = "fulfil"
      PROVE  request'[x.subject].evidence = x.evidence \/ x.subject \in contended'
  <2>1. CASE x.subject \in contended
    BY <1>1, <2>1
  <2>2. CASE x.subject \notin contended
    <3> x.subject \in Requests
      BY <1>2 DEF OrphanInv
    <3>1. request[x.subject].evidence = x.evidence /\ x.evidence # None
      BY <1>2, <2>2 DEF Kept, StampInv
    <3>2. request[x.subject].status = "fulfilled"
      BY <2>2, <3>1 DEF RequestInv
    <3>3. request'[x.subject] = request[x.subject]
      BY <2>2, <3>2, RequestSteps DEF RequestStep
    <3> QED
      BY <3>1, <3>3
  <2> QED
    BY <2>1, <2>2
<1> QED
  BY <1>1, <1>2 DEF Kept

LEMMA SignoffsGrow ==
  ASSUME WorkInv, [Next]_vars
  PROVE  signoffs \subseteq signoffs'
<1>1. ASSUME NEW h \in Handlers, Record(h) PROVE signoffs \subseteq signoffs'
  BY <1>1 DEF Record, RecordRequest, RecordFinding, RecordPenTest, RecordSignOff
<1>2. ASSUME NEW h \in Handlers, Begin(h) PROVE signoffs' = signoffs
  BY <1>2, WorkBegin DEF rowVars
<1> QED
  BY <1>1, <1>2 DEF Next, ReadTip, Stamp, CommitEvidence, Fail, CreateRequest,
     vars, rowVars

(* The handlers that go on with what they carry, and the others.           *)
LEMMA OrphanStays ==
  ASSUME WorkInv, Exclusive, RequestInv, StampInv, OrphanInv, [Next]_vars,
         filed' = filed, lost \subseteq lost', NEW h \in Handlers,
         \A g \in Handlers : g # h => handler'[g] = handler[g],
         NEW x \in filed \ lost',
         handler[h].pc = "record" /\ handler[h].evidence = x.evidence
             => AboutToRecord(x.evidence)' \/ Kept(x)'
  PROVE  AboutToRecord(x.evidence)' \/ Kept(x)'
<1>1. AboutToRecord(x.evidence) \/ Kept(x)
  BY DEF OrphanInv, NoOrphanEvidence, Kept
<1>2. Kept(x) => Kept(x)'
  BY KeptStays, SignoffsGrow
<1>3. ASSUME NEW g \in Handlers, g # h,
             handler[g].pc = "record", handler[g].evidence = x.evidence
      PROVE  AboutToRecord(x.evidence)'
  BY <1>3 DEF AboutToRecord
<1> QED
  BY <1>1, <1>2, <1>3 DEF AboutToRecord

LEMMA OrphanBegin ==
  ASSUME WorkInv, Exclusive, RequestInv, Carried, StampInv, OrphanInv,
         NEW h \in Handlers, Begin(h), [Next]_vars
  PROVE  OrphanInv'
<1>1. /\ filed' = filed /\ lost' = lost
      /\ handler[h].pc = "idle" /\ handler'[h].evidence = None
      /\ \A g \in Handlers : g # h => handler'[g] = handler[g]
  BY WorkBegin, BeginWorks
<1>2. \A x \in filed \ lost' : AboutToRecord(x.evidence)' \/ Kept(x)'
  BY <1>1, OrphanStays
<1>3. NoOrphanEvidence'
  BY <1>1, <1>2 DEF NoOrphanEvidence, Kept
<1>4. \A g \in Handlers : handler'[g].pc # "idle" /\ handler'[g].evidence # None
         => handler'[g].pc = "record" /\ handler'[g].op \in Filing
  BY <1>1 DEF OrphanInv
<1> QED
  BY <1>1, <1>3, <1>4 DEF OrphanInv

LEMMA OrphanCommit ==
  ASSUME WorkInv, Exclusive, RequestInv, Carried, StampInv, OrphanInv,
         NEW h \in Handlers, CommitEvidence(h), [Next]_vars
  PROVE  OrphanInv'
<1> DEFINE e == writer[h].ts
           entry == [evidence |-> e, op |-> handler[h].op,
                     subject |-> handler[h].subject]
<1>1. /\ handler[h].pc = "append"
      /\ \A g \in Handlers : g # h => handler'[g] = handler[g]
      /\ handler'[h].pc = "record" =>
           handler'[h].op = handler[h].op /\ handler'[h].evidence = e
      /\ handler[h].op = "auto" => handler'[h] = Idle
      /\ handler[h].op # "auto" =>
           handler'[h] = [handler[h] EXCEPT !.pc = "record", !.evidence = e]
  BY CommitFiles
<1>2. filed' = filed \cup {entry} /\ lost' = lost
  BY DEF CommitEvidence
<1>3. /\ entry.evidence = e /\ entry.op = handler[h].op
      /\ entry.subject = handler[h].subject
  OBVIOUS
<1> HIDE DEF entry
<1>4. handler[h].op # "auto" => handler'[h].pc = "record" /\ handler'[h].evidence = e
  BY <1>1 DEF WorkInv, TypeOK, HandlerState
<1>5. /\ handler[h].op \in Filing \cup {"auto"} /\ Idle.pc = "idle"
      /\ handler[h].op = "fulfil" => handler[h].subject \in Requests
  BY <1>1 DEF WorkInv, OpOK, Idle
<1>6. \A g \in Handlers : handler'[g].pc # "idle" /\ handler'[g].evidence # None
         => handler'[g].pc = "record" /\ handler'[g].op \in Filing
  BY <1>1, <1>4, <1>5 DEF OrphanInv
<1>7. ASSUME NEW x, x = entry PROVE AboutToRecord(x.evidence)' \/ Kept(x)'
  <2>1. CASE handler[h].op = "auto"
    BY <1>3, <1>7, <2>1 DEF Kept
  <2>2. CASE handler[h].op # "auto"
    BY <1>3, <1>4, <1>7, <2>2 DEF AboutToRecord
  <2> QED
    BY <2>1, <2>2
<1>8. ASSUME NEW x \in filed \ lost PROVE AboutToRecord(x.evidence)' \/ Kept(x)'
  <2>1. AboutToRecord(x.evidence) \/ Kept(x)
    BY DEF OrphanInv, NoOrphanEvidence, Kept
  <2>2. Kept(x) => Kept(x)'
    BY KeptStays, SignoffsGrow
  <2>3. AboutToRecord(x.evidence) => AboutToRecord(x.evidence)'
    BY <1>1 DEF AboutToRecord
  <2> QED
    BY <2>1, <2>2, <2>3
<1>9. NoOrphanEvidence'
  BY <1>2, <1>7, <1>8 DEF NoOrphanEvidence, Kept
<1> QED
  BY <1>2, <1>3, <1>5, <1>6, <1>9 DEF OrphanInv

LEMMA OrphanRecord ==
  ASSUME WorkInv, Exclusive, RequestInv, Carried, StampInv, OrphanInv,
         NEW h \in Handlers, Record(h), [Next]_vars
  PROVE  OrphanInv'
<1>1. /\ handler[h].pc = "record" /\ filed' = filed /\ lost' = lost
      /\ \A g \in Handlers : g # h => handler'[g] = handler[g]
      /\ handler'[h].pc = "idle"
  BY RecordFrame DEF WorkInv, TypeOK, Idle
<1>2. ASSUME NEW x \in filed \ lost', handler[h].evidence = x.evidence
      PROVE  Kept(x)'
  <2>1. x.op = handler[h].op /\ x.subject = handler[h].subject
    BY <1>1, <1>2, CarriedIsFiled
  <2>2. CASE x.op = "fulfil"
    <3>1. handler[h].subject \in Requests
      BY <1>1, <2>1, <2>2 DEF WorkInv, OpOK
    <3>2. request'[x.subject].evidence = x.evidence
      BY <1>2, <2>1, <2>2, <3>1 DEF Record, RecordRequest, RecordFinding,
         RecordPenTest, RecordSignOff, WorkInv, TypeOK
    <3> QED
      BY <2>2, <3>2 DEF Kept
  <2>3. CASE x.op = "sign"
    <3>1. [subject |-> x.subject, evidence |-> x.evidence] \in signoffs'
      BY <1>2, <2>1, <2>3 DEF Record, RecordRequest, RecordFinding,
         RecordPenTest, RecordSignOff
    <3> QED
      BY <2>3, <3>1 DEF Kept
  <2>4. CASE x.op \notin {"fulfil", "sign"}
    BY <2>4 DEF Kept
  <2> QED
    BY <2>2, <2>3, <2>4
<1>3. \A x \in filed \ lost' : AboutToRecord(x.evidence)' \/ Kept(x)'
  BY <1>1, <1>2, OrphanStays
<1>4. NoOrphanEvidence'
  BY <1>1, <1>3 DEF NoOrphanEvidence, Kept
<1> QED
  BY <1>1, <1>4 DEF OrphanInv

LEMMA OrphanFail ==
  ASSUME WorkInv, Exclusive, RequestInv, Carried, StampInv, OrphanInv,
         NEW h \in Handlers, Fail(h), [Next]_vars
  PROVE  OrphanInv'
<1> DEFINE entry == [evidence |-> handler[h].evidence, op |-> handler[h].op,
                     subject |-> handler[h].subject]
<1>1. /\ filed' = filed /\ handler' = [handler EXCEPT ![h] = Idle]
      /\ lost' = IF handler[h].evidence = None THEN lost ELSE lost \cup {entry}
  BY DEF Fail
<1>2. /\ \A g \in Handlers : g # h => handler'[g] = handler[g]
      /\ handler'[h].pc = "idle"
  BY <1>1 DEF WorkInv, TypeOK, Idle
<1>3. ASSUME NEW x \in filed \ lost',
             handler[h].pc = "record", handler[h].evidence = x.evidence
      PROVE  FALSE
  <2>1. /\ x.op = handler[h].op /\ x.subject = handler[h].subject
        /\ x.evidence # None
    BY <1>3, CarriedIsFiled DEF StampInv
  <2>2. x \in [evidence: Nat, op: Ops, subject: Subjects]
    BY DEF WorkInv, TypeOK
  <2>3. x = entry
    BY <1>3, <2>1, <2>2
  <2> QED
    BY <1>1, <1>3, <2>1, <2>3
<1>4. \A x \in filed \ lost' : AboutToRecord(x.evidence)' \/ Kept(x)'
  BY <1>1, <1>2, <1>3, OrphanStays
<1>5. NoOrphanEvidence'
  BY <1>1, <1>4 DEF NoOrphanEvidence, Kept
<1> QED
  BY <1>1, <1>2, <1>5 DEF OrphanInv

LEMMA OrphanInit == Init => OrphanInv
  BY DEF Init, OrphanInv, NoOrphanEvidence, Idle

LEMMA OrphanNext ==
  /\ WorkInv /\ Exclusive /\ RequestInv /\ Carried /\ StampInv /\ OrphanInv
  /\ [Next]_vars
  => OrphanInv'
<1> SUFFICES ASSUME WorkInv, Exclusive, RequestInv, Carried, StampInv, OrphanInv,
                    [Next]_vars
             PROVE  OrphanInv'
  OBVIOUS
<1>1. ASSUME filed' = filed, lost' = lost, handler' = handler
      PROVE  OrphanInv'
  <2>1. \A x \in filed : Kept(x) => Kept(x)'
    BY KeptStays, SignoffsGrow
  <2>2. NoOrphanEvidence'
    BY <1>1, <2>1 DEF OrphanInv, NoOrphanEvidence, Kept, AboutToRecord
  <2> QED
    BY <1>1, <2>2 DEF OrphanInv
<1>2. ASSUME NEW h \in Handlers, ReadTip(h) \/ Stamp(h) PROVE OrphanInv'
  BY <1>1, <1>2 DEF ReadTip, Stamp, history
<1>3. ASSUME NEW r \in Requests, CreateRequest(r) PROVE OrphanInv'
  BY <1>1, <1>3 DEF CreateRequest, history
<1>4. CASE UNCHANGED vars
  BY <1>1, <1>4 DEF vars, history
<1> QED
  BY <1>2, <1>3, <1>4, OrphanBegin, OrphanCommit, OrphanRecord, OrphanFail DEF Next

(* Evidence committed for a request or a sign-off ends in its row: it is   *)
(* left in the vault alone only by a handler that failed between its two   *)
(* commits, or by two that fulfilled one request together.                 *)
THEOREM EvidenceIsNotLeftBehind == Spec => []NoOrphanEvidence
<1>1. OrphanInv => NoOrphanEvidence
  BY DEF OrphanInv
<1>2. EvidenceInv => Carried
  BY DEF EvidenceInv
<1> QED
  BY <1>1, <1>2, WorkInit, WorkNext, EvidenceInit, EvidenceNext, RequestInit,
     ExclusiveNext, RequestNext, StampInit, StampNext, OrphanInit, OrphanNext, PTL
     DEF Spec

-----------------------------------------------------------------------------
(* What is proved of the vault holds for the handlers                      *)

Proved == INSTANCE EvidenceVaultProofs WITH
    Tenants <- {Tenant}, DemoTenants <- {}, Writers <- Handlers,
    Listers <- {}, CheckLimit <- 1, ListLimit <- 1, SeedLinks <- <<TRUE>>

LEMMA VaultAssumptions == Proved!TenantsAssumption /\ Proved!LimitsAssumption
  BY SubjectsAssumption DEF Proved!TenantsAssumption, Proved!LimitsAssumption

(* Vault and Proved are instances of one module, definition by definition. *)
LEMMA SameInit == Vault!Init <=> Proved!Init
  BY DEF Vault!Init, Proved!Init, Vault!IdleWriter, Proved!IdleWriter,
         Vault!IdleLister, Proved!IdleLister, Vault!Genesis, Proved!Genesis,
         Vault!NoTenant, Proved!NoTenant

LEMMA SameNext == [Vault!Next]_(Vault!vars) <=> [Proved!Next]_(Proved!vars)
  BY DEF Vault!Genesis, Proved!Genesis, Vault!Production, Proved!Production,
         Vault!Record, Proved!Record, Vault!WriterState, Proved!WriterState,
         Vault!ListerState, Proved!ListerState, Vault!NoTenant,
         Proved!NoTenant, Vault!IdleWriter, Proved!IdleWriter,
         Vault!IdleLister, Proved!IdleLister, Vault!OldestChainHashes,
         Proved!OldestChainHashes, Vault!LatestChainHashes,
         Proved!LatestChainHashes, Vault!Links, Proved!Links,
         Vault!AppendsFor, Proved!AppendsFor, Vault!ReadTip, Proved!ReadTip,
         Vault!Stamp, Proved!Stamp, Vault!NewRecord, Proved!NewRecord,
         Vault!Commit, Proved!Commit, Vault!Samples, Proved!Samples,
         Vault!AfterSample, Proved!AfterSample, Vault!ListsFor,
         Proved!ListsFor, Vault!ListCheck, Proved!ListCheck, Vault!ListDelete,
         Proved!ListDelete, Vault!ListPurge, Proved!ListPurge,
         Vault!SeedRecord, Proved!SeedRecord, Vault!ListSeed, Proved!ListSeed,
         Vault!ListInsert, Proved!ListInsert, Vault!Listing, Proved!Listing,
         Vault!Precedes, Proved!Precedes, Vault!ChainValid, Proved!ChainValid,
         Vault!ListRead, Proved!ListRead, Vault!AppendFails,
         Proved!AppendFails, Vault!ListFails, Proved!ListFails, Vault!Fail,
         Proved!Fail, Vault!AppendEvidence, Proved!AppendEvidence,
         Vault!Reseed, Proved!Reseed, Vault!List, Proved!List, Vault!Next,
         Proved!Next, Vault!vars, Proved!vars

LEMMA SameProperties ==
  /\ Vault!LinksResolve <=> Proved!LinksResolve
  /\ Vault!SerialChainLinear <=> Proved!SerialChainLinear
  BY DEF Vault!LinksResolve, Proved!LinksResolve, Vault!SerialChainLinear,
         Proved!SerialChainLinear, Vault!Resolves, Proved!Resolves,
         Vault!ChainLinear, Proved!ChainLinear, Vault!Genesis, Proved!Genesis,
         Vault!Production, Proved!Production

(* However the handlers that file evidence for requests, findings, tests   *)
(* and sign-offs interleave and fail, append_evidence_record leaves every  *)
(* link of the chain resolved, and the chain unforked unless two of them   *)
(* appended at a time: the theorems of EvidenceVaultProofs, which hold for *)
(* its callers because these implement the vault.                          *)
THEOREM HandlersKeepTheChain == Spec => []ChainKept
<1>1. Proved!Spec => []Proved!LinksResolve
  BY VaultAssumptions, Proved!LinksAlwaysResolve
<1>2. Proved!Spec => []Proved!SerialChainLinear
  BY VaultAssumptions, Proved!SerialChainIsLinear
<1>3. Vault!LinksResolve /\ Vault!SerialChainLinear => ChainKept
  BY DEF ChainKept
<1> QED
  BY <1>1, <1>2, <1>3, SameInit, SameNext, SameProperties, WorkflowImplementsVault,
     PTL DEF ImplementsVault, Vault!Spec, Proved!Spec
===============================================================================
