--------------------------- MODULE EvidenceProofs -----------------------------
(***************************************************************************)
(* Proofs about EdgeRuntime: the evidence that a command may have been     *)
(* executed outlives everything but the Server's receipt of a result, what *)
(* the Server is told was not executed never is, and until an edit it is   *)
(* told what the ledger holds.                                             *)
(***************************************************************************)
EXTENDS EdgeRuntimeProofs

(***************************************************************************)
(* The inductive invariant.  A ledger is evident if it has on record, as   *)
(* possibly executed, whatever was sent and not answered to the Server;    *)
(* this lasts because only records the Server has an answer for are marked *)
(* as acknowledged, and only those are ever pruned.  A worker relies on    *)
(* what it has read.                                                       *)
(***************************************************************************)
Evident(ledger, sent, heard) ==
    /\ \A r \in Requests : sent[r] > 0 /\ heard[IdOf[r]] = {} => Spent(ledger, r)
    /\ \A id \in Ids : ledger[id].acked => heard[id] # {}

Heeded(r) == answered[IdOf[r]] # {}

WorkerEvident(cam) ==
    /\ pc[cam] = "deadline" => transmitted[Current(cam)] = 0 \/ Heeded(Current(cam))
    /\ pc[cam] = "send" => \/ Heeded(Current(cam))
                           \/ Spent(mem, Current(cam)) /\ Spent(disk, Current(cam))
    /\ pc[cam] = "complete" /\ verdict[cam] \in Failed =>
            transmitted[Current(cam)] = 0 \/ Heeded(Current(cam))

EInv ==
    /\ Evident(disk, transmitted, answered)
    /\ up => Evident(mem, transmitted, answered)
    /\ \A t \in snapshots : t.outcome = "ok" => \A p \in t.sent : answered[p[1]] # {}
    /\ \A cam \in Cameras : WorkerEvident(cam)

-----------------------------------------------------------------------------
(***************************************************************************)
(* Operations of the ledger.                                               *)
(***************************************************************************)
\* What an operation keeps of a ledger.
Faithful(ledger, after, heard) ==
    /\ \A r \in Requests : Spent(ledger, r) /\ heard[IdOf[r]] = {} => Spent(after, r)
    /\ \A id \in Ids : after[id].acked => heard[id] # {}

LEMMA FaithfulEvident ==
    ASSUME NEW ledger, NEW after, NEW sent, NEW heard,
           Evident(ledger, sent, heard), Faithful(ledger, after, heard)
    PROVE  Evident(after, sent, heard)
  BY DEF Evident, Faithful

LEMMA PruneFaithful ==
    ASSUME NEW ledger, NEW t, NEW sent, NEW heard, Evident(ledger, sent, heard)
    PROVE  Faithful(ledger, Prune(ledger, t), heard)
  <1>1. \A id \in Ids : \/ Prune(ledger, t)[id] = ledger[id]
                        \/ Prune(ledger, t)[id] = NoRecord /\ ledger[id].acked
    BY DEF Prune, Prunable
  <1>2. NoRecord.acked = FALSE
    BY DEF NoRecord
  <1>3. \A r \in Requests : IdOf[r] \in Ids
    BY LedgerAssumption
  <1> QED BY <1>1, <1>2, <1>3 DEF Evident, Faithful, Spent, Holds

LEMMA RecoverFaithful ==
    ASSUME NEW ledger \in Ledgers, NEW sent, NEW heard, Evident(ledger, sent, heard)
    PROVE  Faithful(ledger, Recover(ledger), heard)
  <1>1. ASSUME NEW id \in Ids
        PROVE  /\ Recover(ledger)[id].request = ledger[id].request
               /\ Recover(ledger)[id].acked = ledger[id].acked
               /\ ledger[id].state \in {"pending", "succeeded", "unknown"} =>
                    Recover(ledger)[id].state \in {"pending", "succeeded", "unknown"}
    <2>1. ledger[id] \in Record
      BY <1>1, LedgerRecords
    <2>2. Recover(ledger)[id] =
             IF ledger[id].state = "queued" THEN [ledger[id] EXCEPT !.state = "device_unavailable"]
             ELSE IF ledger[id].state = "pending" THEN [ledger[id] EXCEPT !.state = "unknown"]
             ELSE ledger[id]
      BY DEF Recover
    <2> QED BY <2>1, <2>2 DEF Record
  <1>2. \A r \in Requests : IdOf[r] \in Ids
    BY LedgerAssumption
  <1>3. ASSUME NEW r \in Requests, Spent(ledger, r) PROVE Spent(Recover(ledger), r)
    <2>1. Recover(ledger)[IdOf[r]].state # "absent"
      BY <1>1, <1>2, <1>3 DEF Spent
    <2> QED BY <1>1, <1>2, <1>3, <2>1 DEF Spent, Holds
  <1> QED BY <1>1, <1>3 DEF Evident, Faithful

LEMMA OpenedFaithful ==
    ASSUME NEW ledger \in Ledgers, NEW t, NEW sent, NEW heard, Evident(ledger, sent, heard)
    PROVE  Evident(Opened(ledger, t), sent, heard)
  BY RecoverFaithful, PruneFaithful, FaithfulEvident DEF Opened

\* A record that takes another state, without becoming one of a command that was
\* not executed.
LEMMA ChangedFaithful ==
    ASSUME NEW ledger \in Ledgers, NEW id \in Ids, NEW v \in States, NEW sent, NEW heard,
           Evident(ledger, sent, heard), ledger[id].state # "absent", v # "absent",
           ledger[id].state \in {"pending", "succeeded", "unknown"} => v \in {"pending", "succeeded", "unknown"}
    PROVE  Faithful(ledger, [ledger EXCEPT ![id].state = v], heard)
  <1> DEFINE after == [ledger EXCEPT ![id].state = v]
  <1>1. /\ after \in Ledgers
        /\ after[id] = [ledger[id] EXCEPT !.state = v]
        /\ \A other \in Ids : other # id => after[other] = ledger[other]
    BY ChangedRecordIsLedger
  <1>2. ledger[id] \in Record
    BY LedgerRecords
  <1> HIDE DEF after
  <1>3. /\ after[id].request = ledger[id].request /\ after[id].acked = ledger[id].acked
        /\ after[id].state = v
    BY <1>1, <1>2 DEF Record
  <1>4. ASSUME NEW r \in Requests, Spent(ledger, r) PROVE Spent(after, r)
    <2>1. IdOf[r] \in Ids
      BY LedgerAssumption
    <2> QED BY <1>1, <1>3, <1>4, <2>1 DEF Spent, Holds
  <1>5. \A other \in Ids : after[other].acked = ledger[other].acked
    BY <1>1, <1>3
  <1> QED BY <1>4, <1>5 DEF Evident, Faithful, after

LEMMA CanceledFaithful ==
    ASSUME NEW ledger \in Ledgers, NEW id \in Ids, NEW sent, NEW heard,
           Evident(ledger, sent, heard), ledger[id].state # "absent"
    PROVE  Faithful(ledger, Completed(ledger, id, CancelVerdict(ledger[id].state)), heard)
  <1> DEFINE state == ledger[id].state
             v == CancelVerdict(state)
  <1>1. state \in States
    BY LedgerRecords
  <1>2. v \in States /\ v # "absent"
    BY <1>1 DEF CancelVerdict, States, Verdicts, Failed
  <1>3. state \in {"pending", "succeeded", "unknown"} => v \in {"pending", "succeeded", "unknown"}
    BY DEF CancelVerdict
  <1> QED BY <1>2, <1>3, ChangedFaithful DEF Completed

LEMMA BegunFaithful ==
    ASSUME NEW ledger \in Ledgers, NEW id \in Ids, NEW sent, NEW heard,
           Evident(ledger, sent, heard), ledger[id].state = "queued"
    PROVE  Faithful(ledger, Begun(ledger, id), heard)
  <1>1. "pending" \in States
    BY DEF States
  <1> QED BY <1>1, ChangedFaithful DEF Begun

LEMMA AcknowledgedFaithful ==
    ASSUME NEW ledger \in Ledgers, NEW t, NEW sent, NEW heard, NEW ids \in SUBSET Ids,
           Evident(ledger, sent, heard), \A id \in ids : heard[id] # {}
    PROVE  Faithful(ledger, Acknowledged(ledger, ids, t), heard)
  <1> DEFINE marked == [id \in Ids |-> IF id \in ids \cap Present(ledger)
                                       THEN [ledger[id] EXCEPT !.acked = TRUE]
                                       ELSE ledger[id]]
  <1>1. ASSUME NEW id \in Ids
        PROVE  /\ marked[id].request = ledger[id].request
               /\ marked[id].state = ledger[id].state
               /\ marked[id].acked => ledger[id].acked \/ id \in ids
    <2>1. ledger[id] \in Record
      BY <1>1, LedgerRecords
    <2> QED BY <2>1 DEF Record
  <1>2. Acknowledged(ledger, ids, t) = Prune(marked, t)
    BY DEF Acknowledged
  <1> HIDE DEF marked
  <1>3. \A r \in Requests : Spent(ledger, r) => Spent(marked, r)
    BY <1>1, LedgerAssumption DEF Spent, Holds
  <1>4. Evident(marked, sent, heard)
    BY <1>1, <1>3 DEF Evident
  <1>5. Faithful(marked, Prune(marked, t), heard)
    BY <1>4, PruneFaithful
  <1> QED BY <1>2, <1>3, <1>5 DEF Faithful

LEMMA AdmittedFaithful ==
    ASSUME NEW ledger \in Ledgers, NEW t, NEW sent, NEW heard, NEW batch \in SUBSET Requests,
           Evident(ledger, sent, heard)
    PROVE  Faithful(ledger, Admitted(ledger, batch, t), heard)
  <1> DEFINE pruned == Prune(ledger, t)
             after == Admitted(ledger, batch, t)
  <1>1. Faithful(ledger, pruned, heard)
    BY PruneFaithful
  <1>2. ASSUME NEW id \in Ids
        PROVE  \/ after[id] = pruned[id]
               \/ pruned[id].state = "absent" /\ after[id].acked = FALSE
    <2>1. CASE \E r \in Additions(ledger, batch, t) : IdOf[r] = id
      BY <2>1 DEF Admitted, Additions
    <2>2. CASE ~\E r \in Additions(ledger, batch, t) : IdOf[r] = id
      BY <2>2 DEF Admitted
    <2> QED BY <2>1, <2>2
  <1> HIDE DEF pruned, after
  <1>3. \A r \in Requests : Spent(pruned, r) => Spent(after, r)
    BY <1>2, LedgerAssumption DEF Spent, Holds
  <1>4. \A id \in Ids : after[id].acked => heard[id] # {}
    BY <1>1, <1>2 DEF Faithful
  <1> QED BY <1>1, <1>3, <1>4 DEF Faithful, pruned, after

\* A verdict that is written late leaves no gap: the worker knows whether the
\* command went out.
LEMMA WrittenEvident ==
    ASSUME NEW ledger \in Ledgers, NEW r \in Requests, NEW v \in Verdicts, NEW sent, NEW heard,
           Evident(ledger, sent, heard),
           ledger[IdOf[r]].state # "absent", ledger[IdOf[r]].request = r,
           v \in Failed => ~(sent[r] > 0) \/ heard[IdOf[r]] # {}
    PROVE  Evident(Completed(ledger, IdOf[r], v), sent, heard)
  <1> DEFINE id == IdOf[r]
             after == [ledger EXCEPT ![id].state = v]
  <1>1. id \in Ids /\ v \in States /\ v # "absent"
    BY LedgerAssumption, VerdictsAreStates
  <1>2. /\ after \in Ledgers
        /\ after[id] = [ledger[id] EXCEPT !.state = v]
        /\ \A other \in Ids : other # id => after[other] = ledger[other]
    BY <1>1, ChangedRecordIsLedger
  <1>3. ledger[id] \in Record
    BY <1>1, LedgerRecords
  <1> HIDE DEF after
  <1>4. /\ after[id].request = ledger[id].request /\ after[id].acked = ledger[id].acked
        /\ after[id].state = v
    BY <1>2, <1>3 DEF Record
  <1>5. ASSUME NEW s \in Requests, sent[s] > 0, heard[IdOf[s]] = {} PROVE Spent(after, s)
    <2>1. Spent(ledger, s) /\ IdOf[s] \in Ids
      BY <1>5, LedgerAssumption DEF Evident
    <2>2. CASE IdOf[s] # id
      BY <1>2, <2>1, <2>2 DEF Spent, Holds
    <2>3. CASE IdOf[s] = id
      <3>1. s = r
        BY <2>1, <2>3 DEF Spent, Holds
      <3>2. v \in {"succeeded", "unknown"}
        BY <1>5, <3>1 DEF Verdicts
      <3> QED BY <1>1, <1>4, <3>1, <3>2 DEF Spent, Holds
    <2> QED BY <2>2, <2>3
  <1>6. \A other \in Ids : after[other].acked = ledger[other].acked
    BY <1>2, <1>4
  <1> QED BY <1>5, <1>6 DEF Evident, Completed, after

-----------------------------------------------------------------------------
(***************************************************************************)
(* Steps that leave the ledger alone, and the end of the process.          *)
(***************************************************************************)
Relying == {"deadline", "send", "complete"}

\* What has been answered stays answered; a snapshot that succeeded was answered.
AnswersKept ==
    /\ \A id \in Ids : answered[id] # {} => answered'[id] # {}
    /\ \A t \in snapshots' : t.outcome = "ok" => \/ t \in snapshots
                                                \/ \A p \in t.sent : answered'[p[1]] # {}

LEMMA AnswersStay ==
    ASSUME LInv, EInv, AnswersKept
    PROVE  \A t \in snapshots' : t.outcome = "ok" => \A p \in t.sent : answered'[p[1]] # {}
  <1> SUFFICES ASSUME NEW t \in snapshots', t.outcome = "ok", t \in snapshots, NEW p \in t.sent
               PROVE  answered'[p[1]] # {}
    BY DEF AnswersKept
  <1>1. t \in Snapshot
    BY DEF LInv, RuntimeTypeOK
  <1>2. p[1] \in Ids
    BY <1>1 DEF Snapshot
  <1> QED BY <1>2 DEF EInv, AnswersKept

LEMMA EvidentFrame ==
    ASSUME IInv, LInv, EInv, AnswersKept, UNCHANGED <<up, mem, disk, transmitted>>,
           \A cam \in Cameras : pc'[cam] \in Relying =>
                pc'[cam] = pc[cam] /\ queue'[cam] = queue[cam] /\ verdict'[cam] = verdict[cam]
    PROVE  EInv'
  <1>1. \A r \in Requests : IdOf[r] \in Ids
    BY LedgerAssumption
  <1>2. ASSUME NEW ledger, Evident(ledger, transmitted, answered)
        PROVE  Evident(ledger, transmitted', answered')
    BY <1>1, <1>2 DEF Evident, AnswersKept
  <1>3. Evident(disk, transmitted, answered)' /\ (up' => Evident(mem, transmitted, answered)')
    BY <1>2 DEF EInv
  <1>4. ASSUME NEW cam \in Cameras PROVE WorkerEvident(cam)'
    <2>1. CASE pc'[cam] \in Relying
      <3>1. pc'[cam] = pc[cam] /\ verdict'[cam] = verdict[cam] /\ Current(cam)' = Current(cam)
        BY <2>1 DEF Current
      <3>2. pc[cam] \in Engaged
        BY <2>1, <3>1 DEF Relying, Engaged, Running
      <3>3. Heeded(Current(cam)) => Heeded(Current(cam))'
        BY <3>1, <3>2, CurrentCommand DEF AnswersKept, Heeded
      <3>4. WorkerEvident(cam)
        BY DEF EInv
      <3> QED BY <3>1, <3>3, <3>4 DEF WorkerEvident
    <2>2. CASE pc'[cam] \notin Relying
      BY <2>2 DEF WorkerEvident, Relying
    <2> QED BY <2>1, <2>2
  <1> QED BY <1>3, <1>4, AnswersStay DEF EInv

LEMMA HaltedEvident ==
    ASSUME Halted, LoopEnds, UNCHANGED <<transmitted, answered>>,
           Evident(disk', transmitted, answered)
    PROVE  EInv'
  <1>1. ~up' /\ \A cam \in Cameras : pc'[cam] = "idle"
    BY DEF Halted
  <1>2. snapshots' = {}
    BY DEF LoopEnds, LoopStarts
  <1>3. Evident(disk, transmitted, answered)'
    OBVIOUS
  <1> QED BY <1>1, <1>2, <1>3 DEF EInv, WorkerEvident

\* The loop changes the ledger; no worker moves.
LEMMA LoopWritesEvident ==
    ASSUME IInv, LInv, EInv, up, up', NEW ledger, Faithful(mem, ledger, answered),
           mem' = ledger, disk' \in {disk, ledger},
           UNCHANGED <<workerVars, transmitted, answered>>, snapshots' \subseteq snapshots
    PROVE  EInv'
  <1>1. Evident(ledger, transmitted, answered)
    BY FaithfulEvident DEF EInv
  <1>2. Evident(disk, transmitted, answered)' /\ (up' => Evident(mem, transmitted, answered)')
    BY <1>1 DEF EInv
  <1>3. ASSUME NEW cam \in Cameras PROVE WorkerEvident(cam)'
    <2>1. CASE pc[cam] \in Relying
      <3>1. pc'[cam] = pc[cam] /\ verdict'[cam] = verdict[cam] /\ Current(cam)' = Current(cam)
        BY DEF Current, workerVars
      <3>2. Current(cam) \in Requests
        BY <2>1, CurrentCommand DEF Relying, Engaged, Running
      <3>3. WorkerEvident(cam)
        BY DEF EInv
      <3>4. Spent(mem, Current(cam)) /\ ~Heeded(Current(cam)) => Spent(ledger, Current(cam))
        BY <3>2 DEF Faithful, Heeded
      <3>5. Heeded(Current(cam)) = Heeded(Current(cam))'
        BY <3>1 DEF Heeded
      <3>6. pc'[cam] = "send" => \/ Heeded(Current(cam))'
                                 \/ Spent(mem', Current(cam)) /\ Spent(disk', Current(cam))
        BY <3>1, <3>3, <3>4, <3>5 DEF WorkerEvident
      <3> QED BY <3>1, <3>3, <3>5, <3>6 DEF WorkerEvident
    <2>2. CASE pc[cam] \notin Relying
      BY <2>2 DEF WorkerEvident, Relying, workerVars
    <2> QED BY <2>1, <2>2
  <1>4. AnswersKept
    BY DEF AnswersKept
  <1> QED BY <1>2, <1>3, <1>4, AnswersStay DEF EInv

LEMMA LoopSavesEvident ==
    ASSUME IInv, LInv, EInv, up, NEW ledger, Faithful(mem, ledger, answered),
           SaveByLoop(ledger), UNCHANGED <<transmitted, answered>>,
           up' => snapshots' \subseteq snapshots, ~up' => LoopEnds
    PROVE  EInv'
  <1>1. CASE Saved(ledger)
    BY <1>1, LoopWritesEvident DEF Saved
  <1>2. CASE SaveFails(ledger)
    <2>1. Evident(ledger, transmitted, answered) /\ Evident(disk, transmitted, answered)
      BY FaithfulEvident DEF EInv
    <2>2. Halted /\ disk' \in {disk, ledger} /\ ~up'
      BY <1>2 DEF SaveFails, Halted
    <2> QED BY <2>1, <2>2, HaltedEvident
  <1> QED BY <1>1, <1>2 DEF SaveByLoop

-----------------------------------------------------------------------------
(***************************************************************************)
(* Steps of the loop, of the Server and of the environment.                *)
(***************************************************************************)
\* Whether the process is still there after a step is TRUE or FALSE.
LEMMA UpOrDown ==
    ASSUME IInv, LInv, [RuntimeNext]_runtimeVars
    PROVE  up' \in BOOLEAN
  BY RuntimeStepSound, StepSound DEF IInv, TypeOK

LEMMA BootEvident ==
    ASSUME IInv, LInv, EInv, Boot
    PROVE  EInv'
  <1> DEFINE opened == Opened(disk, now)
  <1>1. ~up /\ Open /\ answered' = answered /\ transmitted' = transmitted
    BY DEF Boot, Open
  <1>2. Evident(opened, transmitted, answered)
    BY OpenedFaithful, LedgersReady DEF EInv
  <1> HIDE DEF opened
  <1>3. disk' \in {disk, opened} /\ (up' => mem' = opened)
    BY <1>1 DEF Open, SaveFails, Halted, opened
  <1>4. \A cam \in Cameras : pc'[cam] = "idle"
    BY <1>1 DEF Open, SaveFails, Halted, workerVars, IInv
  <1>5. snapshots' \subseteq snapshots
    BY DEF Boot, LoopStarts, loopVars, snapshotVars
  <1>6. Evident(disk, transmitted, answered)' /\ (up' => Evident(mem, transmitted, answered)')
    BY <1>1, <1>2, <1>3 DEF EInv
  <1>7. \A t \in snapshots' : t.outcome = "ok" => \A p \in t.sent : answered'[p[1]] # {}
    BY <1>1, <1>5 DEF EInv
  <1> QED BY <1>4, <1>6, <1>7 DEF EInv, WorkerEvident

LEMMA NetworkEvident ==
    ASSUME IInv, LInv, EInv, Network
    PROVE  EInv'
  <1> USE DEF passVars, commandVars, environmentVars
  <1>1. PICK t \in snapshots : SnapshotServed(t) \/ SnapshotLost(t) \/ SnapshotPanics(t)
    BY DEF Network
  <1>2. UNCHANGED vars
    BY <1>1 DEF SnapshotServed, SnapshotLost, SnapshotPanics
  <1>3. t \in Snapshot /\ answered \in [Ids -> SUBSET Verdicts]
    BY DEF LInv, RuntimeTypeOK
  <1>4. ASSUME NEW id \in Ids PROVE answered[id] \subseteq answered'[id]
    BY <1>1, <1>3 DEF SnapshotServed, SnapshotLost, SnapshotPanics, Heard
  <1>5. PICK outcome, commands : TaskEnds(t, outcome, commands)
                                 /\ (outcome = "ok" => answered' = Heard(t))
    BY <1>1 DEF SnapshotServed, SnapshotLost, SnapshotPanics
  <1>6. ASSUME answered' = Heard(t), NEW p \in t.sent PROVE answered'[p[1]] # {}
    <2>1. p \in Ids \X Verdicts
      BY <1>3 DEF Snapshot
    <2>2. p[1] \in Ids /\ p[2] \in {v \in Verdicts : <<p[1], v>> \in t.sent}
      BY <2>1, <1>6
    <2> QED BY <1>6, <2>2 DEF Heard
  <1>7. ASSUME NEW u \in snapshots', u.outcome = "ok"
        PROVE  u \in snapshots \/ \A p \in u.sent : answered'[p[1]] # {}
    <2>1. CASE u = [t EXCEPT !.outcome = outcome, !.commands = commands]
      <3>1. u.sent = t.sent /\ u.outcome = outcome
        BY <1>3, <2>1 DEF Snapshot
      <3> QED BY <1>5, <1>6, <1>7, <3>1
    <2> QED BY <1>5, <1>7, <2>1 DEF TaskEnds
  <1> QED BY <1>2, <1>4, <1>7, EvidentFrame DEF AnswersKept, vars, workerVars

LEMMA ReloadEvident ==
    ASSUME IInv, LInv, EInv, Reload
    PROVE  EInv'
  <1>1. /\ UNCHANGED <<up, mem, disk, pc, queue, verdict, transmitted, answered>>
        /\ snapshots' \subseteq snapshots
    BY DEF Reload, AbortWorkers
  <1> QED BY <1>1, EvidentFrame DEF AnswersKept

LEMMA CancelOneEvident ==
    ASSUME IInv, LInv, EInv, NEW r \in Requests, CancelOne(r), up' \in BOOLEAN
    PROVE  EInv'
  <1> DEFINE id == IdOf[r]
             after == Completed(mem, id, CancelVerdict(mem[id].state))
  <1>1. /\ up /\ Cancel(r) /\ UNCHANGED <<transmitted, answered>>
        /\ up' => snapshots' = snapshots
        /\ ~up' => LoopEnds
    BY DEF CancelOne, Cancel, snapshotVars
  <1>2. CASE mem[id].state # "absent" /\ SaveByLoop(after)
    <2>1. id \in Ids /\ mem \in Ledgers
      BY LedgerAssumption, LedgersReady
    <2>2. Faithful(mem, after, answered)
      BY <1>1, <1>2, <2>1, CanceledFaithful DEF EInv
    <2> HIDE DEF after
    <2> QED BY <1>1, <1>2, <2>2, LoopSavesEvident
  <1>3. CASE Halted /\ disk' = disk
    BY <1>1, <1>3, HaltedEvident DEF Halted, EInv
  <1> QED BY <1>1, <1>2, <1>3 DEF Cancel

LEMMA CollectSnapshotEvident ==
    ASSUME IInv, LInv, EInv, NEW t \in snapshots, CollectSnapshot(t), up' \in BOOLEAN
    PROVE  EInv'
  <1> USE DEF passVars, commandVars
  <1> DEFINE ids == {p[1] : p \in t.sent}
             after == Acknowledged(mem, ids, now)
  <1>1. CASE UNCHANGED vars /\ snapshots' = snapshots \ {t}
    BY <1>1, EvidentFrame DEF AnswersKept, vars, workerVars, CollectSnapshot
  <1>2. CASE /\ t.outcome = "ok" /\ Acknowledge(ids)
             /\ up' => snapshots' = snapshots \ {t}
             /\ ~up' => LoopEnds
    <2>1. up /\ UNCHANGED <<transmitted, answered>>
      BY <1>2 DEF Acknowledge, CollectSnapshot
    <2>2. t \in Snapshot
      BY DEF LInv, RuntimeTypeOK
    <2>3. ids \in SUBSET Ids
      BY <2>2 DEF Snapshot
    <2>4. \A id \in ids : answered[id] # {}
      BY <1>2 DEF EInv
    <2>5. Faithful(mem, after, answered)
      BY <2>1, <2>3, <2>4, LedgersReady, AcknowledgedFaithful DEF EInv
    <2> HIDE DEF ids, after
    <2>6. CASE SaveByLoop(after)
      BY <1>2, <2>1, <2>5, <2>6, LoopSavesEvident
    <2>7. CASE UNCHANGED <<up, mem, disk, workerVars>>
      BY <1>2, <2>1, <2>7, EvidentFrame DEF AnswersKept, workerVars
    <2>8. CASE Halted /\ disk' = disk
      BY <1>2, <2>1, <2>8, HaltedEvident DEF Halted, EInv
    <2> QED BY <1>2, <2>6, <2>7, <2>8 DEF Acknowledge, after
  <1> QED BY <1>1, <1>2 DEF CollectSnapshot

LEMMA CollectPanicEvident ==
    ASSUME IInv, LInv, EInv, NEW t \in snapshots, CollectPanic(t)
    PROVE  EInv'
  <1>1. UNCHANGED vars /\ answered' = answered /\ snapshots' \subseteq snapshots
    BY DEF CollectPanic, Finished
  <1> QED BY <1>1, EvidentFrame DEF AnswersKept, vars, workerVars

LEMMA SendSnapshotEvident ==
    ASSUME IInv, LInv, EInv, NEW cam \in Cameras, SendSnapshot(cam)
    PROVE  EInv'
  <1>1. UNCHANGED vars /\ answered' = answered
    BY DEF SendSnapshot
  <1>2. \A t \in snapshots' : t.outcome = "ok" => t \in snapshots
    BY DEF SendSnapshot
  <1> QED BY <1>1, <1>2, EvidentFrame DEF AnswersKept, vars, workerVars

LEMMA CollectWorkerEvident ==
    ASSUME IInv, LInv, EInv, NEW cam \in Cameras, CollectWorker(cam), up' \in BOOLEAN
    PROVE  EInv'
  <1>1. /\ Collect(cam) /\ UNCHANGED <<disk, transmitted, answered>>
        /\ ~up' => LoopEnds
    BY DEF CollectWorker, Collect
  <1>2. CASE Halted
    BY <1>1, <1>2, HaltedEvident DEF Halted, EInv
  <1>3. CASE ~Halted
    <2>1. UNCHANGED <<up, mem, verdict>>
      BY <1>1, <1>3 DEF Collect
    <2>2. up'
      BY <1>1, <2>1 DEF Collect
    <2>3. snapshots' = snapshots
      BY <2>2 DEF CollectWorker, loopVars, snapshotVars
    <2>4. \A other \in Cameras : pc'[other] \in Relying =>
                pc'[other] = pc[other] /\ queue'[other] = queue[other]
      BY <1>1, <1>3 DEF Collect, IInv, TypeOK, Relying
    <2> QED BY <1>1, <2>1, <2>3, <2>4, EvidentFrame DEF AnswersKept
  <1> QED BY <1>2, <1>3

LEMMA EnqueueEvident ==
    ASSUME IInv, LInv, EInv, EnqueueAndAdmit, up' \in BOOLEAN
    PROVE  EInv'
  <1> DEFINE after == Admitted(mem, Batch, now)
  <1>1. /\ answered' = answered
        /\ up' => snapshots' = snapshots
        /\ ~up' => LoopEnds
        /\ Halt \/ Admit(Batch)
    BY DEF EnqueueAndAdmit, snapshotVars, Halt, Halted
  <1>2. up /\ transmitted' = transmitted
    BY <1>1 DEF Halt, Admit
  <1>3. CASE Halted /\ disk' = disk
    BY <1>1, <1>2, <1>3, HaltedEvident DEF Halted, EInv
  <1>4. CASE SaveByLoop(after)
    <2>1. Batch \in SUBSET Requests
      BY DEF Batch, LInv, RuntimeTypeOK
    <2>2. Faithful(mem, after, answered)
      BY <1>2, <2>1, LedgersReady, AdmittedFaithful DEF EInv
    <2> HIDE DEF after
    <2> QED BY <1>1, <1>2, <1>4, <2>2, LoopSavesEvident
  <1>5. CASE mem' = Prune(mem, now) /\ UNCHANGED <<up, disk, workerVars>>
    <2>1. Faithful(mem, Prune(mem, now), answered)
      BY <1>2, PruneFaithful DEF EInv
    <2> QED BY <1>1, <1>2, <1>5, <2>1, LoopWritesEvident
  <1> QED BY <1>1, <1>3, <1>4, <1>5 DEF Halt, Admit

LEMMA LaunchOneEvident ==
    ASSUME IInv, LInv, EInv, NEW cam \in Cameras, LaunchOne(cam)
    PROVE  EInv'
  <1>1. /\ UNCHANGED <<up, mem, disk, verdict, transmitted, answered>>
        /\ snapshots' = snapshots
    BY DEF LaunchOne, Launch, snapshotVars
  <1>2. \A other \in Cameras : pc'[other] \in Relying =>
              pc'[other] = pc[other] /\ queue'[other] = queue[other]
    BY DEF LaunchOne, Launch, IInv, TypeOK, Relying
  <1> QED BY <1>1, <1>2, EvidentFrame DEF AnswersKept

-----------------------------------------------------------------------------
(***************************************************************************)
(* Steps of the workers.                                                   *)
(***************************************************************************)
\* One worker moves; what the others rely on is still there.
LEMMA WorkerEvidentFrame ==
    ASSUME IInv, EInv, up, NEW cam \in Cameras, UNCHANGED <<up, answered, snapshots>>,
           Evident(mem', transmitted', answered), Evident(disk', transmitted', answered),
           \A other \in Cameras \ {cam} :
                pc'[other] = pc[other] /\ queue'[other] = queue[other] /\ verdict'[other] = verdict[other],
           \A r \in Requests : CameraOf[r] # cam =>
                /\ transmitted'[r] = transmitted[r]
                /\ Spent(mem, r) /\ Spent(disk, r) => Spent(mem', r) /\ Spent(disk', r),
           WorkerEvident(cam)'
    PROVE  EInv'
  <1>1. ASSUME NEW other \in Cameras, other # cam PROVE WorkerEvident(other)'
    <2> DEFINE r == Current(other)
    <2>1. pc'[other] = pc[other] /\ verdict'[other] = verdict[other] /\ Current(other)' = r
      BY <1>1 DEF Current
    <2>2. WorkerEvident(other)
      BY DEF EInv
    <2>3. CASE pc[other] \in Relying
      <3>1. r \in Requests /\ CameraOf[r] = other
        BY <2>3, CurrentCommand DEF Relying, Engaged, Running
      <3>2. Heeded(Current(other))' = Heeded(r)
        BY <2>1 DEF Heeded
      <3>3. /\ transmitted'[r] = transmitted[r]
            /\ Spent(mem, r) /\ Spent(disk, r) => Spent(mem', r) /\ Spent(disk', r)
        BY <1>1, <3>1
      <3> HIDE DEF r
      <3>4. /\ pc[other] = "deadline" => transmitted[r] = 0 \/ Heeded(r)
            /\ pc[other] = "send" => Heeded(r) \/ (Spent(mem, r) /\ Spent(disk, r))
            /\ pc[other] = "complete" /\ verdict[other] \in Failed => transmitted[r] = 0 \/ Heeded(r)
        BY <2>2 DEF WorkerEvident, r
      <3> QED BY <2>1, <3>2, <3>3, <3>4 DEF WorkerEvident
    <2>4. CASE pc[other] \notin Relying
      BY <2>1, <2>4 DEF WorkerEvident, Relying
    <2> QED BY <2>3, <2>4
  <1>2. Evident(disk, transmitted, answered)' /\ Evident(mem, transmitted, answered)'
    OBVIOUS
  <1>3. \A t \in snapshots' : t.outcome = "ok" => \A p \in t.sent : answered'[p[1]] # {}
    BY DEF EInv
  <1> QED BY <1>1, <1>2, <1>3 DEF EInv

\* The ledgers and what was sent stay; only the worker moves.
LEMMA WorkerMovesEvident ==
    ASSUME IInv, EInv, up, NEW cam \in Cameras,
           UNCHANGED <<up, mem, disk, transmitted, answered, snapshots>>,
           \A other \in Cameras \ {cam} :
                pc'[other] = pc[other] /\ queue'[other] = queue[other] /\ verdict'[other] = verdict[other],
           WorkerEvident(cam)'
    PROVE  EInv'
  <1>1. Evident(mem', transmitted', answered) /\ Evident(disk', transmitted', answered)
    BY DEF EInv
  <1> QED BY <1>1, WorkerEvidentFrame

\* The worker writes to the ledger, in the record of its command only.
LEMMA WorkerWritesEvident ==
    ASSUME IInv, EInv, up, NEW cam \in Cameras, NEW id \in Ids, NEW v \in States,
           NEW r \in Requests, CameraOf[r] = cam, IdOf[r] = id,
           mem' = [mem EXCEPT ![id].state = v], disk' \in {disk, mem'},
           UNCHANGED <<up, transmitted, answered, snapshots>>,
           Evident(mem', transmitted, answered),
           \A other \in Cameras \ {cam} :
                pc'[other] = pc[other] /\ queue'[other] = queue[other] /\ verdict'[other] = verdict[other],
           WorkerEvident(cam)'
    PROVE  EInv'
  <1>1. \A other \in Ids : other # id => mem'[other] = mem[other]
    BY LedgersReady DEF Ledgers
  <1>2. ASSUME NEW s \in Requests, CameraOf[s] # cam
        PROVE  Spent(mem, s) => Spent(mem', s)
    <2>1. IdOf[s] \in Ids /\ IdOf[s] # id
      BY <1>2, LedgerAssumption
    <2> QED BY <1>1, <2>1 DEF Spent, Holds
  <1>3. Evident(mem', transmitted', answered) /\ Evident(disk', transmitted', answered)
    BY DEF EInv
  <1>4. \A s \in Requests : CameraOf[s] # cam =>
                /\ transmitted'[s] = transmitted[s]
                /\ Spent(mem, s) /\ Spent(disk, s) => Spent(mem', s) /\ Spent(disk', s)
    BY <1>2
  <1> QED BY <1>3, <1>4, WorkerEvidentFrame

LEMMA RestEvident ==
    ASSUME IInv, EInv, NEW cam \in Cameras, Finish(cam) \/ DropAborted(cam) \/ Answer(cam),
           UNCHANGED <<answered, snapshots>>
    PROVE  EInv'
  <1> USE DEF Step
  <1>1. up /\ UNCHANGED <<up, mem, disk, transmitted>>
    BY WorkerUp DEF Finish, DropAborted, Answer, Zombie, Running
  <1>2. \A other \in Cameras \ {cam} :
            pc'[other] = pc[other] /\ queue'[other] = queue[other] /\ verdict'[other] = verdict[other]
    BY DEF Finish, DropAborted, Answer, IInv, TypeOK
  <1>3. \/ pc'[cam] \in {"done", "idle"}
        \/ pc'[cam] = "complete" /\ verdict'[cam] \in {"succeeded", "unknown"}
    BY DEF Finish, DropAborted, Answer, IInv, TypeOK
  <1>4. WorkerEvident(cam)'
    BY <1>3 DEF WorkerEvident, Failed
  <1> QED BY <1>1, <1>2, <1>4, WorkerMovesEvident

LEMMA ReplayEvident ==
    ASSUME IInv, EInv, NEW cam \in Cameras, Replay(cam), UNCHANGED <<answered, snapshots>>
    PROVE  EInv'
  <1> DEFINE r == Current(cam)
  <1>1. up /\ UNCHANGED <<up, mem, disk, transmitted, verdict>>
    BY DEF Replay
  <1>2. \A other \in Cameras \ {cam} :
            pc'[other] = pc[other] /\ queue'[other] = queue[other] /\ verdict'[other] = verdict[other]
    BY DEF Replay, Return, IInv, TypeOK
  <1>3. \/ pc'[cam] \in {"failed", "replay"}
        \/ pc'[cam] = "deadline" /\ queue' = queue /\ Replayed(mem, r) = "fresh"
    BY DEF Replay, IInv, TypeOK
  <1>4. CASE pc'[cam] = "deadline" /\ queue' = queue /\ Replayed(mem, r) = "fresh"
    <2>1. r \in Requests
      BY TailOwned DEF Replay
    <2>2. mem[IdOf[r]].state = "queued"
      BY <1>4, <2>1, FreshIsQueued, LedgersReady
    <2>3. transmitted[r] \in Nat
      BY <2>1 DEF IInv, TypeOK
    <2>4. transmitted[r] = 0 \/ Heeded(r)
      BY <1>1, <2>1, <2>2, <2>3 DEF EInv, Evident, Spent, Heeded
    <2>5. Current(cam)' = r
      BY <1>4 DEF Current
    <2> HIDE DEF r
    <2>6. WorkerEvident(cam)'
      BY <1>1, <1>4, <2>4, <2>5 DEF WorkerEvident, Heeded
    <2> QED BY <1>1, <1>2, <2>6, WorkerMovesEvident
  <1>5. CASE pc'[cam] \in {"failed", "replay"}
    <2>1. WorkerEvident(cam)'
      BY <1>5 DEF WorkerEvident
    <2> QED BY <1>1, <1>2, <2>1, WorkerMovesEvident
  <1> QED BY <1>3, <1>4, <1>5

LEMMA CheckDeadlineEvident ==
    ASSUME IInv, EInv, NEW cam \in Cameras, CheckDeadline(cam), UNCHANGED <<answered, snapshots>>
    PROVE  EInv'
  <1>1. /\ up /\ UNCHANGED <<up, mem, disk, transmitted, queue>>
        /\ pc[cam] = "deadline" /\ pc'[cam] \in {"complete", "begin"}
    BY DEF CheckDeadline, Step, IInv, TypeOK
  <1>2. \A other \in Cameras \ {cam} :
            pc'[other] = pc[other] /\ queue'[other] = queue[other] /\ verdict'[other] = verdict[other]
    BY DEF CheckDeadline, Step, IInv, TypeOK
  <1>3. Current(cam)' = Current(cam) /\ Heeded(Current(cam))' = Heeded(Current(cam))
    BY <1>1 DEF Current, Heeded
  <1>4. transmitted[Current(cam)] = 0 \/ Heeded(Current(cam))
    BY <1>1 DEF EInv, WorkerEvident
  <1>5. WorkerEvident(cam)'
    BY <1>1, <1>3, <1>4 DEF WorkerEvident
  <1> QED BY <1>1, <1>2, <1>5, WorkerMovesEvident

LEMMA BeginEvident ==
    ASSUME IInv, EInv, NEW cam \in Cameras, Begin(cam), UNCHANGED <<answered, snapshots>>
    PROVE  EInv'
  <1> DEFINE r == Current(cam)
             id == IdOf[r]
  <1>1. up /\ UNCHANGED <<up, transmitted, queue, verdict>> /\ pc[cam] \in Engaged
    BY DEF Begin, Engaged, Running
  <1>2. /\ r \in Requests /\ id \in Ids /\ CameraOf[r] = cam /\ mem \in Ledgers
        /\ Bound(mem[id], r)
    BY <1>1, CurrentCommand
  <1>3. \A other \in Cameras \ {cam} :
            pc'[other] = pc[other] /\ queue'[other] = queue[other] /\ verdict'[other] = verdict[other]
    BY DEF Begin, IInv, TypeOK
  <1>4. CASE mem[id].state # "queued"
    <2>1. UNCHANGED <<mem, disk>> /\ pc'[cam] = "failed"
      BY <1>4 DEF Begin, IInv, TypeOK
    <2>2. WorkerEvident(cam)'
      BY <2>1 DEF WorkerEvident
    <2> QED BY <1>1, <1>3, <2>1, <2>2, WorkerMovesEvident
  <1>5. CASE mem[id].state = "queued"
    <2>1. /\ mem' = Begun(mem, id)
          /\ \/ pc'[cam] = "failed" /\ disk' \in {disk, mem'}
             \/ pc'[cam] = "send" /\ disk' = mem'
      BY <1>5 DEF Begin, IInv, TypeOK
    <2>2. Current(cam)' = r
      BY <1>1 DEF Current
    <2> HIDE DEF r
    <2>3. Evident(mem', transmitted, answered)
      <3>1. Evident(mem, transmitted, answered)
        BY <1>1 DEF EInv
      <3>2. Faithful(mem, Begun(mem, id), answered)
        BY <1>2, <1>5, <3>1, BegunFaithful
      <3> QED BY <2>1, <3>1, <3>2, FaithfulEvident
    <2>4. "pending" \in States /\ mem' = [mem EXCEPT ![id].state = "pending"]
      BY <2>1 DEF Begun, States
    <2>5. mem'[id] = [mem[id] EXCEPT !.state = "pending"] /\ mem[id] \in Record
      <3>1. mem[id] \in Record
        BY <1>2, LedgerRecords
      <3>2. mem[id].state # "absent"
        BY <1>5
      <3> HIDE DEF id
      <3> QED BY <1>2, <2>4, <3>1, <3>2, ChangedRecordIsLedger
    <2>6. mem'[id].state = "pending" /\ mem'[id].request = r
      BY <1>2, <1>5, <2>5 DEF Record, Bound
    <2>7. Spent(mem', r)
      BY <2>6 DEF Spent, Holds
    <2>8. WorkerEvident(cam)'
      BY <2>1, <2>2, <2>7 DEF WorkerEvident
    <2>9. disk' \in {disk, mem'}
      BY <2>1
    <2> HIDE DEF id
    <2>10. IdOf[r] = id
      BY DEF id
    <2> QED BY <1>1, <1>2, <1>3, <2>3, <2>4, <2>8, <2>9, <2>10, WorkerWritesEvident
  <1> QED BY <1>4, <1>5

LEMMA TransmitEvident ==
    ASSUME IInv, EInv, NEW cam \in Cameras, Transmit(cam), UNCHANGED <<answered, snapshots>>
    PROVE  EInv'
  <1> DEFINE r == Current(cam)
  <1>1. up /\ UNCHANGED <<up, mem, disk, queue>> /\ pc[cam] = "send" /\ pc[cam] \in Engaged
    BY DEF Transmit, Step, Engaged, Running
  <1>2. r \in Requests /\ CameraOf[r] = cam
    BY <1>1, CurrentCommand
  <1>3. \A other \in Cameras \ {cam} :
            pc'[other] = pc[other] /\ queue'[other] = queue[other] /\ verdict'[other] = verdict[other]
    BY DEF Transmit, Step, IInv, TypeOK
  <1>4. \/ pc'[cam] = "reply"
        \/ pc'[cam] = "complete" /\ verdict'[cam] = "unknown"
    BY DEF Transmit, Step, IInv, TypeOK
  <1>5. WorkerEvident(cam)'
    BY <1>4 DEF WorkerEvident, Failed
  <1>6. Heeded(r) \/ (Spent(mem, r) /\ Spent(disk, r))
    BY <1>1 DEF EInv, WorkerEvident
  <1> HIDE DEF r
  <1>7. \A s \in Requests : s # r => transmitted'[s] = transmitted[s]
    BY <1>2 DEF Transmit, r, IInv, TypeOK
  <1>8. Evident(mem', transmitted', answered) /\ Evident(disk', transmitted', answered)
    BY <1>1, <1>6, <1>7 DEF EInv, Evident, Heeded
  <1>9. \A s \in Requests : CameraOf[s] # cam =>
                /\ transmitted'[s] = transmitted[s]
                /\ Spent(mem, s) /\ Spent(disk, s) => Spent(mem', s) /\ Spent(disk', s)
    BY <1>1, <1>2, <1>7
  <1> QED BY <1>1, <1>3, <1>5, <1>8, <1>9, WorkerEvidentFrame

LEMMA CompleteEvident ==
    ASSUME IInv, EInv, NEW cam \in Cameras, Complete(cam), UNCHANGED <<answered, snapshots>>
    PROVE  EInv'
  <1> DEFINE r == Current(cam)
             id == IdOf[r]
             v == verdict[cam]
  <1>1. up /\ UNCHANGED <<up, transmitted>> /\ pc[cam] = "complete" /\ pc[cam] \in Engaged
    BY DEF Complete, Engaged, Running
  <1>2. /\ r \in Requests /\ id \in Ids /\ CameraOf[r] = cam /\ mem \in Ledgers
        /\ Bound(mem[id], r)
    BY <1>1, CurrentCommand
  <1>3. \A other \in Cameras \ {cam} :
            pc'[other] = pc[other] /\ queue'[other] = queue[other] /\ verdict'[other] = verdict[other]
    BY DEF Complete, Return, IInv, TypeOK
  <1>4. pc'[cam] \in {"replay", "failed"}
    BY DEF Complete, IInv, TypeOK
  <1>5. WorkerEvident(cam)'
    BY <1>4 DEF WorkerEvident
  <1>6. CASE mem[id].state = "absent"
    <2>1. UNCHANGED <<mem, disk>>
      BY <1>6 DEF Complete
    <2> QED BY <1>1, <1>3, <1>5, <2>1, WorkerMovesEvident
  <1>7. CASE mem[id].state # "absent"
    <2>1. mem' = Completed(mem, id, v) /\ disk' \in {disk, mem'}
      BY <1>7 DEF Complete
    <2>2. v \in Verdicts /\ transmitted[r] \in Nat /\ v \in States
      BY <1>2, VerdictsAreStates DEF IInv, TypeOK
    <2>3. v \in Failed => transmitted[r] = 0 \/ Heeded(r)
      BY <1>1 DEF EInv, WorkerEvident
    <2> HIDE DEF v, r
    <2>4. Evident(mem', transmitted, answered)
      BY <1>1, <1>2, <1>7, <2>1, <2>2, <2>3, WrittenEvident, SMTT(30) DEF EInv, Bound, Heeded
    <2>5. mem' = [mem EXCEPT ![id].state = v]
      BY <2>1 DEF Completed
    <2> HIDE DEF id
    <2>6. IdOf[r] = id
      BY DEF id
    <2> QED BY <1>1, <1>2, <1>3, <1>5, <2>1, <2>2, <2>4, <2>5, <2>6, WorkerWritesEvident, ZenonT(60)
  <1> QED BY <1>6, <1>7

LEMMA WorkEvident ==
    ASSUME IInv, EInv, NEW cam \in Cameras, Work(cam)
    PROVE  EInv'
  <1>1. UNCHANGED <<answered, snapshots>> /\ WorkerStep(cam)
    BY DEF Work, loopVars, snapshotVars
  <1> QED BY <1>1, RestEvident, ReplayEvident, CheckDeadlineEvident, BeginEvident, TransmitEvident,
             CompleteEvident DEF WorkerStep

-----------------------------------------------------------------------------
(***************************************************************************)
(* The theorem.                                                            *)
(***************************************************************************)
LEMMA EvidenceStays ==
    ASSUME IInv, LInv, EInv, [RuntimeNext]_runtimeVars
    PROVE  EInv'
  <1> USE DEF loopVars, snapshotVars
  <1>1. up' \in BOOLEAN
    BY UpOrDown
  <1>2. CASE AwaitConfig \/ UNCHANGED runtimeVars \/ Time \/ SnapshotsCollected
             \/ (\E cam \in Cameras : \E version \in Versions \cup {Unpaired} : EditConfig(cam, version))
    <2>1. UNCHANGED <<up, mem, disk, workerVars, transmitted, answered, snapshots>>
      BY <1>2 DEF AwaitConfig, runtimeVars, vars, Time, Tick, SnapshotsCollected, EditConfig, workerVars
    <2> QED BY <2>1, EvidentFrame DEF AnswersKept, workerVars
  <1>3. CASE Boot
    BY <1>3, BootEvident
  <1>4. CASE Kill \/ ReloadFails
    <2>1. Halted /\ LoopEnds /\ UNCHANGED <<disk, transmitted, answered>>
      BY <1>4 DEF Kill, ReloadFails, Halt
    <2> QED BY <2>1, HaltedEvident DEF EInv
  <1>5. CASE \E cam \in Cameras : Work(cam)
    BY <1>5, WorkEvident
  <1>6. CASE Network
    BY <1>6, NetworkEvident
  <1>7. CASE Reload
    BY <1>7, ReloadEvident
  <1>8. CASE \E r \in Requests : CancelOne(r)
    BY <1>1, <1>8, CancelOneEvident
  <1>9. CASE \E t \in snapshots : CollectSnapshot(t) \/ CollectPanic(t)
    BY <1>1, <1>9, CollectSnapshotEvident, CollectPanicEvident
  <1>10. CASE \E cam \in Cameras : SendSnapshot(cam)
    BY <1>10, SendSnapshotEvident
  <1>11. CASE \E cam \in Cameras : CollectWorker(cam)
    BY <1>1, <1>11, CollectWorkerEvident
  <1>12. CASE EnqueueAndAdmit
    BY <1>1, <1>12, EnqueueEvident
  <1>13. CASE \E cam \in Cameras : LaunchOne(cam)
    BY <1>13, LaunchOneEvident
  <1> QED BY <1>2, <1>3, <1>4, <1>5, <1>6, <1>7, <1>8, <1>9, <1>10, <1>11, <1>12, <1>13
          DEF RuntimeNext, Pass

LEMMA NothingSentYet == RuntimeInit => EInv
  <1> SUFFICES ASSUME RuntimeInit PROVE EInv
    OBVIOUS
  <1>1. \A r \in Requests : transmitted[r] = 0
    BY DEF RuntimeInit, Init
  <1>2. disk = EmptyLedger /\ ~up /\ snapshots = {} /\ \A cam \in Cameras : pc[cam] = "idle"
    BY DEF RuntimeInit, Init
  <1>3. \A id \in Ids : disk[id].acked = FALSE
    BY <1>2 DEF EmptyLedger, NoRecord
  <1> QED BY <1>1, <1>2, <1>3 DEF EInv, Evident, WorkerEvident

\* What was sent to a camera stays on disk as possibly executed until the Server
\* has received a result for it: through crashes and failed writes, aborts, lost
\* and late responses, redelivery, panics and edits of the configuration, and
\* however long it takes (begin, acknowledge, prune, open, cancel and complete of
\* the ledger, and the order in which run calls them).
THEOREM EvidenceOutlives == RuntimeSpec => []EvidenceKept
  <1>1. IInv /\ LInv /\ EInv /\ [RuntimeNext]_runtimeVars => EInv'
    BY EvidenceStays
  <1>2. EInv => EvidenceKept
    BY DEF EInv, Evident, EvidenceKept
  <1> QED BY <1>1, <1>2, NothingSentYet, LoopInvariant, PTL DEF RuntimeSpec
-----------------------------------------------------------------------------
(***************************************************************************)
(* What the Server is told.  The property speaks of command ids, so two    *)
(* requests must not share one (they are UUIDs), and of a Server that does *)
(* not send a command again once it has a result for it: a command that    *)
(* was executed, answered, acknowledged and pruned would be refused as     *)
(* expired if it came again.                                               *)
(***************************************************************************)
OnceNamed == \A r, s \in Requests : IdOf[r] = IdOf[s] => r = s

\* The ledger holds r, and does not count it as possibly executed.
Unsent(ledger, r) == Holds(ledger, r) /\ ~Spent(ledger, r)
Queued(ledger, r) == Holds(ledger, r) /\ ledger[IdOf[r]].state = "queued"

Honest(ledger, sent) == \A r \in Requests : Unsent(ledger, r) => sent[r] = 0

\* A worker before and after the moment at which its command may have left.
Before(cam) == pc[cam] \in {"deadline", "begin"} \/ (pc[cam] = "complete" /\ verdict[cam] \in Failed)
After(cam) == pc[cam] \in {"send", "reply"} \/ (pc[cam] = "complete" /\ verdict[cam] \notin Failed)

WorkerHonest(cam) ==
    /\ Before(cam) => transmitted[Current(cam)] = 0
    /\ After(cam) => ~Unsent(mem, Current(cam)) /\ ~Unsent(disk, Current(cam))

Mirrors(ledger, file) == \A r \in Requests : Holds(ledger, r) => Holds(file, r)

(***************************************************************************)
(* First part of the inductive invariant: no ledger counts as not executed *)
(* what was sent, whatever the time.                                       *)
(***************************************************************************)
HInv ==
    /\ Honest(disk, transmitted)
    /\ up => Honest(mem, transmitted) /\ Mirrors(mem, disk)
    /\ \A cam \in Cameras : WorkerHonest(cam)

(***************************************************************************)
(* Second part: a command that is on its way into the ledger has not been  *)
(* sent, or its record is still there and will stay.                       *)
(***************************************************************************)
Kept(ledger, r) == Holds(ledger, r) /\ ~ledger[IdOf[r]].acked

Supplied(r) ==
    \/ \E i \in DOMAIN incoming : incoming[i] = r
    \/ \E t \in snapshots : /\ t.outcome = "ok" /\ Fits(t)
                            /\ \E i \in DOMAIN t.commands : t.commands[i] = r

\* A response does not bring a command whose result its request carried.
TaskFresh(t) ==
    /\ \A p \in t.sent : p[1] \in IdsOf(t.camera)
    /\ t.outcome = "ok" => \A i \in DOMAIN t.commands : \A p \in t.sent : p[1] # IdOf[t.commands[i]]

SInv ==
    /\ up => \A r \in Requests : Supplied(r) => transmitted[r] = 0 \/ Kept(mem, r)
    /\ \A t \in snapshots : TaskFresh(t)

(***************************************************************************)
(* Third part: what was, or will be, reported as not executed is blocked.  *)
(***************************************************************************)
\* One of the verdicts V is on its way from a worker to the Server.
Reported(id, V) ==
    \/ results[id] \in V
    \/ completed[id].verdict \in V
    \/ \E cam \in Cameras : \E x \in returned[cam] : IdOf[x.request] = id /\ x.verdict \in V
    \/ \E t \in snapshots : \E v \in V : <<id, v>> \in t.sent

Told(id) == Reported(id, Failed) \/ answered[id] \cap Failed # {}

WorkerBarred(cam, r) ==
    pc[cam] \in Engaged /\ Current(cam) = r =>
        /\ ~After(cam)
        /\ pc[cam] = "begin" => aborted[cam] /\ ~Queued(mem, r)

Blocked(r) ==
    /\ transmitted[r] = 0
    /\ Lapsed(r) \/ (Unsent(disk, r) /\ (up => Refused(mem, r)))
    /\ \A cam \in Cameras : WorkerBarred(cam, r)

BInv == \A r \in Requests : Told(IdOf[r]) => Blocked(r)

-----------------------------------------------------------------------------
(***************************************************************************)
(* Operations of the ledger, once more.                                    *)
(***************************************************************************)
\* Nothing comes to be counted as not executed.
Calm(old, new) ==
    \A r \in Requests : /\ Unsent(new, r) => Unsent(old, r)
                        /\ Queued(new, r) => Queued(old, r)

\* What is not acknowledged stays, but for the commands of ids.
Retains(old, new, ids) == \A r \in Requests : Kept(old, r) /\ IdOf[r] \notin ids => Kept(new, r)

LEMMA UnsentStates ==
    ASSUME NEW ledger \in Ledgers, NEW r \in Requests
    PROVE  Unsent(ledger, r) <=> Holds(ledger, r) /\ ledger[IdOf[r]].state \in Failed \cup {"queued"}
  <1>1. ledger[IdOf[r]].state \in States
    BY LedgerAssumption, LedgerRecords
  <1> QED BY <1>1 DEF Unsent, Spent, Holds, States, Verdicts, Failed

LEMMA CalmHonest ==
    ASSUME NEW old, NEW new, NEW sent, Honest(old, sent), Calm(old, new)
    PROVE  Honest(new, sent)
  BY DEF Honest, Calm

LEMMA CalmTransitive ==
    ASSUME NEW old, NEW middle, NEW new, Calm(old, middle), Calm(middle, new)
    PROVE  Calm(old, new)
  BY DEF Calm

LEMMA PruneCalm ==
    ASSUME NEW ledger, NEW t
    PROVE  /\ Calm(ledger, Prune(ledger, t))
           /\ Retains(ledger, Prune(ledger, t), {})
           /\ Mirrors(Prune(ledger, t), ledger)
  <1>1. ASSUME NEW r \in Requests
        PROVE  \/ Prune(ledger, t)[IdOf[r]] = ledger[IdOf[r]]
               \/ Prune(ledger, t)[IdOf[r]].state = "absent" /\ ledger[IdOf[r]].acked
    <2>1. IdOf[r] \in Ids
      BY LedgerAssumption
    <2> QED BY <2>1 DEF Prune, Prunable, NoRecord
  <1> QED BY <1>1 DEF Calm, Retains, Mirrors, Kept, Unsent, Queued, Spent, Holds

\* A record takes another state.
LEMMA ChangedCalm ==
    ASSUME NEW ledger \in Ledgers, NEW id \in Ids, NEW v \in States,
           ledger[id].state # "absent", v # "absent", v # "queued",
           v \in Failed => ledger[id].state \in Failed \cup {"queued"}
    PROVE  Calm(ledger, [ledger EXCEPT ![id].state = v])
  <1> DEFINE after == [ledger EXCEPT ![id].state = v]
  <1>1. /\ after \in Ledgers
        /\ after[id] = [ledger[id] EXCEPT !.state = v]
        /\ \A other \in Ids : other # id => after[other] = ledger[other]
    BY ChangedRecordIsLedger
  <1>2. ledger[id] \in Record
    BY LedgerRecords
  <1> HIDE DEF after
  <1>3. after[id].request = ledger[id].request /\ after[id].state = v
    BY <1>1, <1>2 DEF Record
  <1>4. ASSUME NEW r \in Requests
        PROVE  (Unsent(after, r) => Unsent(ledger, r)) /\ (Queued(after, r) => Queued(ledger, r))
    <2>1. IdOf[r] \in Ids
      BY LedgerAssumption
    <2>2. CASE IdOf[r] # id
      BY <1>1, <2>1, <2>2 DEF Unsent, Queued, Spent, Holds
    <2>3. CASE IdOf[r] = id
      <3>1. /\ Unsent(ledger, r) <=> Holds(ledger, r) /\ ledger[id].state \in Failed \cup {"queued"}
            /\ Unsent(after, r) <=> Holds(after, r) /\ v \in Failed \cup {"queued"}
        BY <1>1, <1>3, <2>3, UnsentStates
      <3>2. Holds(after, r) => Holds(ledger, r)
        BY <1>3, <2>3 DEF Holds
      <3> QED BY <1>3, <2>3, <3>1, <3>2 DEF Queued
    <2> QED BY <2>2, <2>3
  <1> QED BY <1>4 DEF Calm, after

LEMMA ChangedRetains ==
    ASSUME NEW ledger \in Ledgers, NEW id \in Ids, NEW v \in States,
           ledger[id].state # "absent", v # "absent"
    PROVE  /\ Retains(ledger, [ledger EXCEPT ![id].state = v], {})
           /\ Mirrors([ledger EXCEPT ![id].state = v], ledger)
           /\ Mirrors(ledger, [ledger EXCEPT ![id].state = v])
  <1> DEFINE after == [ledger EXCEPT ![id].state = v]
  <1>1. /\ after \in Ledgers
        /\ after[id] = [ledger[id] EXCEPT !.state = v]
        /\ \A other \in Ids : other # id => after[other] = ledger[other]
    BY ChangedRecordIsLedger
  <1>2. ledger[id] \in Record
    BY LedgerRecords
  <1> HIDE DEF after
  <1>3. /\ after[id].request = ledger[id].request /\ after[id].acked = ledger[id].acked
        /\ after[id].state = v
    BY <1>1, <1>2 DEF Record
  <1>4. ASSUME NEW r \in Requests
        PROVE  /\ Holds(after, r) <=> Holds(ledger, r)
               /\ after[IdOf[r]].acked = ledger[IdOf[r]].acked
    <2>1. IdOf[r] \in Ids
      BY LedgerAssumption
    <2> QED BY <1>1, <1>3, <2>1 DEF Holds
  <1> QED BY <1>4 DEF Retains, Mirrors, Kept, after

LEMMA RecoverCalm ==
    ASSUME NEW ledger \in Ledgers
    PROVE  /\ Calm(ledger, Recover(ledger))
           /\ \A r \in Requests : Unsent(ledger, r) => Refused(Recover(ledger), r)
  <1>1. ASSUME NEW r \in Requests
        PROVE  /\ Recover(ledger)[IdOf[r]].request = ledger[IdOf[r]].request
               /\ Recover(ledger)[IdOf[r]].state =
                    IF ledger[IdOf[r]].state = "queued" THEN "device_unavailable"
                    ELSE IF ledger[IdOf[r]].state = "pending" THEN "unknown"
                    ELSE ledger[IdOf[r]].state
    <2>1. IdOf[r] \in Ids /\ ledger[IdOf[r]] \in Record
      BY LedgerAssumption, LedgerRecords
    <2>2. Recover(ledger)[IdOf[r]] =
             IF ledger[IdOf[r]].state = "queued" THEN [ledger[IdOf[r]] EXCEPT !.state = "device_unavailable"]
             ELSE IF ledger[IdOf[r]].state = "pending" THEN [ledger[IdOf[r]] EXCEPT !.state = "unknown"]
             ELSE ledger[IdOf[r]]
      BY <2>1 DEF Recover
    <2> QED BY <2>1, <2>2 DEF Record
  <1>2. ASSUME NEW r \in Requests
        PROVE  /\ Unsent(Recover(ledger), r) => Unsent(ledger, r)
               /\ Queued(Recover(ledger), r) => Queued(ledger, r)
    BY <1>1 DEF Unsent, Queued, Spent, Holds
  <1>3. ASSUME NEW r \in Requests, Unsent(ledger, r) PROVE Refused(Recover(ledger), r)
    <2>1. Holds(ledger, r) /\ ledger[IdOf[r]].state \in Failed \cup {"queued"}
      BY <1>3, UnsentStates
    <2> QED BY <1>1, <2>1 DEF Refused, Holds, Failed
  <1> QED BY <1>2, <1>3 DEF Calm

LEMMA OpenedCalm ==
    ASSUME NEW ledger \in Ledgers, NEW t \in Nat
    PROVE  /\ Calm(ledger, Opened(ledger, t))
           /\ \A r \in Requests : Unsent(ledger, r) => DedupUntil(r) <= t \/ Refused(Opened(ledger, t), r)
  <1>1. Calm(ledger, Opened(ledger, t))
    BY RecoverCalm, PruneCalm, CalmTransitive DEF Opened
  <1>2. Keeps(Recover(ledger), Opened(ledger, t), t)
    BY PruneKeepsDecisions DEF Opened
  <1> QED BY <1>1, <1>2, RecoverCalm DEF Keeps

LEMMA AcknowledgedCalm ==
    ASSUME NEW ledger \in Ledgers, NEW t, NEW ids \in SUBSET Ids
    PROVE  /\ Calm(ledger, Acknowledged(ledger, ids, t))
           /\ Retains(ledger, Acknowledged(ledger, ids, t), ids)
  <1> DEFINE marked == [id \in Ids |-> IF id \in ids \cap Present(ledger)
                                       THEN [ledger[id] EXCEPT !.acked = TRUE]
                                       ELSE ledger[id]]
  <1>1. ASSUME NEW id \in Ids
        PROVE  /\ marked[id].request = ledger[id].request
               /\ marked[id].state = ledger[id].state
               /\ id \notin ids => marked[id].acked = ledger[id].acked
    <2>1. ledger[id] \in Record
      BY LedgerRecords
    <2> QED BY <2>1 DEF Record
  <1>2. Acknowledged(ledger, ids, t) = Prune(marked, t)
    BY DEF Acknowledged
  <1> HIDE DEF marked
  <1>3. \A r \in Requests : IdOf[r] \in Ids
    BY LedgerAssumption
  <1>4. Calm(ledger, marked) /\ Retains(ledger, marked, ids)
    BY <1>1, <1>3 DEF Calm, Retains, Kept, Unsent, Queued, Spent, Holds
  <1>5. Calm(marked, Prune(marked, t)) /\ Retains(marked, Prune(marked, t), {})
    BY PruneCalm
  <1>6. Calm(ledger, Prune(marked, t))
    BY <1>4, <1>5, CalmTransitive
  <1> QED BY <1>2, <1>4, <1>5, <1>6 DEF Retains

LEMMA AdmittedCalm ==
    ASSUME NEW ledger \in Ledgers, NEW t, NEW batch \in SUBSET Requests
    PROVE  /\ \A r \in Requests \ Additions(ledger, batch, t) :
                    /\ Unsent(Admitted(ledger, batch, t), r) => Unsent(ledger, r)
                    /\ Queued(Admitted(ledger, batch, t), r) => Queued(ledger, r)
           /\ Retains(ledger, Admitted(ledger, batch, t), {})
           /\ \A r \in Additions(ledger, batch, t) : ~Kept(ledger, r)
  <1> DEFINE pruned == Prune(ledger, t)
             after == Admitted(ledger, batch, t)
             news == Additions(ledger, batch, t)
  <1>1. ASSUME NEW r \in Requests
        PROVE  \/ after[IdOf[r]] = pruned[IdOf[r]]
               \/ /\ pruned[IdOf[r]].state = "absent"
                  /\ after[IdOf[r]].request \in news
    <2>1. IdOf[r] \in Ids
      BY LedgerAssumption
    <2>2. CASE \E s \in news : IdOf[s] = IdOf[r]
      <3> DEFINE s == CHOOSE s \in news : IdOf[s] = IdOf[r]
      <3>1. s \in news /\ IdOf[s] = IdOf[r]
        BY <2>2
      <3>2. after[IdOf[r]].request = s
        BY <2>1, <2>2 DEF Admitted
      <3>3. pruned[IdOf[s]].state = "absent"
        BY <3>1 DEF Additions
      <3> QED BY <3>1, <3>2, <3>3
    <2>3. CASE ~\E s \in news : IdOf[s] = IdOf[r]
      BY <2>1, <2>3 DEF Admitted
    <2> QED BY <2>2, <2>3
  <1>2. \A r \in news : pruned[IdOf[r]].state = "absent" /\ r \in Requests
    BY DEF Additions
  <1>3. Calm(ledger, pruned) /\ Retains(ledger, pruned, {})
    BY PruneCalm
  <1> HIDE DEF pruned, after, news
  <1>4. \A r \in Requests \ news : /\ Unsent(after, r) => Unsent(pruned, r)
                                   /\ Queued(after, r) => Queued(pruned, r)
    BY <1>1 DEF Unsent, Queued, Spent, Holds
  <1>5. \A r \in Requests : Kept(pruned, r) => Kept(after, r)
    BY <1>1 DEF Kept, Holds
  <1>6. \A r \in news : ~Kept(ledger, r)
    BY <1>2, <1>3 DEF Retains, Kept, Holds
  <1>7. \A r \in Requests \ news : /\ Unsent(after, r) => Unsent(ledger, r)
                                   /\ Queued(after, r) => Queued(ledger, r)
    BY <1>3, <1>4 DEF Calm
  <1>8. Retains(ledger, after, {})
    BY <1>3, <1>5 DEF Retains
  <1> QED BY <1>6, <1>7, <1>8 DEF after, news

-----------------------------------------------------------------------------
(***************************************************************************)
(* First part: steps of the loop and of the environment.                   *)
(***************************************************************************)
LEMMA HonestFrame ==
    ASSUME HInv, UNCHANGED <<up, mem, disk, transmitted>>,
           \A cam \in Cameras : pc'[cam] \in Engaged =>
                pc'[cam] = pc[cam] /\ queue'[cam] = queue[cam] /\ verdict'[cam] = verdict[cam]
    PROVE  HInv'
  <1>1. ASSUME NEW cam \in Cameras PROVE WorkerHonest(cam)'
    <2>1. CASE pc'[cam] \in Engaged
      <3>1. pc'[cam] = pc[cam] /\ verdict'[cam] = verdict[cam] /\ Current(cam)' = Current(cam)
        BY <2>1 DEF Current
      <3>2. WorkerHonest(cam)
        BY DEF HInv
      <3> QED BY <3>1, <3>2 DEF WorkerHonest, Before, After
    <2>2. CASE pc'[cam] \notin Engaged
      BY <2>2 DEF WorkerHonest, Before, After, Engaged, Running
    <2> QED BY <2>1, <2>2
  <1>2. Honest(disk', transmitted') /\ (up' => Honest(mem', transmitted') /\ Mirrors(mem', disk'))
    BY DEF HInv
  <1> QED BY <1>1, <1>2 DEF HInv

LEMMA HaltedHonest ==
    ASSUME Halted, transmitted' = transmitted, Honest(disk', transmitted)
    PROVE  HInv'
  <1>1. ~up' /\ \A cam \in Cameras : pc'[cam] = "idle"
    BY DEF Halted
  <1> QED BY <1>1 DEF HInv, WorkerHonest, Before, After

\* The loop changes the ledger; no worker moves.
LEMMA LoopWritesHonest ==
    ASSUME IInv, HInv, up, up', NEW ledger, Honest(ledger, transmitted),
           \A cam \in Cameras : After(cam) /\ Unsent(ledger, Current(cam)) => Unsent(mem, Current(cam)),
           mem' = ledger, disk' \in {disk, ledger}, Mirrors(ledger, disk'),
           UNCHANGED <<workerVars, transmitted>>
    PROVE  HInv'
  <1>1. ASSUME NEW cam \in Cameras PROVE WorkerHonest(cam)'
    <2>1. pc'[cam] = pc[cam] /\ verdict'[cam] = verdict[cam] /\ Current(cam)' = Current(cam)
      BY DEF Current, workerVars
    <2>2. WorkerHonest(cam)
      BY DEF HInv
    <2>3. After(cam)' <=> After(cam)
      BY <2>1 DEF After
    <2>4. Before(cam)' <=> Before(cam)
      BY <2>1 DEF Before
    <2>5. After(cam) => ~Unsent(mem', Current(cam)) /\ ~Unsent(disk', Current(cam))
      BY <2>2 DEF WorkerHonest
    <2> QED BY <2>1, <2>2, <2>3, <2>4, <2>5 DEF WorkerHonest
  <1>2. Honest(disk', transmitted') /\ Honest(mem', transmitted') /\ Mirrors(mem', disk')
    BY DEF HInv
  <1> QED BY <1>1, <1>2 DEF HInv

LEMMA LoopSavesHonest ==
    ASSUME IInv, HInv, up, NEW ledger, Honest(ledger, transmitted),
           \A cam \in Cameras : After(cam) /\ Unsent(ledger, Current(cam)) => Unsent(mem, Current(cam)),
           SaveByLoop(ledger), transmitted' = transmitted
    PROVE  HInv'
  <1>1. CASE Saved(ledger)
    <2>1. Mirrors(ledger, ledger)
      BY DEF Mirrors
    <2> QED BY <1>1, <2>1, LoopWritesHonest DEF Saved
  <1>2. CASE SaveFails(ledger)
    BY <1>2, HaltedHonest DEF SaveFails, HInv
  <1> QED BY <1>1, <1>2 DEF SaveByLoop

\* A command is current only while its worker goes on, and then it is one.
LEMMA AfterEngaged ==
    ASSUME IInv, NEW cam \in Cameras, After(cam) \/ Before(cam)
    PROVE  /\ pc[cam] \in Engaged /\ Current(cam) \in Requests /\ IdOf[Current(cam)] \in Ids
           /\ CameraOf[Current(cam)] = cam
           /\ Bound(mem[IdOf[Current(cam)]], Current(cam))
           /\ ~aborted[cam] => Unsettled(mem[IdOf[Current(cam)]])
  <1>1. pc[cam] \in Engaged
    BY DEF After, Before, Engaged, Running
  <1> QED BY <1>1, CurrentCommand

LEMMA CalmCurrent ==
    ASSUME IInv, NEW ledger, Calm(mem, ledger)
    PROVE  \A cam \in Cameras : After(cam) /\ Unsent(ledger, Current(cam)) => Unsent(mem, Current(cam))
  BY AfterEngaged DEF Calm

LEMMA BootHonest ==
    ASSUME IInv, HInv, Boot
    PROVE  HInv'
  <1> DEFINE opened == Opened(disk, now)
  <1>1. ~up /\ Open /\ transmitted' = transmitted
    BY DEF Boot, Open
  <1>2. Honest(opened, transmitted)
    BY OpenedCalm, CalmHonest, LedgersReady DEF HInv
  <1> HIDE DEF opened
  <1>3. disk' \in {disk, opened} /\ (up' => mem' = opened /\ disk' = opened)
    BY <1>1 DEF Open, SaveFails, Halted, opened
  <1>4. \A cam \in Cameras : pc'[cam] = "idle"
    BY <1>1 DEF Open, SaveFails, Halted, workerVars, IInv
  <1>5. \A cam \in Cameras : WorkerHonest(cam)'
    BY <1>4 DEF WorkerHonest, Before, After
  <1>6. Honest(disk', transmitted') /\ (up' => Honest(mem', transmitted') /\ Mirrors(mem', disk'))
    BY <1>1, <1>2, <1>3 DEF HInv, Mirrors
  <1> QED BY <1>5, <1>6 DEF HInv

\* What cancellation writes.
LEMMA CanceledCalm ==
    ASSUME NEW ledger \in Ledgers, NEW id \in Ids, ledger[id].state # "absent"
    PROVE  Calm(ledger, Completed(ledger, id, CancelVerdict(ledger[id].state)))
  <1> DEFINE state == ledger[id].state
             v == CancelVerdict(state)
  <1>1. state \in States
    BY LedgerRecords
  <1>2. v \in States /\ v # "absent" /\ v # "queued" /\ (v \in Failed => state \in Failed \cup {"queued"})
    BY <1>1 DEF CancelVerdict, States, Verdicts, Failed
  <1> QED BY <1>2, ChangedCalm DEF Completed

LEMMA CancelOneHonest ==
    ASSUME IInv, HInv, NEW r \in Requests, CancelOne(r)
    PROVE  HInv'
  <1> DEFINE id == IdOf[r]
             after == Completed(mem, id, CancelVerdict(mem[id].state))
  <1>1. up /\ Cancel(r) /\ transmitted' = transmitted
    BY DEF CancelOne, Cancel
  <1>2. CASE mem[id].state # "absent" /\ SaveByLoop(after)
    <2>1. Calm(mem, after)
      BY <1>2, CanceledCalm, LedgerAssumption, LedgersReady
    <2> HIDE DEF after
    <2>2. Honest(after, transmitted)
      BY <1>1, <2>1, CalmHonest DEF HInv
    <2> QED BY <1>1, <1>2, <2>1, <2>2, CalmCurrent, LoopSavesHonest
  <1>3. CASE Halted /\ disk' = disk
    BY <1>1, <1>3, HaltedHonest DEF HInv
  <1> QED BY <1>1, <1>2, <1>3 DEF Cancel

LEMMA CollectSnapshotHonest ==
    ASSUME IInv, LInv, HInv, NEW t \in snapshots, CollectSnapshot(t)
    PROVE  HInv'
  <1> DEFINE ids == {p[1] : p \in t.sent}
             after == Acknowledged(mem, ids, now)
  <1>1. CASE UNCHANGED vars
    BY <1>1, HonestFrame DEF vars, workerVars
  <1>2. CASE Acknowledge(ids)
    <2>1. up /\ transmitted' = transmitted
      BY <1>2 DEF Acknowledge
    <2>2. t \in Snapshot
      BY DEF LInv, RuntimeTypeOK
    <2>3. ids \in SUBSET Ids
      BY <2>2 DEF Snapshot
    <2>4. Calm(mem, after)
      BY <2>3, LedgersReady, AcknowledgedCalm
    <2> HIDE DEF ids, after
    <2>5. CASE SaveByLoop(after)
      <3>1. Honest(after, transmitted)
        BY <2>1, <2>4, CalmHonest DEF HInv
      <3> QED BY <2>1, <2>4, <2>5, <3>1, CalmCurrent, LoopSavesHonest
    <2>6. CASE UNCHANGED <<up, mem, disk, workerVars>>
      BY <2>1, <2>6, HonestFrame DEF workerVars
    <2>7. CASE Halted /\ disk' = disk
      BY <2>1, <2>7, HaltedHonest DEF HInv
    <2> QED BY <1>2, <2>5, <2>6, <2>7 DEF Acknowledge, after
  <1> QED BY <1>1, <1>2 DEF CollectSnapshot

\* What is admitted was not sent, and no worker is past it.
LEMMA EnqueueHonest ==
    ASSUME IInv, LInv, HInv, SInv, EnqueueAndAdmit
    PROVE  HInv'
  <1> DEFINE after == Admitted(mem, Batch, now)
             news == Additions(mem, Batch, now)
  <1>1. (Halt \/ Admit(Batch)) /\ up /\ transmitted' = transmitted
    BY DEF EnqueueAndAdmit, Halt, Admit
  <1>2. CASE Halted /\ disk' = disk
    BY <1>1, <1>2, HaltedHonest DEF HInv
  <1>3. CASE SaveByLoop(after) /\ Admit(Batch)
    <2>1. Batch \in SUBSET Requests
      BY DEF Batch, LInv, RuntimeTypeOK
    <2>2. /\ \A r \in Requests \ news : Unsent(after, r) => Unsent(mem, r)
          /\ \A r \in news : ~Kept(mem, r)
      BY <2>1, LedgersReady, AdmittedCalm
    <2>3. \A r \in news : r \in Batch
      BY DEF Additions
    <2> HIDE DEF after, news
    <2>4. ASSUME NEW r \in news PROVE transmitted[r] = 0
      <3>1. Supplied(r) /\ r \in Requests
        BY <2>1, <2>3, <2>4 DEF Batch, Supplied
      <3> QED BY <1>1, <2>2, <2>4, <3>1 DEF SInv
    <2>5. Honest(after, transmitted)
      BY <1>1, <2>2, <2>4 DEF HInv, Honest
    <2>6. ASSUME NEW cam \in Cameras, After(cam), Unsent(after, Current(cam))
          PROVE  Unsent(mem, Current(cam))
      <3> DEFINE r == Current(cam)
      <3>1. r \in Requests /\ CameraOf[r] = cam /\ Bound(mem[IdOf[r]], r)
            /\ (~aborted[cam] => Unsettled(mem[IdOf[r]]))
        BY <2>6, AfterEngaged
      <3> HIDE DEF r
      <3>2. CASE r \in news
        <4>1. ~aborted[cam]
          BY <1>3, <2>3, <3>1, <3>2 DEF Admit
        <4>2. Kept(mem, r)
          BY <3>1, <4>1 DEF Unsettled, Bound, Kept, Holds
        <4> QED BY <2>2, <3>2, <4>2
      <3> QED BY <2>2, <2>6, <3>1, <3>2 DEF r
    <2> QED BY <1>1, <1>3, <2>5, <2>6, LoopSavesHonest
  <1>4. CASE mem' = Prune(mem, now) /\ UNCHANGED <<up, disk, workerVars>>
    <2>1. Calm(mem, Prune(mem, now)) /\ Mirrors(Prune(mem, now), mem)
      BY PruneCalm
    <2>2. Honest(Prune(mem, now), transmitted) /\ Mirrors(Prune(mem, now), disk)
      BY <1>1, <2>1, CalmHonest DEF HInv, Mirrors
    <2> QED BY <1>1, <1>4, <2>1, <2>2, CalmCurrent, LoopWritesHonest
  <1> QED BY <1>1, <1>2, <1>3, <1>4 DEF Halt, Admit

LEMMA CollectWorkerHonest ==
    ASSUME IInv, HInv, NEW cam \in Cameras, CollectWorker(cam)
    PROVE  HInv'
  <1>1. Collect(cam) /\ UNCHANGED <<disk, transmitted>>
    BY DEF CollectWorker, Collect
  <1>2. CASE Halted
    BY <1>1, <1>2, HaltedHonest DEF HInv
  <1>3. CASE ~Halted
    <2>1. UNCHANGED <<up, mem, verdict>>
      BY <1>1, <1>3 DEF Collect
    <2>2. \A other \in Cameras : pc'[other] \in Engaged =>
                pc'[other] = pc[other] /\ queue'[other] = queue[other]
      BY <1>1, <1>3 DEF Collect, IInv, TypeOK, Engaged, Running
    <2> QED BY <1>1, <2>1, <2>2, HonestFrame
  <1> QED BY <1>2, <1>3

LEMMA LaunchOneHonest ==
    ASSUME IInv, HInv, NEW cam \in Cameras, LaunchOne(cam)
    PROVE  HInv'
  <1>1. UNCHANGED <<up, mem, disk, verdict, transmitted>>
    BY DEF LaunchOne, Launch
  <1>2. \A other \in Cameras : pc'[other] \in Engaged =>
              pc'[other] = pc[other] /\ queue'[other] = queue[other]
    BY DEF LaunchOne, Launch, IInv, TypeOK, Engaged, Running
  <1> QED BY <1>1, <1>2, HonestFrame

-----------------------------------------------------------------------------
(***************************************************************************)
(* First part: steps of the workers.                                       *)
(***************************************************************************)
LEMMA WorkerHonestFrame ==
    ASSUME IInv, HInv, up, NEW cam \in Cameras, up' = up,
           Honest(mem', transmitted'), Honest(disk', transmitted'), Mirrors(mem', disk'),
           \A other \in Cameras \ {cam} :
                pc'[other] = pc[other] /\ queue'[other] = queue[other] /\ verdict'[other] = verdict[other],
           \A r \in Requests : CameraOf[r] # cam =>
                /\ transmitted'[r] = transmitted[r]
                /\ Unsent(mem', r) => Unsent(mem, r)
                /\ Unsent(disk', r) => Unsent(disk, r) \/ Unsent(mem, r),
           WorkerHonest(cam)'
    PROVE  HInv'
  <1>1. ASSUME NEW other \in Cameras, other # cam PROVE WorkerHonest(other)'
    <2> DEFINE r == Current(other)
    <2>1. pc'[other] = pc[other] /\ verdict'[other] = verdict[other] /\ Current(other)' = r
      BY <1>1 DEF Current
    <2>2. (After(other)' <=> After(other)) /\ (Before(other)' <=> Before(other))
      BY <2>1 DEF After, Before
    <2>3. WorkerHonest(other)
      BY DEF HInv
    <2>4. CASE After(other) \/ Before(other)
      <3>1. r \in Requests /\ CameraOf[r] = other
        BY <2>4, AfterEngaged
      <3>2. /\ transmitted'[r] = transmitted[r]
            /\ Unsent(mem', r) => Unsent(mem, r)
            /\ Unsent(disk', r) => Unsent(disk, r) \/ Unsent(mem, r)
        BY <1>1, <3>1
      <3>3. /\ Before(other) => transmitted[r] = 0
            /\ After(other) => ~Unsent(mem, r) /\ ~Unsent(disk, r)
        BY <2>3 DEF WorkerHonest
      <3> HIDE DEF r
      <3> QED BY <2>1, <2>2, <3>2, <3>3 DEF WorkerHonest
    <2>5. CASE ~(After(other) \/ Before(other))
      BY <2>2, <2>5 DEF WorkerHonest
    <2> QED BY <2>4, <2>5
  <1> QED BY <1>1 DEF HInv

\* The ledgers and what was sent stay; only the worker moves.
LEMMA WorkerMovesHonest ==
    ASSUME IInv, HInv, up, NEW cam \in Cameras, UNCHANGED <<up, mem, disk, transmitted>>,
           \A other \in Cameras \ {cam} :
                pc'[other] = pc[other] /\ queue'[other] = queue[other] /\ verdict'[other] = verdict[other],
           WorkerHonest(cam)'
    PROVE  HInv'
  <1>1. Honest(mem', transmitted') /\ Honest(disk', transmitted') /\ Mirrors(mem', disk')
    BY DEF HInv
  <1> QED BY <1>1, WorkerHonestFrame

\* The worker writes to the ledger, in the record of its command only.
LEMMA WorkerWritesHonest ==
    ASSUME IInv, HInv, up, NEW cam \in Cameras, NEW id \in Ids, NEW v \in States,
           NEW r \in Requests, CameraOf[r] = cam, IdOf[r] = id,
           mem[id].state # "absent", v # "absent",
           mem' = [mem EXCEPT ![id].state = v], disk' \in {disk, mem'},
           UNCHANGED <<up, transmitted>>, Honest(mem', transmitted),
           \A other \in Cameras \ {cam} :
                pc'[other] = pc[other] /\ queue'[other] = queue[other] /\ verdict'[other] = verdict[other],
           WorkerHonest(cam)'
    PROVE  HInv'
  <1>1. \A other \in Ids : other # id => mem'[other] = mem[other]
    BY LedgersReady DEF Ledgers
  <1>2. ASSUME NEW s \in Requests, CameraOf[s] # cam
        PROVE  Unsent(mem', s) => Unsent(mem, s)
    <2>1. IdOf[s] \in Ids /\ IdOf[s] # id
      BY <1>2, LedgerAssumption
    <2> QED BY <1>1, <2>1 DEF Unsent, Spent, Holds
  <1>3. Honest(mem', transmitted') /\ Honest(disk', transmitted')
    BY DEF HInv
  <1>4. Mirrors(mem', mem)
    BY ChangedRetains, LedgersReady
  <1>5. Mirrors(mem', disk')
    BY <1>4 DEF HInv, Mirrors
  <1> QED BY <1>2, <1>3, <1>5, WorkerHonestFrame, ZenonT(60)

LEMMA RestHonest ==
    ASSUME IInv, HInv, NEW cam \in Cameras, Finish(cam) \/ DropAborted(cam)
    PROVE  HInv'
  <1> USE DEF Step
  <1>1. up /\ UNCHANGED <<up, mem, disk, transmitted>>
    BY WorkerUp DEF Finish, DropAborted, Zombie, Running
  <1>2. \A other \in Cameras \ {cam} :
            pc'[other] = pc[other] /\ queue'[other] = queue[other] /\ verdict'[other] = verdict[other]
    BY DEF Finish, DropAborted, IInv, TypeOK
  <1>3. pc'[cam] \in {"done", "idle"}
    BY DEF Finish, DropAborted, IInv, TypeOK
  <1>4. WorkerHonest(cam)'
    BY <1>3 DEF WorkerHonest, Before, After
  <1> QED BY <1>1, <1>2, <1>4, WorkerMovesHonest

LEMMA AnswerHonest ==
    ASSUME IInv, HInv, NEW cam \in Cameras, Answer(cam)
    PROVE  HInv'
  <1>1. /\ up /\ UNCHANGED <<up, mem, disk, transmitted, queue>> /\ pc[cam] = "reply"
        /\ pc'[cam] = "complete" /\ verdict'[cam] \in {"succeeded", "unknown"}
    BY DEF Answer, Step, IInv, TypeOK
  <1>2. \A other \in Cameras \ {cam} :
            pc'[other] = pc[other] /\ queue'[other] = queue[other] /\ verdict'[other] = verdict[other]
    BY DEF Answer, Step, IInv, TypeOK
  <1>3. After(cam) /\ WorkerHonest(cam)
    BY <1>1 DEF After, HInv
  <1>4. Current(cam)' = Current(cam)
    BY <1>1 DEF Current
  <1>5. WorkerHonest(cam)'
    BY <1>1, <1>3, <1>4 DEF WorkerHonest, Before, Failed
  <1> QED BY <1>1, <1>2, <1>5, WorkerMovesHonest

\* What the ledger says was only queued was not sent.
LEMMA ReplayHonest ==
    ASSUME IInv, HInv, NEW cam \in Cameras, Replay(cam)
    PROVE  HInv'
  <1> DEFINE r == Current(cam)
  <1>1. up /\ UNCHANGED <<up, mem, disk, transmitted, verdict>>
    BY DEF Replay
  <1>2. \A other \in Cameras \ {cam} :
            pc'[other] = pc[other] /\ queue'[other] = queue[other] /\ verdict'[other] = verdict[other]
    BY DEF Replay, Return, IInv, TypeOK
  <1>3. \/ pc'[cam] \in {"failed", "replay"}
        \/ pc'[cam] = "deadline" /\ queue' = queue /\ Replayed(mem, r) = "fresh"
    BY DEF Replay, IInv, TypeOK
  <1>4. CASE pc'[cam] = "deadline" /\ queue' = queue /\ Replayed(mem, r) = "fresh"
    <2>1. r \in Requests
      BY TailOwned DEF Replay
    <2>2. mem[IdOf[r]].state = "queued" /\ Holds(mem, r)
      BY <1>4, <2>1, FreshIsQueued, LedgersReady DEF Replayed
    <2>3. transmitted[r] = 0
      BY <1>1, <2>1, <2>2 DEF HInv, Honest, Unsent, Spent
    <2>4. Current(cam)' = r
      BY <1>4 DEF Current
    <2> HIDE DEF r
    <2>5. WorkerHonest(cam)'
      BY <1>1, <1>4, <2>3, <2>4 DEF WorkerHonest, After
    <2> QED BY <1>1, <1>2, <2>5, WorkerMovesHonest
  <1>5. CASE pc'[cam] \in {"failed", "replay"}
    <2>1. WorkerHonest(cam)'
      BY <1>5 DEF WorkerHonest, Before, After
    <2> QED BY <1>1, <1>2, <2>1, WorkerMovesHonest
  <1> QED BY <1>3, <1>4, <1>5

LEMMA CheckDeadlineHonest ==
    ASSUME IInv, HInv, NEW cam \in Cameras, CheckDeadline(cam)
    PROVE  HInv'
  <1>1. /\ up /\ UNCHANGED <<up, mem, disk, transmitted, queue>> /\ pc[cam] = "deadline"
        /\ \/ pc'[cam] = "begin"
           \/ pc'[cam] = "complete" /\ verdict'[cam] \in Failed
    BY DEF CheckDeadline, Step, IInv, TypeOK, Failed
  <1>2. \A other \in Cameras \ {cam} :
            pc'[other] = pc[other] /\ queue'[other] = queue[other] /\ verdict'[other] = verdict[other]
    BY DEF CheckDeadline, Step, IInv, TypeOK
  <1>3. Current(cam)' = Current(cam) /\ Before(cam) /\ WorkerHonest(cam)
    BY <1>1 DEF Current, Before, HInv
  <1>4. WorkerHonest(cam)'
    BY <1>1, <1>3 DEF WorkerHonest, After
  <1> QED BY <1>1, <1>2, <1>4, WorkerMovesHonest

LEMMA BeginHonest ==
    ASSUME IInv, HInv, NEW cam \in Cameras, Begin(cam)
    PROVE  HInv'
  <1> DEFINE r == Current(cam)
             id == IdOf[r]
  <1>1. up /\ UNCHANGED <<up, transmitted, queue, verdict>> /\ pc[cam] \in Engaged
    BY DEF Begin, Engaged, Running
  <1>2. r \in Requests /\ id \in Ids /\ CameraOf[r] = cam /\ mem \in Ledgers /\ Bound(mem[id], r)
    BY <1>1, CurrentCommand
  <1>3. \A other \in Cameras \ {cam} :
            pc'[other] = pc[other] /\ queue'[other] = queue[other] /\ verdict'[other] = verdict[other]
    BY DEF Begin, IInv, TypeOK
  <1>4. CASE mem[id].state # "queued"
    <2>1. UNCHANGED <<mem, disk>> /\ pc'[cam] = "failed"
      BY <1>4 DEF Begin, IInv, TypeOK
    <2>2. WorkerHonest(cam)'
      BY <2>1 DEF WorkerHonest, Before, After
    <2> QED BY <1>1, <1>3, <2>1, <2>2, WorkerMovesHonest
  <1>5. CASE mem[id].state = "queued"
    <2>1. /\ mem' = Begun(mem, id)
          /\ \/ pc'[cam] = "failed" /\ disk' \in {disk, mem'}
             \/ pc'[cam] = "send" /\ disk' = mem'
      BY <1>5 DEF Begin, IInv, TypeOK
    <2>2. Current(cam)' = r
      BY <1>1 DEF Current
    <2>3. "pending" \in States /\ mem' = [mem EXCEPT ![id].state = "pending"]
      BY <2>1 DEF Begun, States
    <2>4. IdOf[r] = id
      OBVIOUS
    <2> HIDE DEF r, id
    <2>5. Calm(mem, mem')
      BY <1>2, <1>5, <2>3, ChangedCalm DEF Failed
    <2>6. Honest(mem', transmitted)
      BY <1>1, <2>5, CalmHonest DEF HInv
    <2>7. mem'[id] = [mem[id] EXCEPT !.state = "pending"] /\ mem[id] \in Record
      BY <1>2, <1>5, <2>3, ChangedRecordIsLedger, LedgerRecords
    <2>8. mem'[id].state = "pending" /\ mem'[id].request = r
      BY <1>2, <1>5, <2>7 DEF Record, Bound
    <2>9. ~Unsent(mem', r)
      BY <2>4, <2>8 DEF Unsent, Spent
    <2>10. WorkerHonest(cam)'
      BY <2>1, <2>2, <2>9 DEF WorkerHonest, Before, After
    <2>11. disk' \in {disk, mem'}
      BY <2>1
    <2>12. mem[id].state # "absent"
      BY <1>5
    <2> QED BY <1>1, <1>2, <1>3, <2>3, <2>4, <2>6, <2>10, <2>11, <2>12, WorkerWritesHonest
  <1> QED BY <1>4, <1>5

LEMMA TransmitHonest ==
    ASSUME IInv, HInv, NEW cam \in Cameras, Transmit(cam)
    PROVE  HInv'
  <1> DEFINE r == Current(cam)
  <1>1. up /\ UNCHANGED <<up, mem, disk, queue>> /\ pc[cam] = "send" /\ After(cam)
    BY DEF Transmit, Step, After
  <1>2. r \in Requests /\ CameraOf[r] = cam
    BY <1>1, AfterEngaged
  <1>3. \A other \in Cameras \ {cam} :
            pc'[other] = pc[other] /\ queue'[other] = queue[other] /\ verdict'[other] = verdict[other]
    BY DEF Transmit, Step, IInv, TypeOK
  <1>4. \/ pc'[cam] = "reply"
        \/ pc'[cam] = "complete" /\ verdict'[cam] = "unknown"
    BY DEF Transmit, Step, IInv, TypeOK
  <1>5. ~Unsent(mem, r) /\ ~Unsent(disk, r) /\ Current(cam)' = r
    BY <1>1 DEF HInv, WorkerHonest, Current
  <1> HIDE DEF r
  <1>6. WorkerHonest(cam)'
    BY <1>1, <1>4, <1>5 DEF WorkerHonest, Before, Failed
  <1>7. \A s \in Requests : s # r => transmitted'[s] = transmitted[s]
    BY <1>2 DEF Transmit, r, IInv, TypeOK
  <1>8. Honest(mem', transmitted') /\ Honest(disk', transmitted') /\ Mirrors(mem', disk')
    BY <1>1, <1>5, <1>7 DEF HInv, Honest
  <1>9. \A s \in Requests : CameraOf[s] # cam =>
                /\ transmitted'[s] = transmitted[s]
                /\ Unsent(mem', s) => Unsent(mem, s)
                /\ Unsent(disk', s) => Unsent(disk, s) \/ Unsent(mem, s)
    BY <1>1, <1>2, <1>7
  <1> QED BY <1>1, <1>3, <1>6, <1>8, <1>9, WorkerHonestFrame

LEMMA CompleteHonest ==
    ASSUME IInv, HInv, NEW cam \in Cameras, Complete(cam)
    PROVE  HInv'
  <1> DEFINE r == Current(cam)
             id == IdOf[r]
             v == verdict[cam]
  <1>1. up /\ UNCHANGED <<up, transmitted>> /\ pc[cam] = "complete" /\ pc[cam] \in Engaged
    BY DEF Complete, Engaged, Running
  <1>2. r \in Requests /\ id \in Ids /\ CameraOf[r] = cam /\ mem \in Ledgers /\ Bound(mem[id], r)
    BY <1>1, CurrentCommand
  <1>3. \A other \in Cameras \ {cam} :
            pc'[other] = pc[other] /\ queue'[other] = queue[other] /\ verdict'[other] = verdict[other]
    BY DEF Complete, Return, IInv, TypeOK
  <1>4. pc'[cam] \in {"replay", "failed"}
    BY DEF Complete, IInv, TypeOK
  <1>5. WorkerHonest(cam)'
    BY <1>4 DEF WorkerHonest, Before, After
  <1>6. CASE mem[id].state = "absent"
    <2>1. UNCHANGED <<mem, disk>>
      BY <1>6 DEF Complete
    <2> QED BY <1>1, <1>3, <1>5, <2>1, WorkerMovesHonest
  <1>7. CASE mem[id].state # "absent"
    <2>1. mem' = [mem EXCEPT ![id].state = v] /\ disk' \in {disk, mem'}
      BY <1>7 DEF Complete, Completed
    <2>2. v \in Verdicts /\ v \in States /\ v # "absent"
      BY VerdictsAreStates DEF IInv, TypeOK
    <2>3. v \in Failed => transmitted[r] = 0
      BY <1>1 DEF HInv, WorkerHonest, Before
    <2>4. IdOf[r] = id
      OBVIOUS
    <2> HIDE DEF r, id, v
    <2>5. /\ mem'[id] = [mem[id] EXCEPT !.state = v] /\ mem[id] \in Record
          /\ \A other \in Ids : other # id => mem'[other] = mem[other]
      BY <1>2, <1>7, <2>1, <2>2, ChangedRecordIsLedger, LedgerRecords
    <2>6. mem'[id].state = v /\ mem'[id].request = r
      BY <1>2, <1>7, <2>5 DEF Record, Bound
    <2>7. ASSUME NEW s \in Requests, Unsent(mem', s) PROVE transmitted[s] = 0
      <3>1. IdOf[s] \in Ids
        BY LedgerAssumption
      <3>2. CASE IdOf[s] # id
        BY <1>1, <2>5, <2>7, <3>1, <3>2 DEF HInv, Honest, Unsent, Spent, Holds
      <3>3. CASE IdOf[s] = id
        <4>1. s = r
          BY <2>6, <2>7, <3>3 DEF Unsent, Holds
        <4>2. v \in Failed
          BY <2>2, <2>6, <2>7, <3>3 DEF Unsent, Spent, Verdicts
        <4> QED BY <2>3, <4>1, <4>2
      <3> QED BY <3>2, <3>3
    <2>8. Honest(mem', transmitted)
      BY <2>7 DEF Honest
    <2> QED BY <1>1, <1>2, <1>3, <1>5, <1>7, <2>1, <2>2, <2>4, <2>8, WorkerWritesHonest
  <1> QED BY <1>6, <1>7

LEMMA WorkHonest ==
    ASSUME IInv, HInv, NEW cam \in Cameras, Work(cam)
    PROVE  HInv'
  BY RestHonest, AnswerHonest, ReplayHonest, CheckDeadlineHonest, BeginHonest, TransmitHonest,
     CompleteHonest DEF Work, WorkerStep

LEMMA HonestyStays ==
    ASSUME IInv, LInv, HInv, SInv, [RuntimeNext]_runtimeVars
    PROVE  HInv'
  <1>1. CASE \/ AwaitConfig \/ UNCHANGED runtimeVars \/ Time \/ SnapshotsCollected
             \/ (\E cam \in Cameras : \E version \in Versions \cup {Unpaired} : EditConfig(cam, version))
             \/ Network \/ Reload \/ (\E t \in snapshots : CollectPanic(t))
             \/ (\E cam \in Cameras : SendSnapshot(cam))
    <2>1. UNCHANGED <<up, mem, disk, transmitted, pc, queue, verdict>>
      BY <1>1 DEF AwaitConfig, runtimeVars, vars, Time, Tick, SnapshotsCollected, EditConfig, workerVars,
                  Network, SnapshotServed, SnapshotLost, SnapshotPanics, Reload, AbortWorkers,
                  CollectPanic, SendSnapshot
    <2> QED BY <2>1, HonestFrame
  <1>2. CASE Kill \/ ReloadFails
    BY <1>2, HaltedHonest DEF Kill, ReloadFails, Halt, HInv
  <1> QED BY <1>1, <1>2, BootHonest, WorkHonest, CancelOneHonest, CollectSnapshotHonest,
             CollectWorkerHonest, EnqueueHonest, LaunchOneHonest DEF RuntimeNext, Pass

-----------------------------------------------------------------------------
(***************************************************************************)
(* Second part: the supply of commands.                                    *)
(***************************************************************************)
\* What is on its way was so before, unless a response has just come.
LEMMA SupplyShrinks ==
    ASSUME LInv, incoming' \in {incoming, << >>},
           \A t \in snapshots' : t.outcome = "ok" => t \in snapshots,
           \A cam \in Cameras : revision'[cam] \in Nat /\ revision[cam] <= revision'[cam],
           NEW r \in Requests, Supplied(r)'
    PROVE  Supplied(r)
  <1>1. CASE \E i \in DOMAIN incoming' : incoming'[i] = r
    <2>1. incoming' = incoming
      BY <1>1
    <2> QED BY <1>1, <2>1 DEF Supplied
  <1>2. CASE \E t \in snapshots' : /\ t.outcome = "ok" /\ Fits(t)'
                                   /\ \E i \in DOMAIN t.commands : t.commands[i] = r
    <2>1. PICK t \in snapshots' : /\ t.outcome = "ok" /\ Fits(t)'
                                  /\ \E i \in DOMAIN t.commands : t.commands[i] = r
      BY <1>2
    <2>2. t \in snapshots
      BY <2>1
    <2>3. /\ t.camera \in Cameras /\ t.revision \in Nat /\ t.revision <= revision[t.camera]
          /\ revision[t.camera] \in Nat
      BY <2>2 DEF LInv, RuntimeTypeOK, Snapshot, SnapshotSound
    <2>4. Fits(t)
      BY <2>1, <2>3 DEF Fits
    <2> QED BY <2>1, <2>2, <2>4 DEF Supplied
  <1> QED BY <1>1, <1>2 DEF Supplied

LEMMA SuppliesFrame ==
    ASSUME LInv, SInv, up' => up, incoming' \in {incoming, << >>},
           \A t \in snapshots' : /\ t.outcome = "ok" => t \in snapshots
                                 /\ t \in snapshots \/ TaskFresh(t),
           \A cam \in Cameras : revision'[cam] \in Nat /\ revision[cam] <= revision'[cam],
           \A r \in Requests : Supplied(r) /\ (transmitted[r] = 0 \/ Kept(mem, r)) =>
                transmitted'[r] = 0 \/ Kept(mem', r)
    PROVE  SInv'
  <1>1. ASSUME NEW r \in Requests, Supplied(r)' PROVE Supplied(r)
    BY <1>1, SupplyShrinks
  <1>2. up' => \A r \in Requests : Supplied(r)' => transmitted'[r] = 0 \/ Kept(mem', r)
    BY <1>1 DEF SInv
  <1>3. \A t \in snapshots' : TaskFresh(t)
    BY DEF SInv
  <1>4. \A r \in Requests : Kept(mem, r)' <=> Kept(mem', r)
    BY DEF Kept, Holds
  <1>5. \A t : TaskFresh(t)' <=> TaskFresh(t)
    BY DEF TaskFresh, IdsOf
  <1> QED BY <1>2, <1>3, <1>4, <1>5 DEF SInv

LEMMA HaltedSupplies ==
    ASSUME ~up', LoopEnds
    PROVE  SInv'
  BY DEF LoopEnds, LoopStarts, SInv

LEMMA BootSupplies ==
    ASSUME SInv, Boot
    PROVE  SInv'
  <1>1. CASE up'
    <2>1. incoming' = << >> /\ snapshots' = {}
      BY <1>1 DEF Boot, LoopStarts
    <2>2. \A r \in Requests : ~Supplied(r)'
      BY <2>1 DEF Supplied
    <2> QED BY <2>1, <2>2 DEF SInv
  <1>2. CASE ~up'
    <2>1. snapshots' = snapshots
      BY <1>2 DEF Boot, loopVars, snapshotVars
    <2> QED BY <1>2, <2>1 DEF SInv, TaskFresh, IdsOf
  <1> QED BY <1>1, <1>2

\* A record that takes another state is kept.
LEMMA ChangedSupplies ==
    ASSUME IInv, LInv, SInv, up, NEW id \in Ids, NEW v \in States,
           mem[id].state # "absent", v # "absent", mem' = [mem EXCEPT ![id].state = v],
           UNCHANGED <<transmitted, incoming, snapshots, revision>>
    PROVE  SInv'
  <1>1. Retains(mem, mem', {})
    BY ChangedRetains, LedgersReady
  <1>2. \A r \in Requests : Kept(mem, r) => Kept(mem', r)
    BY <1>1 DEF Retains
  <1>3. \A cam \in Cameras : revision'[cam] \in Nat /\ revision[cam] <= revision'[cam]
    BY DEF LInv, RuntimeTypeOK
  <1> QED BY <1>2, <1>3, SuppliesFrame

\* What a worker sends is either on no way into the ledger or safe there.
LEMMA TransmitSupplies ==
    ASSUME IInv, LInv, SInv, NEW cam \in Cameras, Transmit(cam),
           UNCHANGED <<incoming, snapshots, revision>>
    PROVE  SInv'
  <1> DEFINE c == Current(cam)
  <1>1. up /\ UNCHANGED <<up, mem>> /\ pc[cam] = "send" /\ After(cam)
    BY DEF Transmit, Step, After
  <1>2. /\ c \in Requests /\ CameraOf[c] = cam /\ Bound(mem[IdOf[c]], c)
        /\ ~aborted[cam] => Unsettled(mem[IdOf[c]])
    BY <1>1, AfterEngaged
  <1>3. \A s \in Requests : s # c => transmitted'[s] = transmitted[s]
    BY <1>2 DEF Transmit, IInv, TypeOK
  <1> HIDE DEF c
  <1>4. ASSUME Supplied(c) PROVE Kept(mem, c)
    <2>1. ~Zombie(cam)
      <3>1. WorkerKept(cam) /\ \A t \in snapshots : OfCamera(t.camera, t.commands)
        BY DEF LInv, SnapshotSound
      <3> QED BY <1>2, <1>4, <3>1 DEF Supplied, WorkerKept, OfCamera
    <2>2. ~aborted[cam]
      BY <1>1, <2>1 DEF Zombie, Running, IInv, TypeOK
    <2> QED BY <1>2, <2>2 DEF Unsettled, Bound, Kept, Holds
  <1>5. ASSUME NEW r \in Requests, Supplied(r), transmitted[r] = 0 \/ Kept(mem, r)
        PROVE  transmitted'[r] = 0 \/ Kept(mem', r)
    BY <1>1, <1>3, <1>4, <1>5
  <1>6. \A other \in Cameras : revision'[other] \in Nat /\ revision[other] <= revision'[other]
    BY DEF LInv, RuntimeTypeOK
  <1> QED BY <1>1, <1>5, <1>6, SuppliesFrame

LEMMA QuietSupplies ==
    ASSUME LInv, SInv, UNCHANGED <<up, mem, transmitted, incoming, snapshots, revision>>
    PROVE  SInv'
  <1>1. \A cam \in Cameras : revision'[cam] \in Nat /\ revision[cam] <= revision'[cam]
    BY DEF LInv, RuntimeTypeOK
  <1> QED BY <1>1, SuppliesFrame

LEMMA WorkSupplies ==
    ASSUME IInv, LInv, SInv, NEW cam \in Cameras, Work(cam)
    PROVE  SInv'
  <1>1. UNCHANGED <<incoming, snapshots, revision>> /\ WorkerStep(cam)
    BY DEF Work, loopVars, snapshotVars, passVars
  <1>2. CASE Finish(cam) \/ Replay(cam) \/ CheckDeadline(cam) \/ Answer(cam) \/ DropAborted(cam)
    BY <1>1, <1>2, QuietSupplies DEF Finish, Replay, CheckDeadline, Answer, DropAborted, Step
  <1>3. CASE Begin(cam)
    <2>1. up /\ UNCHANGED <<up, transmitted>> /\ pc[cam] \in Engaged
      BY <1>3 DEF Begin, Engaged, Running
    <2>2. IdOf[Current(cam)] \in Ids
      BY <2>1, CurrentCommand
    <2>3. CASE mem[IdOf[Current(cam)]].state = "queued"
      <3>1. mem' = [mem EXCEPT ![IdOf[Current(cam)]].state = "pending"]
        BY <1>3, <2>3 DEF Begin, Begun
      <3>2. "pending" \in States
        BY DEF States
      <3> QED BY <1>1, <2>1, <2>2, <2>3, <3>1, <3>2, ChangedSupplies
    <2>4. CASE mem[IdOf[Current(cam)]].state # "queued"
      BY <1>1, <1>3, <2>1, <2>4, QuietSupplies DEF Begin
    <2> QED BY <2>3, <2>4
  <1>4. CASE Complete(cam)
    <2>1. up /\ UNCHANGED <<up, transmitted>> /\ pc[cam] \in Engaged
      BY <1>4 DEF Complete, Engaged, Running
    <2>2. IdOf[Current(cam)] \in Ids
      BY <2>1, CurrentCommand
    <2>3. verdict[cam] \in States /\ verdict[cam] # "absent"
      BY VerdictsAreStates DEF IInv, TypeOK
    <2>4. CASE mem[IdOf[Current(cam)]].state # "absent"
      <3>1. mem' = [mem EXCEPT ![IdOf[Current(cam)]].state = verdict[cam]]
        BY <1>4, <2>4 DEF Complete, Completed
      <3> QED BY <1>1, <2>1, <2>2, <2>3, <2>4, <3>1, ChangedSupplies
    <2>5. CASE mem[IdOf[Current(cam)]].state = "absent"
      BY <1>1, <1>4, <2>1, <2>5, QuietSupplies DEF Complete
    <2> QED BY <2>4, <2>5
  <1> QED BY <1>1, <1>2, <1>3, <1>4, TransmitSupplies DEF WorkerStep

LEMMA CancelOneSupplies ==
    ASSUME IInv, LInv, SInv, NEW r \in Requests, CancelOne(r), up' \in BOOLEAN
    PROVE  SInv'
  <1> DEFINE id == IdOf[r]
             v == CancelVerdict(mem[id].state)
  <1>1. CASE ~up'
    BY <1>1, HaltedSupplies DEF CancelOne
  <1>2. CASE up'
    <2>1. UNCHANGED <<transmitted, incoming, snapshots, revision>> /\ up
      BY <1>2 DEF CancelOne, Cancel, snapshotVars
    <2>2. mem[id].state # "absent" /\ mem' = [mem EXCEPT ![id].state = v]
      BY <1>2 DEF CancelOne, Cancel, SaveByLoop, Saved, SaveFails, Halted, Completed
    <2>3. id \in Ids /\ mem[id].state \in States
      BY LedgerAssumption, LedgersReady, LedgerRecords
    <2>4. v \in States /\ v # "absent"
      BY <2>2, <2>3 DEF CancelVerdict, States, Verdicts, Failed
    <2> HIDE DEF id, v
    <2> QED BY <2>1, <2>2, <2>3, <2>4, ChangedSupplies
  <1> QED BY <1>1, <1>2

\* The results a response confirms are not those of commands on their way.
LEMMA SupplyTaken ==
    ASSUME LInv, SInv, NEW t \in snapshots, Fits(t), t.outcome = "ok", phase = "snapshots",
           incoming' = incoming \o t.commands, snapshots' = snapshots \ {t},
           revision' = revision, sending' = sending \ {t.camera}, NEW r \in Requests, Supplied(r)'
    PROVE  Supplied(r) /\ IdOf[r] \notin {p[1] : p \in t.sent}
  <1> DEFINE ids == {p[1] : p \in t.sent}
  <1>1. /\ IncomingSound /\ TaskFresh(t) /\ ids \subseteq IdsOf(t.camera)
        /\ incoming \in Seq(Requests) /\ t.commands \in Seq(Requests)
    BY DEF LInv, RuntimeTypeOK, SInv, Snapshot, TaskFresh
  <1>2. CASE \E i \in DOMAIN incoming' : incoming'[i] = r
    <2>1. PICK i \in DOMAIN incoming' : incoming'[i] = r
      BY <1>2
    <2>2. CASE i \in DOMAIN incoming /\ incoming[i] = r
      <3>1. CameraOf[r] # t.camera
        BY <1>1, <2>2 DEF IncomingSound
      <3>2. IdOf[r] \notin ids
        BY <1>1, <3>1, IdsApart
      <3> QED BY <2>2, <3>2 DEF Supplied
    <2>3. CASE \E j \in DOMAIN t.commands : t.commands[j] = r
      BY <2>3, <1>1 DEF Supplied, TaskFresh
    <2>4. \/ i \in DOMAIN incoming /\ incoming'[i] = incoming[i]
          \/ \E j \in DOMAIN t.commands : t.commands[j] = incoming'[i]
      BY <1>1, <2>1, ConcatElements
    <2> QED BY <2>1, <2>2, <2>3, <2>4
  <1>3. CASE \E u \in snapshots' : /\ u.outcome = "ok" /\ Fits(u)'
                                   /\ \E i \in DOMAIN u.commands : u.commands[i] = r
    <2>1. PICK u \in snapshots' : /\ u.outcome = "ok" /\ Fits(u)'
                                  /\ \E i \in DOMAIN u.commands : u.commands[i] = r
      BY <1>3
    <2>2. u \in snapshots /\ Fits(u) /\ u.camera # t.camera
      BY <2>1, TaskTaken
    <2>3. CameraOf[r] = u.camera
      BY <2>1, <2>2 DEF LInv, SnapshotSound, OfCamera
    <2>4. IdOf[r] \notin ids
      BY <1>1, <2>2, <2>3, IdsApart
    <2> QED BY <2>1, <2>2, <2>4 DEF Supplied
  <1> QED BY <1>2, <1>3 DEF Supplied

LEMMA CollectSnapshotSupplies ==
    ASSUME IInv, LInv, SInv, NEW t \in snapshots, CollectSnapshot(t), up' \in BOOLEAN
    PROVE  SInv'
  <1> USE DEF passVars, commandVars
  <1> DEFINE ids == {p[1] : p \in t.sent}
  <1>1. t \in Snapshot /\ phase = "snapshots" /\ TaskFresh(t)
    BY DEF CollectSnapshot, LInv, RuntimeTypeOK, SInv
  <1>2. CASE UNCHANGED <<vars, incoming, revision>> /\ snapshots' = snapshots \ {t}
    <2>1. \A cam \in Cameras : revision'[cam] \in Nat /\ revision[cam] <= revision'[cam]
      BY <1>2 DEF LInv, RuntimeTypeOK
    <2> QED BY <1>2, <2>1, SuppliesFrame DEF vars
  <1>3. CASE ~up'
    <2>1. up
      BY DEF LInv, RuntimeTypeOK, CollectSnapshot
    <2> QED BY <1>2, <1>3, <2>1, HaltedSupplies DEF CollectSnapshot, vars
  <1>4. CASE /\ up' /\ Fits(t) /\ t.outcome = "ok" /\ Acknowledge(ids)
             /\ incoming' = incoming \o t.commands /\ snapshots' = snapshots \ {t}
             /\ revision' = revision /\ sending' = sending \ {t.camera}
    <2>1. up /\ transmitted' = transmitted /\ mem' \in {mem, Acknowledged(mem, ids, now)}
      BY <1>4 DEF Acknowledge, SaveByLoop, Saved, SaveFails, Halted
    <2>2. ids \in SUBSET Ids
      BY <1>1 DEF Snapshot
    <2>3. Retains(mem, Acknowledged(mem, ids, now), ids)
      BY <2>2, LedgersReady, AcknowledgedCalm
    <2>4. ASSUME NEW r \in Requests, Supplied(r)'
          PROVE  Supplied(r) /\ IdOf[r] \notin ids
      BY <1>1, <1>4, <2>4, SupplyTaken
    <2> HIDE DEF ids
    <2>5. ASSUME NEW r \in Requests, Supplied(r)' PROVE transmitted'[r] = 0 \/ Kept(mem', r)
      BY <2>1, <2>3, <2>4, <2>5 DEF SInv, Retains
    <2>6. \A r \in Requests : Kept(mem, r)' <=> Kept(mem', r)
      BY DEF Kept, Holds
    <2>7. \A u \in snapshots' : TaskFresh(u)'
      BY <1>4 DEF SInv, TaskFresh, IdsOf
    <2> QED BY <2>5, <2>6, <2>7 DEF SInv
  <1> HIDE DEF ids
  <1>5. ids = {p[1] : p \in t.sent}
    BY DEF ids
  <1> QED BY <1>2, <1>3, <1>4, <1>5 DEF CollectSnapshot, Fits

\* A finished request that is not served brings nothing.
LEMMA TaskFailsSupplies ==
    ASSUME LInv, SInv, NEW t \in snapshots, SnapshotLost(t) \/ SnapshotPanics(t)
    PROVE  SInv'
  <1> USE DEF passVars
  <1>1. UNCHANGED <<up, mem, transmitted, incoming, revision>>
    BY DEF SnapshotLost, SnapshotPanics, vars
  <1>2. PICK outcome \in {"error", "panicked"} : TaskEnds(t, outcome, << >>)
    BY DEF SnapshotLost, SnapshotPanics
  <1> DEFINE n == [t EXCEPT !.outcome = outcome, !.commands = << >>]
  <1>3. t \in Snapshot
    BY DEF LInv, RuntimeTypeOK
  <1>4. n.camera = t.camera /\ n.sent = t.sent /\ n.outcome = outcome
    BY <1>3 DEF Snapshot
  <1>5. snapshots' = (snapshots \ {t}) \cup {n}
    BY <1>2 DEF TaskEnds
  <1> HIDE DEF n
  <1>6. TaskFresh(n) /\ n.outcome # "ok"
    BY <1>2, <1>4 DEF SInv, TaskFresh
  <1>7. \A cam \in Cameras : revision'[cam] \in Nat /\ revision[cam] <= revision'[cam]
    BY <1>1 DEF LInv, RuntimeTypeOK
  <1> QED BY <1>1, <1>5, <1>6, <1>7, SuppliesFrame

\* A response brings commands the Server has no result for, nor was just told of.
LEMMA ServedFresh ==
    ASSUME ~RedeliverAnswered, LInv, SInv, NEW t \in snapshots, SnapshotServed(t)
    PROVE  /\ \A r \in Requests : Supplied(r)' => Supplied(r) \/ answered[IdOf[r]] = {}
           /\ \A u \in snapshots' : TaskFresh(u)
  <1> USE DEF passVars
  <1>1. UNCHANGED <<incoming, revision>>
    BY DEF SnapshotServed, vars
  <1>2. PICK commands \in Deliveries(t) : TaskEnds(t, "ok", commands)
    BY DEF SnapshotServed
  <1> DEFINE n == [t EXCEPT !.outcome = "ok", !.commands = commands]
             due == {r \in Requests : /\ CameraOf[r] = t.camera
                                      /\ RedeliverAnswered \/ Heard(t)[IdOf[r]] = {}}
  <1>3. t \in Snapshot
    BY DEF LInv, RuntimeTypeOK
  <1>4. n.camera = t.camera /\ n.sent = t.sent /\ n.outcome = "ok" /\ n.commands = commands
    BY <1>3 DEF Snapshot
  <1>5. snapshots' = (snapshots \ {t}) \cup {n}
    BY <1>2 DEF TaskEnds
  <1>6. ASSUME NEW i \in DOMAIN commands
        PROVE  commands[i] \in Requests /\ Heard(t)[IdOf[commands[i]]] = {}
    <2>1. PICK S \in SUBSET due : commands \in SetToSeqs(S)
      BY DEF Deliveries
    <2>2. commands \in [1..Cardinality(S) -> S]
      BY <2>1 DEF SetToSeqs
    <2> QED BY <2>1, <2>2
  <1> HIDE DEF n, due
  <1>7. ASSUME NEW i \in DOMAIN commands
        PROVE  /\ answered[IdOf[commands[i]]] = {}
               /\ \A p \in t.sent : p[1] # IdOf[commands[i]]
    <2>1. commands[i] \in Requests /\ IdOf[commands[i]] \in Ids /\ Heard(t)[IdOf[commands[i]]] = {}
      BY <1>6, LedgerAssumption
    <2>2. answered[IdOf[commands[i]]] = {}
          /\ {v \in Verdicts : <<IdOf[commands[i]], v>> \in t.sent} = {}
      BY <2>1 DEF Heard
    <2>3. \A p \in t.sent : p = <<p[1], p[2]>> /\ p[2] \in Verdicts
      BY <1>3 DEF Snapshot
    <2> QED BY <2>2, <2>3
  <1>8. TaskFresh(n)
    BY <1>4, <1>7 DEF SInv, TaskFresh
  <1>9. ASSUME NEW r \in Requests, Supplied(r)', ~Supplied(r) PROVE answered[IdOf[r]] = {}
    <2>1. \A u : Fits(u)' <=> Fits(u)
      BY <1>1 DEF Fits
    <2>2. \E i \in DOMAIN commands : commands[i] = r
      BY <1>1, <1>4, <1>5, <1>9, <2>1 DEF Supplied
    <2> QED BY <1>7, <2>2
  <1> QED BY <1>5, <1>8, <1>9 DEF SInv

\* They were not sent, or are on record and not acknowledged.
LEMMA ServedSupplies ==
    ASSUME ~RedeliverAnswered, IInv, LInv, EInv, SInv, NEW t \in snapshots, SnapshotServed(t)
    PROVE  SInv'
  <1>1. UNCHANGED <<up, mem, transmitted>>
    BY DEF SnapshotServed, vars
  <1>2. ASSUME up, NEW r \in Requests, Supplied(r)' PROVE transmitted[r] = 0 \/ Kept(mem, r)
    <2>1. CASE Supplied(r)
      BY <1>2, <2>1 DEF SInv
    <2>2. CASE answered[IdOf[r]] = {}
      <3>1. IdOf[r] \in Ids /\ transmitted[r] \in Nat
        BY LedgerAssumption DEF IInv, TypeOK
      <3>2. transmitted[r] = 0 \/ Spent(mem, r)
        BY <1>2, <2>2, <3>1 DEF EInv, Evident
      <3>3. ~mem[IdOf[r]].acked
        BY <1>2, <2>2, <3>1 DEF EInv, Evident
      <3> QED BY <3>2, <3>3 DEF Spent, Kept
    <2> QED BY <1>2, <2>1, <2>2, ServedFresh
  <1>3. up' => \A r \in Requests : Supplied(r)' => transmitted'[r] = 0 \/ Kept(mem, r)'
    BY <1>1, <1>2 DEF Kept, Holds
  <1>4. \A u \in snapshots' : TaskFresh(u)'
    BY ServedFresh DEF TaskFresh, IdsOf
  <1> QED BY <1>3, <1>4 DEF SInv

\* The revisions move on; some snapshots are given up.
LEMMA RevisedSupplies ==
    ASSUME LInv, SInv, Reload \/ \E t \in snapshots : CollectPanic(t)
    PROVE  SInv'
  <1>1. UNCHANGED <<up, mem, transmitted, incoming>> /\ snapshots' \subseteq snapshots
    BY DEF Reload, AbortWorkers, CollectPanic, vars, Finished
  <1>2. revision \in [Cameras -> Nat]
    BY DEF LInv, RuntimeTypeOK
  <1>3. ASSUME NEW cam \in Cameras PROVE revision'[cam] \in {revision[cam], revision[cam] + 1}
    BY <1>2 DEF Reload, CollectPanic
  <1>4. \A cam \in Cameras : revision'[cam] \in Nat /\ revision[cam] <= revision'[cam]
    BY <1>2, <1>3
  <1> QED BY <1>1, <1>4, SuppliesFrame

LEMMA SendSnapshotSupplies ==
    ASSUME LInv, SInv, NEW cam \in Cameras, SendSnapshot(cam)
    PROVE  SInv'
  <1> DEFINE sent == {<<id, results[id]>> : id \in Known(results) \cap IdsOf(cam)}
             n == [camera |-> cam, revision |-> revision[cam], sent |-> sent,
                   capacity |-> Capacity(cam), outcome |-> "waiting", commands |-> << >>]
  <1>1. UNCHANGED <<up, mem, transmitted, incoming, revision>> /\ snapshots' = snapshots \cup {n}
    BY DEF SendSnapshot, vars
  <1>2. \A p \in sent : p[1] \in IdsOf(cam)
    OBVIOUS
  <1>3. n.camera = cam /\ n.sent = sent /\ n.outcome = "waiting"
    OBVIOUS
  <1> HIDE DEF n, sent
  <1>4. TaskFresh(n)
    BY <1>2, <1>3 DEF TaskFresh
  <1>5. \A other \in Cameras : revision'[other] \in Nat /\ revision[other] <= revision'[other]
    BY <1>1 DEF LInv, RuntimeTypeOK
  <1> QED BY <1>1, <1>3, <1>4, <1>5, SuppliesFrame

LEMMA CollectWorkerSupplies ==
    ASSUME LInv, SInv, NEW cam \in Cameras, CollectWorker(cam), up' \in BOOLEAN
    PROVE  SInv'
  <1>1. CASE ~up'
    BY <1>1, HaltedSupplies DEF CollectWorker, Collect
  <1>2. CASE up'
    <2>1. UNCHANGED <<up, mem, transmitted>>
      BY <1>2 DEF CollectWorker, Collect, Halted
    <2>2. UNCHANGED <<incoming, snapshots, revision>>
      BY <1>2 DEF CollectWorker, loopVars, passVars, snapshotVars
    <2> QED BY <2>1, <2>2, QuietSupplies
  <1> QED BY <1>1, <1>2

LEMMA EnqueueSupplies ==
    ASSUME IInv, LInv, SInv, EnqueueAndAdmit, up' \in BOOLEAN
    PROVE  SInv'
  <1>1. CASE ~up'
    BY <1>1, HaltedSupplies DEF EnqueueAndAdmit, Halt, Halted
  <1>2. CASE up'
    <2>1. up /\ UNCHANGED <<transmitted, revision, snapshots>> /\ incoming' = << >> /\ Admit(Batch)
      BY <1>2 DEF EnqueueAndAdmit, Halt, Halted, Admit, snapshotVars
    <2>2. \A r \in Requests : ~Supplied(r)' \/ \E t \in snapshots : /\ t.outcome = "ok" /\ Fits(t)
                                          /\ \E i \in DOMAIN t.commands : t.commands[i] = r
      BY <2>1 DEF Supplied, Fits
    <2>3. mem' \in {Admitted(mem, Batch, now), Prune(mem, now)}
      BY <1>2, <2>1 DEF Admit, SaveByLoop, Saved, SaveFails, Halted
    <2>4. Batch \in SUBSET Requests
      BY DEF Batch, LInv, RuntimeTypeOK
    <2>5. Retains(mem, mem', {})
      BY <2>3, <2>4, AdmittedCalm, PruneCalm, LedgersReady
    <2>6. \A r \in Requests : Kept(mem, r) => Kept(mem', r)
      BY <2>5 DEF Retains
    <2>7. \A cam \in Cameras : revision'[cam] \in Nat /\ revision[cam] <= revision'[cam]
      BY <2>1 DEF LInv, RuntimeTypeOK
    <2> QED BY <2>1, <2>6, <2>7, SuppliesFrame
  <1> QED BY <1>1, <1>2

LEMMA SuppliesStay ==
    ASSUME ~RedeliverAnswered, IInv, LInv, EInv, SInv, [RuntimeNext]_runtimeVars
    PROVE  SInv'
  <1>1. up' \in BOOLEAN
    BY UpOrDown
  <1>2. CASE \/ AwaitConfig \/ UNCHANGED runtimeVars \/ Time \/ SnapshotsCollected
             \/ (\E cam \in Cameras : \E version \in Versions \cup {Unpaired} : EditConfig(cam, version))
             \/ (\E cam \in Cameras : LaunchOne(cam))
    <2>1. UNCHANGED <<up, mem, transmitted, incoming, snapshots, revision>>
      BY <1>2 DEF AwaitConfig, runtimeVars, vars, Time, Tick, SnapshotsCollected, EditConfig,
                  LaunchOne, Launch, loopVars, passVars, snapshotVars
    <2> QED BY <2>1, QuietSupplies
  <1>3. CASE Kill \/ ReloadFails
    BY <1>3, HaltedSupplies DEF Kill, ReloadFails, Halt, Halted
  <1>4. CASE Network
    BY <1>4, TaskFailsSupplies, ServedSupplies DEF Network
  <1> QED BY <1>1, <1>2, <1>3, <1>4, BootSupplies, WorkSupplies, RevisedSupplies, CancelOneSupplies,
             CollectSnapshotSupplies, SendSnapshotSupplies, CollectWorkerSupplies, EnqueueSupplies
             DEF RuntimeNext, Pass

-----------------------------------------------------------------------------
(***************************************************************************)
(* Where a report comes from.  It is a report already, or the ledger holds *)
(* the verdict.  (A worker also reports what it finds begun as unknown.)   *)
(***************************************************************************)
\* The worker that may go on with a command is past its beginning.
UnderWay(id) ==
    \E cam \in Cameras :
        /\ id \in IdsOf(cam)
        /\ \/ pc[cam] = "failed"
           \/ pc[cam] \in {"send", "reply", "complete"} /\ IdOf[Current(cam)] = id

PendingUnderWay == \A id \in Ids : mem[id].state = "pending" => UnderWay(id)

LEMMA NoVerdictOutside == NoVerdict \notin Verdicts
  BY DEF NoVerdict, Verdicts, Failed

LEMMA ReportFrame ==
    ASSUME NEW V \in SUBSET Verdicts, NEW id,
           results'[id] \in {results[id], NoVerdict},
           completed'[id].verdict \in {completed[id].verdict, NoVerdict},
           \A cam \in Cameras : returned'[cam] \subseteq returned[cam],
           \A t \in snapshots' : \E u \in snapshots : t.sent = u.sent,
           Reported(id, V)'
    PROVE  Reported(id, V)
  <1>1. NoVerdict \notin V
    BY NoVerdictOutside
  <1>2. CASE results'[id] \in V \/ completed'[id].verdict \in V
    BY <1>1, <1>2 DEF Reported
  <1>3. CASE \E cam \in Cameras : \E x \in returned'[cam] : IdOf[x.request] = id /\ x.verdict \in V
    BY <1>3 DEF Reported
  <1>4. CASE \E t \in snapshots' : \E v \in V : <<id, v>> \in t.sent
    BY <1>4 DEF Reported
  <1> QED BY <1>2, <1>3, <1>4 DEF Reported

\* A process that ends takes its reports along.
LEMMA LoopEndsReports ==
    ASSUME NEW V \in SUBSET Verdicts, NEW id \in Ids, LoopEnds, \A cam \in Cameras : returned'[cam] = {}
    PROVE  ~Reported(id, V)'
  <1>1. EmptyLedger[id].state \notin Verdicts
    BY DEF EmptyLedger, NoRecord, Verdicts, Failed
  <1>2. results'[id] = NoVerdict /\ completed'[id].verdict = NoVerdict /\ snapshots' = {}
    BY <1>1 DEF LoopEnds, LoopStarts, Unconfirmed, Concluded, NotCompleted
  <1> QED BY <1>2, NoVerdictOutside DEF Reported

LEMMA BootReports ==
    ASSUME IInv, NEW V \in SUBSET Verdicts, NEW id \in Ids, Boot, Reported(id, V)'
    PROVE  Reported(id, V) \/ (up' /\ mem'[id].state \in V)
  <1>1. \A cam \in Cameras : returned'[cam] = {} \/ returned' = returned
    BY DEF Boot, Open, SaveFails, Halted, workerVars
  <1>2. CASE ~up'
    <2>1. UNCHANGED <<results, completed, snapshots>>
      BY <1>2 DEF Boot, loopVars, snapshotVars, commandVars
    <2> QED BY <1>1, <2>1, ReportFrame
  <1>3. CASE up'
    <2>1. /\ results'[id] \in {mem'[id].state, NoVerdict}
          /\ completed'[id].verdict \in {mem'[id].state, NoVerdict}
          /\ snapshots' = {}
      BY <1>3 DEF Boot, LoopStarts, NotCompleted
    <2>2. CASE mem'[id].state \notin V
      BY <1>1, <2>1, <2>2, NoVerdictOutside DEF Reported
    <2> QED BY <1>3, <2>2
  <1> QED BY <1>2, <1>3

LEMMA WorkReports ==
    ASSUME IInv, LInv, NEW V \in SUBSET Verdicts, "unknown" \in V => PendingUnderWay,
           NEW id \in Ids, NEW cam \in Cameras, Work(cam), Reported(id, V)'
    PROVE  Reported(id, V) \/ (up' /\ mem'[id].state \in V)
  <1>1. WorkerStep(cam) /\ UNCHANGED <<results, completed, snapshots>>
    BY DEF Work, loopVars, snapshotVars, commandVars
  <1>2. returned \in [Cameras -> SUBSET Results]
    BY DEF IInv, TypeOK
  <1>3. CASE \A other \in Cameras : returned'[other] \subseteq returned[other]
    BY <1>1, <1>3, ReportFrame
  <1>4. CASE Finish(cam) \/ CheckDeadline(cam) \/ Begin(cam) \/ Transmit(cam) \/ Answer(cam) \/ DropAborted(cam)
    <2>1. \A other \in Cameras : returned'[other] \subseteq returned[other]
      BY <1>2, <1>4 DEF Finish, CheckDeadline, Begin, Transmit, Answer, DropAborted
    <2> QED BY <1>3, <2>1
  <1>5. ASSUME NEW v, NEW fresh,
               returned' = [returned EXCEPT ![cam] =
                              @ \cup {[request |-> Current(cam), verdict |-> v, fresh |-> fresh]}],
               IdOf[Current(cam)] = id /\ v \in V => up' /\ mem'[id].state \in V
        PROVE  Reported(id, V) \/ (up' /\ mem'[id].state \in V)
    <2> DEFINE y == [request |-> Current(cam), verdict |-> v, fresh |-> fresh]
    <2>1. \A other \in Cameras : \A x \in returned'[other] : x \in returned[other] \/ x = y
      BY <1>2, <1>5
    <2>2. y.request = Current(cam) /\ y.verdict = v
      OBVIOUS
    <2> HIDE DEF y
    <2>3. CASE \E other \in Cameras : \E x \in returned'[other] : IdOf[x.request] = id /\ x.verdict \in V
      BY <1>5, <2>1, <2>2, <2>3 DEF Reported
    <2> QED BY <1>1, <2>3 DEF Reported
  <1>6. CASE Replay(cam)
    <2> DEFINE r == Current(cam)
               known == Replayed(mem, r)
    <2>1. up' /\ mem' = mem /\ (returned' = returned \/ Return(cam, known, FALSE))
          /\ pc[cam] = "replay" /\ queue[cam] # << >>
      BY <1>6 DEF Replay
    <2>2. r \in Requests /\ CameraOf[r] = cam
      BY <2>1, TailOwned
    <2> HIDE DEF r
    <2>3. ~(mem[IdOf[r]].state = "pending" /\ "unknown" \in V)
      <3> SUFFICES ASSUME UnderWay(IdOf[r]) PROVE FALSE
        BY <2>2, LedgerAssumption DEF PendingUnderWay
      <3> QED BY <2>1, <2>2, IdsApart DEF UnderWay
    <2>4. known \in V => mem[IdOf[r]].state \in V
      BY <2>3 DEF Replayed, Verdicts, Failed
    <2> HIDE DEF known
    <2>5. CASE Return(cam, known, FALSE)
      BY <1>5, <2>1, <2>4, <2>5 DEF Return, r
    <2>6. CASE returned' = returned
      BY <1>3, <2>6
    <2> QED BY <2>1, <2>5, <2>6
  <1>7. CASE Complete(cam)
    <2> DEFINE c == Current(cam)
               v == verdict[cam]
    <2>1. up' /\ pc[cam] \in Engaged
      BY <1>7 DEF Complete, Engaged, Running
    <2>2. IdOf[c] \in Ids /\ mem \in Ledgers
      BY <2>1, CurrentCommand
    <2>3. \/ returned' = returned
          \/ /\ Return(cam, v, v # "expired_before_execution")
             /\ mem' = Completed(mem, IdOf[c], v)
      BY <1>7 DEF Complete
    <2>4. mem' = Completed(mem, IdOf[c], v) => mem'[IdOf[c]].state = v
      <3>1. mem[IdOf[c]] \in Record
        BY <2>2, LedgerRecords
      <3> HIDE DEF c, v
      <3> QED BY <2>2, <3>1 DEF Completed, Ledgers, Record
    <2>5. CASE Return(cam, v, v # "expired_before_execution") /\ mem' = Completed(mem, IdOf[c], v)
      BY <1>5, <2>1, <2>4, <2>5 DEF Return
    <2>6. CASE returned' = returned
      BY <1>3, <2>6
    <2> QED BY <2>3, <2>5, <2>6
  <1> QED BY <1>1, <1>4, <1>6, <1>7 DEF WorkerStep

LEMMA NetworkReports ==
    ASSUME LInv, NEW V \in SUBSET Verdicts, NEW id \in Ids, Network, Reported(id, V)'
    PROVE  Reported(id, V)
  <1>1. PICK t \in snapshots : SnapshotServed(t) \/ SnapshotLost(t) \/ SnapshotPanics(t)
    BY DEF Network
  <1>2. UNCHANGED <<results, completed, returned>>
    BY <1>1 DEF SnapshotServed, SnapshotLost, SnapshotPanics, commandVars, vars, workerVars
  <1>3. t \in Snapshot
    BY DEF LInv, RuntimeTypeOK
  <1>4. PICK outcome, commands : TaskEnds(t, outcome, commands)
    BY <1>1 DEF SnapshotServed, SnapshotLost, SnapshotPanics
  <1>5. [t EXCEPT !.outcome = outcome, !.commands = commands].sent = t.sent
    BY <1>3 DEF Snapshot
  <1>6. \A s \in snapshots' : \E u \in snapshots : s.sent = u.sent
    BY <1>4, <1>5 DEF TaskEnds
  <1> QED BY <1>2, <1>6, ReportFrame

LEMMA SendSnapshotReports ==
    ASSUME LInv, NEW V \in SUBSET Verdicts, NEW id \in Ids, NEW cam \in Cameras, SendSnapshot(cam),
           Reported(id, V)'
    PROVE  Reported(id, V)
  <1> DEFINE sent == {<<i, results[i]>> : i \in Known(results) \cap IdsOf(cam)}
             n == [camera |-> cam, revision |-> revision[cam], sent |-> sent,
                   capacity |-> Capacity(cam), outcome |-> "waiting", commands |-> << >>]
  <1>1. /\ UNCHANGED <<results, completed, returned>>
        /\ snapshots' = snapshots \cup {n}
    BY DEF SendSnapshot, commandVars, vars, workerVars
  <1>2. n.sent = sent
    OBVIOUS
  <1>3. \A v : <<id, v>> \in sent => v = results[id]
    OBVIOUS
  <1> HIDE DEF n, sent
  <1>4. CASE \E t \in snapshots' : \E v \in V : <<id, v>> \in t.sent
    BY <1>1, <1>2, <1>3, <1>4 DEF Reported
  <1> QED BY <1>1, <1>4 DEF Reported

LEMMA CancelOneReports ==
    ASSUME IInv, LInv, NEW V \in SUBSET Verdicts, NEW id \in Ids, NEW r \in Requests, CancelOne(r),
           up' \in BOOLEAN, Reported(id, V)'
    PROVE  Reported(id, V) \/ (up' /\ mem'[id].state \in V)
  <1>1. CASE ~up'
    <2>1. LoopEnds /\ Halted
      BY <1>1 DEF CancelOne, Cancel, SaveByLoop, Saved, SaveFails
    <2> QED BY <2>1, LoopEndsReports DEF Halted
  <1>2. CASE up'
    <2>1. snapshots' = snapshots /\ returned' = returned
      BY <1>2 DEF CancelOne, Cancel, SaveByLoop, Saved, SaveFails, Halted, workerVars, snapshotVars
    <2>2. CASE id # IdOf[r]
      <3>1. results'[id] = results[id] /\ completed'[id] = completed[id]
        BY <1>2, <2>2 DEF CancelOne, LInv, RuntimeTypeOK
      <3> QED BY <2>1, <3>1, ReportFrame
    <2>3. CASE id = IdOf[r] /\ mem'[id].state \notin V
      <3>1. results'[id] = mem'[id].state /\ completed'[id].verdict = mem'[id].state
        BY <1>2, <2>3 DEF CancelOne, LInv, RuntimeTypeOK
      <3> QED BY <2>1, <2>3, <3>1 DEF Reported
    <2> QED BY <1>2, <2>2, <2>3
  <1> QED BY <1>1, <1>2

LEMMA CollectWorkerReports ==
    ASSUME IInv, LInv, NEW V \in SUBSET Verdicts, NEW id \in Ids, NEW cam \in Cameras, CollectWorker(cam),
           up' \in BOOLEAN, Reported(id, V)'
    PROVE  Reported(id, V)
  <1>1. Collect(cam)
    BY DEF CollectWorker
  <1>2. CASE ~up'
    <2>1. LoopEnds /\ Halted
      BY <1>2 DEF CollectWorker, Collect
    <2> QED BY <2>1, LoopEndsReports DEF Halted
  <1>3. CASE up'
    <2>1. \A other \in Cameras : returned'[other] \subseteq returned[other]
      BY <1>1, <1>3 DEF Collect, Halted, IInv, TypeOK
    <2>2. snapshots' = snapshots
      BY <1>3 DEF CollectWorker, loopVars, snapshotVars
    <2>3. CASE UNCHANGED <<results, completed>>
      BY <2>1, <2>2, <2>3, ReportFrame
    <2>4. CASE ~UNCHANGED <<results, completed>>
      <3> DEFINE mine(x) == IdOf[x.request] = id
                 chosen == CHOOSE x \in returned[cam] : mine(x)
      <3>1. /\ results' = WorkerResults(cam)
            /\ completed' = [i \in Ids |->
                  IF \E x \in returned[cam] : IdOf[x.request] = i /\ x.fresh
                  THEN LET x == CHOOSE x \in returned[cam] : IdOf[x.request] = i
                       IN  [verdict |-> x.verdict, until |-> DedupUntil(x.request)]
                  ELSE completed[i]]
        BY <1>3, <2>4 DEF CollectWorker, loopVars, commandVars
      <3>2. (\E x \in returned[cam] : mine(x)) => chosen \in returned[cam] /\ mine(chosen)
        OBVIOUS
      <3>3. \/ results'[id] = results[id]
            \/ (\E x \in returned[cam] : mine(x)) /\ results'[id] = chosen.verdict
        BY <3>1 DEF WorkerResults
      <3>4. \/ completed'[id] = completed[id]
            \/ (\E x \in returned[cam] : mine(x)) /\ completed'[id].verdict = chosen.verdict
        BY <3>1
      <3> HIDE DEF chosen
      <3>5. CASE results'[id] \in V \/ completed'[id].verdict \in V
        BY <3>2, <3>3, <3>4, <3>5 DEF Reported
      <3> QED BY <2>1, <2>2, <3>5 DEF Reported
    <2> QED BY <2>3, <2>4
  <1> QED BY <1>2, <1>3

LEMMA EnqueueReports ==
    ASSUME IInv, LInv, NEW V \in SUBSET Verdicts, NEW id \in Ids, EnqueueAndAdmit, up' \in BOOLEAN,
           Reported(id, V)'
    PROVE  Reported(id, V)
  <1>1. CASE ~up'
    <2>1. LoopEnds /\ Halted
      BY <1>1 DEF EnqueueAndAdmit, Halt, Admit, SaveByLoop, Saved, SaveFails
    <2> QED BY <2>1, LoopEndsReports DEF Halted
  <1>2. CASE up'
    <2>1. snapshots' = snapshots /\ returned' = returned
      BY <1>2 DEF EnqueueAndAdmit, Halt, Admit, SaveByLoop, Saved, SaveFails, Halted, workerVars, snapshotVars
    <2>2. /\ results'[id] \in {results[id], completed[id].verdict}
          /\ completed'[id] \in {completed[id], NotCompleted}
      BY <1>2 DEF EnqueueAndAdmit, Halt, Halted
    <2>3. NotCompleted.verdict \notin V
      BY NoVerdictOutside DEF NotCompleted
    <2>4. CASE results'[id] \in V \/ completed'[id].verdict \in V
      BY <2>2, <2>3, <2>4 DEF Reported
    <2> QED BY <2>1, <2>4 DEF Reported
  <1> QED BY <1>1, <1>2

LEMMA CollectSnapshotReports ==
    ASSUME IInv, LInv, NEW V \in SUBSET Verdicts, NEW id \in Ids, NEW t \in snapshots, CollectSnapshot(t),
           up' \in BOOLEAN, Reported(id, V)'
    PROVE  Reported(id, V)
  <1> USE DEF commandVars
  <1>1. CASE UNCHANGED <<vars, commandVars>> /\ snapshots' = snapshots \ {t}
    BY <1>1, ReportFrame DEF vars, workerVars
  <1>2. CASE /\ t.outcome = "ok" /\ Acknowledge({p[1] : p \in t.sent}) /\ up'
             /\ results'[id] \in {results[id], NoVerdict}
             /\ completed' = completed /\ snapshots' = snapshots \ {t}
    <2>1. returned' = returned
      BY <1>2 DEF Acknowledge, SaveByLoop, Saved, SaveFails, Halted, workerVars
    <2> QED BY <1>2, <2>1, ReportFrame
  <1>3. CASE Acknowledge({p[1] : p \in t.sent}) /\ ~up' /\ LoopEnds
    <2>1. up
      BY <1>3 DEF Acknowledge
    <2>2. Halted
      BY <1>3, <2>1 DEF Acknowledge, SaveByLoop, Saved, SaveFails
    <2> QED BY <1>3, <2>2, LoopEndsReports DEF Halted
  <1> QED BY <1>1, <1>2, <1>3 DEF CollectSnapshot

LEMMA ReportGrows ==
    ASSUME IInv, LInv, [RuntimeNext]_runtimeVars, NEW V \in SUBSET Verdicts,
           "unknown" \in V => PendingUnderWay, NEW id \in Ids, Reported(id, V)'
    PROVE  Reported(id, V) \/ (up' /\ mem'[id].state \in V)
  <1>1. up' \in BOOLEAN
    BY UpOrDown
  <1>2. CASE \/ AwaitConfig \/ UNCHANGED runtimeVars \/ Time \/ SnapshotsCollected
             \/ (\E cam \in Cameras : \E version \in Versions \cup {Unpaired} : EditConfig(cam, version))
             \/ (\E t \in snapshots : CollectPanic(t))
    <2>1. UNCHANGED <<results, completed, returned>> /\ snapshots' \subseteq snapshots
      BY <1>2 DEF AwaitConfig, runtimeVars, vars, Time, Tick, SnapshotsCollected, EditConfig,
                  CollectPanic, Finished, loopVars, snapshotVars, commandVars, workerVars
    <2> QED BY <2>1, ReportFrame
  <1>3. CASE Kill \/ ReloadFails
    <2>1. LoopEnds /\ Halted
      BY <1>3 DEF Kill, ReloadFails, Halt
    <2> QED BY <2>1, LoopEndsReports DEF Halted
  <1>4. CASE Reload
    <2>1. /\ UNCHANGED <<completed, returned>> /\ snapshots' \subseteq snapshots
          /\ results'[id] \in {results[id], NoVerdict}
      BY <1>4 DEF Reload, AbortWorkers
    <2> QED BY <2>1, ReportFrame
  <1>5. CASE \E cam \in Cameras : LaunchOne(cam)
    <2>1. /\ UNCHANGED <<results, completed, snapshots>>
          /\ \A other \in Cameras : returned'[other] \subseteq returned[other]
      BY <1>5 DEF LaunchOne, Launch, snapshotVars, IInv, TypeOK
    <2> QED BY <2>1, ReportFrame
  <1> QED BY <1>1, <1>2, <1>3, <1>4, <1>5, BootReports, WorkReports, NetworkReports, SendSnapshotReports,
             CancelOneReports, CollectWorkerReports, EnqueueReports, CollectSnapshotReports DEF RuntimeNext, Pass

\* The Server hears what a snapshot reports.
LEMMA AnswersGrow ==
    ASSUME [RuntimeNext]_runtimeVars, NEW id \in Ids, NEW v \in answered'[id]
    PROVE  v \in answered[id] \/ \E t \in snapshots : <<id, v>> \in t.sent
  <1>1. CASE Network
    BY <1>1 DEF Network, SnapshotServed, SnapshotLost, SnapshotPanics, Heard
  <1>2. CASE ~Network
    <2>1. answered' = answered
      BY <1>2 DEF RuntimeNext, Pass, runtimeVars, Boot, AwaitConfig, Kill, Time, EditConfig, Work, Reload,
                  ReloadFails, CancelOne, CollectSnapshot, CollectPanic, SnapshotsCollected, SendSnapshot,
                  CollectWorker, EnqueueAndAdmit, LaunchOne
    <2> QED BY <2>1
  <1> QED BY <1>1, <1>2

LEMMA ToldGrows ==
    ASSUME IInv, LInv, [RuntimeNext]_runtimeVars, NEW id \in Ids, Told(id)'
    PROVE  Told(id) \/ (up' /\ mem'[id].state \in Failed)
  <1>1. Failed \in SUBSET Verdicts /\ "unknown" \notin Failed
    BY DEF Verdicts, Failed
  <1>2. CASE Reported(id, Failed)'
    BY <1>1, <1>2, ReportGrows DEF Told
  <1>3. CASE answered'[id] \cap Failed # {}
    BY <1>3, AnswersGrow DEF Told, Reported
  <1> QED BY <1>2, <1>3 DEF Told

-----------------------------------------------------------------------------
(***************************************************************************)
(* Third part: what is reported as not executed stays blocked.             *)
(***************************************************************************)
LEMMA LapsedStays ==
    ASSUME NEW r \in Requests, now \in Nat, now' \in Nat, now <= now', Lapsed(r)
    PROVE  Lapsed(r)'
  <1>1. DedupUntil(r) \in Nat
    BY LedgerAssumption DEF DedupUntil
  <1>2. DedupUntil(r)' = DedupUntil(r)
    BY DEF DedupUntil
  <1> HIDE DEF DedupUntil
  <1> QED BY <1>1, <1>2 DEF Lapsed

LEMMA BlockedFrame ==
    ASSUME IInv, NEW r \in Requests, transmitted'[r] = 0, now' \in Nat, now <= now',
           Lapsed(r) \/ (Unsent(disk', r) /\ (up' => Refused(mem', r))),
           \A cam \in Cameras : WorkerBarred(cam, r)'
    PROVE  Blocked(r)'
  <1>1. Lapsed(r) => Lapsed(r)'
    BY LapsedStays DEF IInv, TypeOK
  <1>2. (Unsent(disk, r)' <=> Unsent(disk', r)) /\ (Refused(mem, r)' <=> Refused(mem', r))
    BY DEF Unsent, Spent, Refused, Holds
  <1> QED BY <1>1, <1>2 DEF Blocked

LEMMA BarredFrame ==
    ASSUME NEW r \in Requests, NEW cam \in Cameras, WorkerBarred(cam, r),
           pc'[cam] \in Engaged => /\ pc'[cam] = pc[cam] /\ queue'[cam] = queue[cam]
                                   /\ verdict'[cam] = verdict[cam]
                                   /\ aborted[cam] => aborted'[cam],
           pc[cam] = "begin" /\ Current(cam) = r /\ aborted[cam] /\ ~Queued(mem, r) => ~Queued(mem', r)
    PROVE  WorkerBarred(cam, r)'
  <1> SUFFICES ASSUME pc'[cam] \in Engaged, Current(cam)' = r
               PROVE  /\ ~After(cam)'
                      /\ pc'[cam] = "begin" => aborted'[cam] /\ ~Queued(mem', r)
    BY DEF WorkerBarred, Queued, Holds
  <1>1. Current(cam) = r /\ pc'[cam] = pc[cam] /\ verdict'[cam] = verdict[cam]
    BY DEF Current
  <1>2. After(cam)' <=> After(cam)
    BY <1>1 DEF After
  <1> QED BY <1>1, <1>2 DEF WorkerBarred

LEMMA RefusedUnsent ==
    ASSUME NEW ledger, NEW r, Refused(ledger, r)
    PROVE  Unsent(ledger, r) /\ ~Queued(ledger, r)
  BY DEF Refused, Unsent, Queued, Spent, Failed

\* Nothing is written; the workers that go on are those that were there.
LEMMA QuietBlocked ==
    ASSUME IInv, NEW r \in Requests, Blocked(r), UNCHANGED <<up, mem, disk, transmitted>>,
           now' \in Nat, now <= now',
           \A cam \in Cameras : pc'[cam] \in Engaged =>
                /\ pc'[cam] = pc[cam] /\ queue'[cam] = queue[cam] /\ verdict'[cam] = verdict[cam]
                /\ aborted[cam] => aborted'[cam]
    PROVE  Blocked(r)'
  <1>1. \A cam \in Cameras : WorkerBarred(cam, r)'
    BY BarredFrame DEF Blocked
  <1>2. transmitted'[r] = 0 /\ (Lapsed(r) \/ (Unsent(disk', r) /\ (up' => Refused(mem', r))))
    BY DEF Blocked
  <1> QED BY <1>1, <1>2, BlockedFrame

LEMMA HaltedBlocked ==
    ASSUME IInv, NEW r \in Requests, Blocked(r), Halted, UNCHANGED <<now, transmitted>>,
           Lapsed(r) \/ Unsent(disk', r)
    PROVE  Blocked(r)'
  <1>1. ~up' /\ \A cam \in Cameras : pc'[cam] = "idle"
    BY DEF Halted
  <1>2. \A cam \in Cameras : WorkerBarred(cam, r)'
    BY <1>1 DEF WorkerBarred, Engaged, Running
  <1>3. now' \in Nat /\ now <= now' /\ transmitted'[r] = 0
    BY DEF IInv, TypeOK, Blocked
  <1> QED BY <1>1, <1>2, <1>3, BlockedFrame

\* The loop changes the ledger; no worker moves.
LEMMA LoopWritesBlocked ==
    ASSUME IInv, NEW r \in Requests, Blocked(r), up, UNCHANGED <<now, transmitted, workerVars>>,
           NEW ledger, Keeps(mem, ledger, now), mem' = ledger, disk' \in {disk, ledger},
           \A cam \in Cameras : pc[cam] = "begin" /\ Current(cam) = r /\ aborted[cam] =>
                (Queued(ledger, r) => Queued(mem, r))
    PROVE  Blocked(r)'
  <1>1. now' \in Nat /\ now <= now' /\ transmitted'[r] = 0
    BY DEF IInv, TypeOK, Blocked
  <1>2. Lapsed(r) \/ (Unsent(disk', r) /\ Refused(mem', r))
    BY RefusedUnsent DEF Blocked, Keeps, Lapsed
  <1>3. \A cam \in Cameras : WorkerBarred(cam, r)'
    BY BarredFrame DEF Blocked, workerVars
  <1> QED BY <1>1, <1>2, <1>3, BlockedFrame

LEMMA LoopSavesBlocked ==
    ASSUME IInv, NEW r \in Requests, Blocked(r), up, UNCHANGED <<now, transmitted>>,
           NEW ledger, Keeps(mem, ledger, now), SaveByLoop(ledger),
           \A cam \in Cameras : pc[cam] = "begin" /\ Current(cam) = r /\ aborted[cam] =>
                (Queued(ledger, r) => Queued(mem, r))
    PROVE  Blocked(r)'
  <1>1. CASE Saved(ledger)
    BY <1>1, LoopWritesBlocked DEF Saved
  <1>2. CASE SaveFails(ledger)
    <2>1. Lapsed(r) \/ Unsent(disk', r)
      BY <1>2, RefusedUnsent DEF SaveFails, Blocked, Keeps, Lapsed
    <2> QED BY <1>2, <2>1, HaltedBlocked DEF SaveFails
  <1> QED BY <1>1, <1>2 DEF SaveByLoop

LEMMA BootBlocked ==
    ASSUME IInv, NEW r \in Requests, Blocked(r), Boot
    PROVE  Blocked(r)'
  <1> DEFINE opened == Opened(disk, now)
  <1>1. ~up /\ Open /\ UNCHANGED <<now, transmitted>> /\ now \in Nat
    BY DEF Boot, Open, IInv, TypeOK
  <1>2. Unsent(disk, r) => Lapsed(r) \/ Refused(opened, r)
    BY <1>1, OpenedCalm, LedgersReady DEF Lapsed
  <1> HIDE DEF opened
  <1>3. disk' \in {disk, opened} /\ (up' => mem' = opened /\ disk' = opened)
    BY <1>1 DEF Open, SaveFails, Halted, opened
  <1>4. Lapsed(r) \/ (Unsent(disk', r) /\ (up' => Refused(mem', r)))
    BY <1>2, <1>3, RefusedUnsent DEF Blocked
  <1>5. \A cam \in Cameras : pc'[cam] = "idle"
    BY <1>1 DEF Open, SaveFails, Halted, workerVars, IInv
  <1>6. \A cam \in Cameras : WorkerBarred(cam, r)'
    BY <1>5 DEF WorkerBarred, Engaged, Running
  <1> QED BY <1>1, <1>4, <1>6, BlockedFrame DEF Blocked

LEMMA CancelOneBlocked ==
    ASSUME IInv, NEW r \in Requests, Blocked(r), NEW s \in Requests, CancelOne(s)
    PROVE  Blocked(r)'
  <1> DEFINE id == IdOf[s]
             v == CancelVerdict(mem[id].state)
             after == Completed(mem, id, v)
  <1>1. up /\ Cancel(s) /\ UNCHANGED <<now, transmitted>> /\ now \in Nat
    BY DEF CancelOne, Cancel, IInv, TypeOK
  <1>2. CASE mem[id].state # "absent" /\ SaveByLoop(after)
    <2>1. id \in Ids /\ mem \in Ledgers /\ mem[id].state \in States
      BY LedgerAssumption, LedgersReady, LedgerRecords
    <2>2. /\ v \in States /\ v # "absent"
          /\ mem[id].state \in {"pending", "succeeded", "unknown"} => v \in {"pending", "succeeded", "unknown"}
          /\ mem[id].state \in Failed => v \in Failed
      BY <1>2, <2>1 DEF CancelVerdict, States, Verdicts, Failed
    <2>3. Calm(mem, after)
      BY <1>2, <2>1, CanceledCalm
    <2>4. after = [mem EXCEPT ![id].state = v]
      BY DEF Completed
    <2> HIDE DEF v, after
    <2>5. Keeps(mem, after, now)
      <3>1. ASSUME NEW q \in Requests, IdOf[q] = id
            PROVE  /\ Spent(mem, q) => v \in {"pending", "succeeded", "unknown"}
                   /\ Refused(mem, q) => v \in Failed
        BY <2>2, <3>1 DEF Spent, Refused
      <3> HIDE DEF id
      <3> QED BY <1>1, <1>2, <2>1, <2>2, <2>4, <3>1, ChangedKeepsDecisions
    <2> QED BY <1>1, <1>2, <2>3, <2>5, LoopSavesBlocked DEF Calm
  <1>3. CASE Halted /\ disk' = disk
    BY <1>1, <1>3, HaltedBlocked DEF Blocked
  <1> QED BY <1>1, <1>2, <1>3 DEF Cancel

LEMMA CollectSnapshotBlocked ==
    ASSUME IInv, LInv, NEW r \in Requests, Blocked(r), NEW t \in snapshots, CollectSnapshot(t)
    PROVE  Blocked(r)'
  <1> DEFINE ids == {p[1] : p \in t.sent}
             after == Acknowledged(mem, ids, now)
  <1>1. now \in Nat
    BY DEF IInv, TypeOK
  <1>2. CASE UNCHANGED vars
    BY <1>1, <1>2, QuietBlocked DEF vars, workerVars
  <1>3. CASE Acknowledge(ids)
    <2>1. up /\ UNCHANGED <<now, transmitted>>
      BY <1>3 DEF Acknowledge
    <2>2. t \in Snapshot
      BY DEF LInv, RuntimeTypeOK
    <2>3. ids \in SUBSET Ids
      BY <2>2 DEF Snapshot
    <2>4. Calm(mem, after) /\ Keeps(mem, after, now)
      BY <1>1, <2>3, LedgersReady, AcknowledgedCalm, AcknowledgedKeepsDecisions
    <2> HIDE DEF ids, after
    <2>5. CASE SaveByLoop(after)
      BY <2>1, <2>4, <2>5, LoopSavesBlocked DEF Calm
    <2>6. CASE UNCHANGED <<up, mem, disk, workerVars>>
      BY <1>1, <2>1, <2>6, QuietBlocked DEF workerVars
    <2>7. CASE Halted /\ disk' = disk
      BY <2>1, <2>7, HaltedBlocked DEF Blocked
    <2> QED BY <1>3, <2>5, <2>6, <2>7 DEF Acknowledge, after
  <1> QED BY <1>2, <1>3 DEF CollectSnapshot

\* Nothing is admitted for the camera of an aborted worker.
LEMMA EnqueueBlocked ==
    ASSUME IInv, LInv, NEW r \in Requests, Blocked(r), EnqueueAndAdmit
    PROVE  Blocked(r)'
  <1> DEFINE after == Admitted(mem, Batch, now)
             news == Additions(mem, Batch, now)
  <1>1. (Halt \/ Admit(Batch)) /\ up /\ UNCHANGED <<now, transmitted>> /\ now \in Nat
    BY DEF EnqueueAndAdmit, Halt, Admit, IInv, TypeOK
  <1>2. CASE Halted /\ disk' = disk
    BY <1>1, <1>2, HaltedBlocked DEF Blocked
  <1>3. CASE SaveByLoop(after) /\ Admit(Batch)
    <2>1. Batch \in SUBSET Requests
      BY DEF Batch, LInv, RuntimeTypeOK
    <2>2. \A s \in Requests \ news : Queued(after, s) => Queued(mem, s)
      BY <2>1, LedgersReady, AdmittedCalm
    <2>3. \A s \in news : s \in Batch
      BY DEF Additions
    <2>4. Keeps(mem, after, now)
      BY <1>1, AdmittedKeepsDecisions
    <2> HIDE DEF after, news
    <2>5. ASSUME NEW cam \in Cameras, pc[cam] = "begin", Current(cam) = r, aborted[cam]
          PROVE  Queued(after, r) => Queued(mem, r)
      <3>1. CameraOf[r] = cam
        BY <2>5, AfterEngaged DEF Before
      <3>2. r \notin news
        BY <1>3, <2>3, <2>5, <3>1 DEF Admit
      <3> QED BY <2>2, <3>2
    <2> QED BY <1>1, <1>3, <2>4, <2>5, LoopSavesBlocked
  <1>4. CASE mem' = Prune(mem, now) /\ UNCHANGED <<up, disk, workerVars>>
    <2>1. Calm(mem, Prune(mem, now)) /\ Keeps(mem, Prune(mem, now), now)
      BY <1>1, PruneCalm, PruneKeepsDecisions
    <2> QED BY <1>1, <1>4, <2>1, LoopWritesBlocked DEF Calm
  <1> QED BY <1>1, <1>2, <1>3, <1>4 DEF Halt, Admit

LEMMA CollectWorkerBlocked ==
    ASSUME IInv, NEW r \in Requests, Blocked(r), NEW cam \in Cameras, CollectWorker(cam)
    PROVE  Blocked(r)'
  <1>1. Collect(cam) /\ UNCHANGED <<now, disk, transmitted>> /\ now \in Nat
    BY DEF CollectWorker, Collect, IInv, TypeOK
  <1>2. CASE Halted
    BY <1>1, <1>2, HaltedBlocked DEF Blocked
  <1>3. CASE ~Halted
    <2>1. UNCHANGED <<up, mem, verdict>>
      BY <1>1, <1>3 DEF Collect
    <2>2. \A other \in Cameras : pc'[other] \in Engaged =>
                /\ pc'[other] = pc[other] /\ queue'[other] = queue[other]
                /\ aborted[other] => aborted'[other]
      BY <1>1, <1>3 DEF Collect, IInv, TypeOK, Engaged, Running
    <2> QED BY <1>1, <2>1, <2>2, QuietBlocked
  <1> QED BY <1>2, <1>3

LEMMA LaunchOneBlocked ==
    ASSUME IInv, NEW r \in Requests, Blocked(r), NEW cam \in Cameras, LaunchOne(cam)
    PROVE  Blocked(r)'
  <1>1. UNCHANGED <<now, up, mem, disk, verdict, transmitted>> /\ now \in Nat
    BY DEF LaunchOne, Launch, IInv, TypeOK
  <1>2. \A other \in Cameras : pc'[other] \in Engaged =>
              /\ pc'[other] = pc[other] /\ queue'[other] = queue[other]
              /\ aborted[other] => aborted'[other]
    BY DEF LaunchOne, Launch, IInv, TypeOK, Engaged, Running
  <1> QED BY <1>1, <1>2, QuietBlocked

-----------------------------------------------------------------------------
(***************************************************************************)
(* Third part: steps of the workers.                                       *)
(***************************************************************************)
\* One worker moves; nothing is written or sent.
LEMMA WorkerMovesBlocked ==
    ASSUME IInv, NEW r \in Requests, Blocked(r), NEW cam \in Cameras,
           UNCHANGED <<now, up, mem, disk, aborted>>, transmitted'[r] = transmitted[r],
           \A other \in Cameras \ {cam} :
                pc'[other] = pc[other] /\ queue'[other] = queue[other] /\ verdict'[other] = verdict[other],
           WorkerBarred(cam, r)'
    PROVE  Blocked(r)'
  <1>1. \A other \in Cameras \ {cam} : WorkerBarred(other, r)'
    BY BarredFrame DEF Blocked
  <1>2. \A other \in Cameras : WorkerBarred(other, r)'
    BY <1>1
  <1>3. now' \in Nat /\ now <= now' /\ transmitted'[r] = 0
    BY DEF IInv, TypeOK, Blocked
  <1>4. Lapsed(r) \/ (Unsent(disk', r) /\ (up' => Refused(mem', r)))
    BY DEF Blocked
  <1> QED BY <1>2, <1>3, <1>4, BlockedFrame

\* One worker writes.
LEMMA WorkerWritesBlocked ==
    ASSUME IInv, NEW r \in Requests, Blocked(r), NEW cam \in Cameras, up,
           UNCHANGED <<now, up, aborted, transmitted>>, disk' \in {disk, mem'},
           Lapsed(r) \/ Refused(mem', r), Queued(mem', r) => Queued(mem, r),
           \A other \in Cameras \ {cam} :
                pc'[other] = pc[other] /\ queue'[other] = queue[other] /\ verdict'[other] = verdict[other],
           WorkerBarred(cam, r)'
    PROVE  Blocked(r)'
  <1>1. \A other \in Cameras \ {cam} : WorkerBarred(other, r)'
    BY BarredFrame DEF Blocked
  <1>2. \A other \in Cameras : WorkerBarred(other, r)'
    BY <1>1
  <1>3. now' \in Nat /\ now <= now' /\ transmitted'[r] = 0
    BY DEF IInv, TypeOK, Blocked
  <1>4. Lapsed(r) \/ (Unsent(disk', r) /\ Refused(mem', r))
    BY RefusedUnsent DEF Blocked
  <1> QED BY <1>2, <1>3, <1>4, BlockedFrame

LEMMA MovesBlocked ==
    ASSUME IInv, NEW r \in Requests, Blocked(r), NEW cam \in Cameras,
           Finish(cam) \/ Replay(cam) \/ Answer(cam)
    PROVE  Blocked(r)'
  <1>1. /\ UNCHANGED <<now, up, mem, disk, aborted, transmitted>>
        /\ \A other \in Cameras \ {cam} :
            pc'[other] = pc[other] /\ queue'[other] = queue[other] /\ verdict'[other] = verdict[other]
    BY DEF Finish, Replay, Answer, Step, Return, IInv, TypeOK
  <1>2. CASE Finish(cam) \/ Replay(cam)
    <2>1. pc'[cam] \in {"done", "failed", "replay", "deadline"}
      BY <1>2 DEF Finish, Replay, Step, IInv, TypeOK
    <2>2. WorkerBarred(cam, r)'
      BY <2>1 DEF WorkerBarred, After, Engaged, Running
    <2> QED BY <1>1, <2>2, WorkerMovesBlocked
  <1>3. CASE Answer(cam)
    <2>1. pc[cam] = "reply" /\ queue' = queue
      BY <1>3 DEF Answer, Step
    <2>2. Current(cam) # r
      BY <2>1 DEF Blocked, WorkerBarred, After, Engaged, Running
    <2>3. WorkerBarred(cam, r)'
      BY <2>1, <2>2 DEF WorkerBarred, Current
    <2> QED BY <1>1, <2>3, WorkerMovesBlocked
  <1> QED BY <1>2, <1>3

LEMMA DropBlocked ==
    ASSUME IInv, NEW r \in Requests, Blocked(r), NEW cam \in Cameras, DropAborted(cam)
    PROVE  Blocked(r)'
  <1>1. UNCHANGED <<now, up, mem, disk, transmitted>> /\ now \in Nat
    BY DEF DropAborted, IInv, TypeOK
  <1>2. \A other \in Cameras : pc'[other] \in Engaged =>
              /\ pc'[other] = pc[other] /\ queue'[other] = queue[other]
              /\ verdict'[other] = verdict[other] /\ aborted'[other] = aborted[other]
    BY DEF DropAborted, IInv, TypeOK, Engaged, Running
  <1> QED BY <1>1, <1>2, QuietBlocked

\* Before its deadline a command that is blocked has been refused while it waited,
\* which only an aborted worker can find.
LEMMA CheckDeadlineBlocked ==
    ASSUME IInv, NEW r \in Requests, Blocked(r), NEW cam \in Cameras, CheckDeadline(cam)
    PROVE  Blocked(r)'
  <1>1. /\ UNCHANGED <<now, up, mem, disk, aborted, transmitted, queue>> /\ up /\ pc[cam] = "deadline"
        /\ \/ pc'[cam] = "begin" /\ ExpiresAt[Current(cam)] > now
           \/ pc'[cam] = "complete" /\ verdict'[cam] \in Failed
    BY DEF CheckDeadline, Step, IInv, TypeOK, Failed
  <1>2. \A other \in Cameras \ {cam} :
            pc'[other] = pc[other] /\ queue'[other] = queue[other] /\ verdict'[other] = verdict[other]
    BY DEF CheckDeadline, Step, IInv, TypeOK
  <1>3. Current(cam)' = Current(cam) /\ Before(cam)
    BY <1>1 DEF Current, Before
  <1>4. ASSUME pc'[cam] = "begin", Current(cam) = r PROVE aborted[cam] /\ ~Queued(mem, r)
    <2>1. ExpiresAt[r] > now
      BY <1>1, <1>4
    <2>2. ~Lapsed(r)
      <3>1. ExpiresAt[r] \in Nat /\ DedupGrace \in Nat /\ now \in Nat
        BY LedgerAssumption DEF IInv, TypeOK
      <3> QED BY <2>1, <3>1 DEF Lapsed, DedupUntil
    <2>3. Refused(mem, r)
      BY <1>1, <2>2 DEF Blocked
    <2>4. ~aborted[cam] => Unsettled(mem[IdOf[r]])
      BY <1>3, <1>4, AfterEngaged
    <2>5. aborted[cam] \in BOOLEAN
      BY DEF IInv, TypeOK
    <2> QED BY <2>3, <2>4, <2>5, RefusedUnsent DEF Refused, Unsettled, Failed
  <1>5. WorkerBarred(cam, r)'
    <2>1. Queued(mem, r)' <=> Queued(mem, r)
      BY <1>1 DEF Queued, Holds
    <2> QED BY <1>1, <1>3, <1>4, <2>1 DEF WorkerBarred, After
  <1> QED BY <1>1, <1>2, <1>5, WorkerMovesBlocked

LEMMA TransmitBlocked ==
    ASSUME IInv, NEW r \in Requests, Blocked(r), NEW cam \in Cameras, Transmit(cam)
    PROVE  Blocked(r)'
  <1>1. UNCHANGED <<now, up, mem, disk, aborted, queue>> /\ pc[cam] = "send"
    BY DEF Transmit, Step
  <1>2. \A other \in Cameras \ {cam} :
            pc'[other] = pc[other] /\ queue'[other] = queue[other] /\ verdict'[other] = verdict[other]
    BY DEF Transmit, Step, IInv, TypeOK
  <1>3. Current(cam) # r
    BY <1>1 DEF Blocked, WorkerBarred, After, Engaged, Running
  <1>4. transmitted'[r] = transmitted[r]
    BY <1>3 DEF Transmit, IInv, TypeOK
  <1>5. WorkerBarred(cam, r)'
    BY <1>1, <1>3 DEF WorkerBarred, Current
  <1> QED BY <1>1, <1>2, <1>4, <1>5, WorkerMovesBlocked

LEMMA BeginBlocked ==
    ASSUME IInv, NEW r \in Requests, Blocked(r), NEW cam \in Cameras, Begin(cam)
    PROVE  Blocked(r)'
  <1> DEFINE c == Current(cam)
             id == IdOf[c]
  <1>1. up /\ UNCHANGED <<now, up, transmitted, queue, verdict, aborted>> /\ Before(cam) /\ pc[cam] = "begin"
    BY DEF Begin, Before
  <1>2. c \in Requests /\ id \in Ids /\ mem \in Ledgers /\ Bound(mem[id], c)
    BY <1>1, AfterEngaged, LedgersReady
  <1>3. \A other \in Cameras \ {cam} :
            pc'[other] = pc[other] /\ queue'[other] = queue[other] /\ verdict'[other] = verdict[other]
    BY DEF Begin, IInv, TypeOK
  <1>4. CASE mem[id].state # "queued"
    <2>1. UNCHANGED <<mem, disk>> /\ pc'[cam] = "failed"
      BY <1>4 DEF Begin, IInv, TypeOK
    <2>2. WorkerBarred(cam, r)'
      BY <2>1 DEF WorkerBarred, Engaged, Running
    <2> QED BY <1>1, <1>3, <2>1, <2>2, WorkerMovesBlocked
  <1>5. CASE mem[id].state = "queued"
    <2>1. /\ mem' = [mem EXCEPT ![id].state = "pending"] /\ disk' \in {disk, mem'}
          /\ pc'[cam] \in {"failed", "send"}
      BY <1>5 DEF Begin, Begun, IInv, TypeOK
    <2>2. mem[id].request = c
      BY <1>2, <1>5 DEF Bound
    <2>3. c # r
      BY <1>1, <1>5, <2>2 DEF Blocked, WorkerBarred, Queued, Holds, Engaged, Running
    <2>4. Current(cam)' = c
      BY <1>1 DEF Current
    <2>5. WorkerBarred(cam, r)'
      BY <2>3, <2>4 DEF WorkerBarred
    <2> HIDE DEF c
    <2>6. /\ mem'[id].request = c
          /\ \A other \in Ids : other # id => mem'[other] = mem[other]
      <3>1. mem[id] \in Record
        BY <1>2, LedgerRecords
      <3> HIDE DEF id
      <3> QED BY <1>2, <2>1, <2>2, <3>1 DEF Ledgers, Record
    <2>7. IdOf[r] \in Ids
      BY LedgerAssumption
    <2>8. (Queued(mem', r) => Queued(mem, r)) /\ (Refused(mem, r) => Refused(mem', r))
      BY <2>2, <2>3, <2>6, <2>7 DEF Queued, Refused, Holds
    <2>9. Lapsed(r) \/ Refused(mem', r)
      BY <1>1, <2>8 DEF Blocked
    <2> QED BY <1>1, <1>3, <2>1, <2>5, <2>8, <2>9, WorkerWritesBlocked
  <1> QED BY <1>4, <1>5

LEMMA CompleteBlocked ==
    ASSUME IInv, NEW r \in Requests, Blocked(r), NEW cam \in Cameras, Complete(cam)
    PROVE  Blocked(r)'
  <1> DEFINE c == Current(cam)
             id == IdOf[c]
             v == verdict[cam]
  <1>1. up /\ UNCHANGED <<now, up, transmitted, aborted>> /\ pc[cam] = "complete" /\ pc[cam] \in Engaged
    BY DEF Complete, Engaged, Running
  <1>2. c \in Requests /\ id \in Ids /\ mem \in Ledgers /\ Bound(mem[id], c)
    BY <1>1, CurrentCommand
  <1>3. \A other \in Cameras \ {cam} :
            pc'[other] = pc[other] /\ queue'[other] = queue[other] /\ verdict'[other] = verdict[other]
    BY DEF Complete, Return, IInv, TypeOK
  <1>4. pc'[cam] \in {"replay", "failed"}
    BY DEF Complete, IInv, TypeOK
  <1>5. WorkerBarred(cam, r)'
    BY <1>4 DEF WorkerBarred, Engaged, Running
  <1>6. CASE mem[id].state = "absent"
    <2>1. UNCHANGED <<mem, disk>>
      BY <1>6 DEF Complete
    <2> QED BY <1>1, <1>3, <1>5, <2>1, WorkerMovesBlocked
  <1>7. CASE mem[id].state # "absent"
    <2>1. mem' = [mem EXCEPT ![id].state = v] /\ disk' \in {disk, mem'}
      BY <1>7 DEF Complete, Completed
    <2>2. mem[id].request = c
      BY <1>2, <1>7 DEF Bound
    <2>3. v \in Verdicts /\ v # "queued" /\ v # "absent"
      BY DEF IInv, TypeOK, Verdicts, Failed
    <2>4. c = r => v \in Failed
      BY <1>1 DEF Blocked, WorkerBarred, After
    <2> HIDE DEF c, v
    <2>5. /\ mem'[id].request = c /\ mem'[id].state = v
          /\ \A other \in Ids : other # id => mem'[other] = mem[other]
      <3>1. mem[id] \in Record
        BY <1>2, LedgerRecords
      <3> HIDE DEF id
      <3> QED BY <1>2, <2>1, <2>2, <3>1 DEF Ledgers, Record
    <2>6. IdOf[r] \in Ids
      BY LedgerAssumption
    <2>7. Queued(mem', r) => Queued(mem, r)
      BY <2>3, <2>5, <2>6 DEF Queued, Holds
    <2>8. Refused(mem, r) => Refused(mem', r)
      <3>1. CASE IdOf[r] # id
        BY <2>5, <2>6, <3>1 DEF Refused, Holds
      <3>2. CASE IdOf[r] = id
        BY <2>2, <2>3, <2>4, <2>5, <3>2 DEF Refused, Holds
      <3> QED BY <3>1, <3>2
    <2>9. Lapsed(r) \/ Refused(mem', r)
      BY <1>1, <2>8 DEF Blocked
    <2> QED BY <1>1, <1>3, <1>5, <2>1, <2>7, <2>9, WorkerWritesBlocked
  <1> QED BY <1>6, <1>7

LEMMA BlockedStays ==
    ASSUME IInv, LInv, [RuntimeNext]_runtimeVars, NEW r \in Requests, Blocked(r)
    PROVE  Blocked(r)'
  <1>1. now \in Nat
    BY DEF IInv, TypeOK
  <1>2. CASE \/ AwaitConfig \/ UNCHANGED runtimeVars \/ Time \/ SnapshotsCollected
             \/ (\E cam \in Cameras : \E version \in Versions \cup {Unpaired} : EditConfig(cam, version))
             \/ Network \/ Reload \/ (\E t \in snapshots : CollectPanic(t))
             \/ (\E cam \in Cameras : SendSnapshot(cam))
    <2>1. /\ UNCHANGED <<up, mem, disk, transmitted, pc, queue, verdict>>
          /\ now' \in {now, now + 1}
      BY <1>2 DEF AwaitConfig, runtimeVars, vars, Time, Tick, SnapshotsCollected, EditConfig, workerVars,
                  Network, SnapshotServed, SnapshotLost, SnapshotPanics, Reload, AbortWorkers,
                  CollectPanic, SendSnapshot
    <2>2. \A cam \in Cameras : aborted[cam] => aborted'[cam]
      BY <1>2 DEF AwaitConfig, runtimeVars, vars, Time, Tick, SnapshotsCollected, EditConfig, workerVars,
                  Network, SnapshotServed, SnapshotLost, SnapshotPanics, Reload, AbortWorkers,
                  CollectPanic, SendSnapshot
    <2> QED BY <1>1, <2>1, <2>2, QuietBlocked
  <1>3. CASE Kill \/ ReloadFails
    BY <1>3, HaltedBlocked DEF Kill, ReloadFails, Halt, Blocked
  <1>4. CASE \E cam \in Cameras : Work(cam)
    BY <1>4, MovesBlocked, DropBlocked, CheckDeadlineBlocked, TransmitBlocked, BeginBlocked,
       CompleteBlocked DEF Work, WorkerStep
  <1> QED BY <1>2, <1>3, <1>4, BootBlocked, CancelOneBlocked, CollectSnapshotBlocked,
             CollectWorkerBlocked, EnqueueBlocked, LaunchOneBlocked DEF RuntimeNext, Pass

-----------------------------------------------------------------------------
(***************************************************************************)
(* The theorem.                                                            *)
(***************************************************************************)
\* A refusal in the ledger blocks its command: the file agrees unless the window
\* has closed, and no worker is past the point where it could send.
LEMMA RefusalBlocks ==
    ASSUME OnceNamed, IInv', HInv', DInv', up', NEW r \in Requests, mem'[IdOf[r]].state \in Failed
    PROVE  Blocked(r)'
  <1> DEFINE id == IdOf[r]
  <1>1. id \in Ids /\ mem' \in Ledgers /\ now' \in Nat
    BY LedgerAssumption DEF IInv, TypeOK
  <1>2. Refused(mem', r)
    <2>1. mem'[id].state # "absent"
      BY DEF Failed
    <2>2. id \in Present(mem')
      BY <1>1, <2>1 DEF Present
    <2>3. IdOf[mem'[id].request] = id
      BY <2>2 DEF DInv, Loadable
    <2>4. mem'[id].request \in Requests
      BY <1>1, <2>1, LedgerRecords
    <2>5. mem'[id].request = r
      BY <2>3, <2>4 DEF OnceNamed
    <2> QED BY <2>1, <2>5 DEF Refused, Holds
  <1>3. Unsent(mem', r) /\ ~Queued(mem', r)
    BY <1>2, RefusedUnsent
  <1>4. transmitted'[r] = 0
    BY <1>3 DEF HInv, Honest
  <1>5. Lapsed(r)' \/ Unsent(disk', r)
    <2>1. Holds(disk', r)
      BY <1>2 DEF HInv, Mirrors, Refused
    <2>2. ~Lapsed(r)' => (Spent(disk', r) => Spent(mem', r))
      BY DEF DInv, Keeps, Lapsed, DedupUntil
    <2> QED BY <1>3, <2>1, <2>2 DEF Unsent
  <1>6. ASSUME NEW cam \in Cameras PROVE WorkerBarred(cam, r)'
    <2> SUFFICES ASSUME pc'[cam] \in Engaged, Current(cam)' = r
                 PROVE  ~After(cam)' /\ aborted'[cam]
      BY <1>3 DEF WorkerBarred, Queued, Holds
    <2>1. WorkerHonest(cam)' /\ WorkerSound(cam)'
      BY DEF HInv, IInv
    <2>2. ~After(cam)'
      BY <1>3, <2>1 DEF WorkerHonest, Unsent, Spent, Holds
    <2>3. aborted'[cam] \in BOOLEAN
      BY DEF IInv, TypeOK
    <2>4. ~aborted'[cam] => Unsettled(mem'[id])
      BY <2>1 DEF WorkerSound
    <2> QED BY <2>2, <2>3, <2>4 DEF Unsettled, Failed
  <1>7. (Unsent(disk, r)' <=> Unsent(disk', r)) /\ (Refused(mem, r)' <=> Refused(mem', r))
    BY DEF Unsent, Spent, Refused, Holds
  <1> QED BY <1>2, <1>4, <1>5, <1>6, <1>7 DEF Blocked

LEMMA ReportsStayTrue ==
    ASSUME OnceNamed, IInv, LInv, BInv, [RuntimeNext]_runtimeVars, IInv', HInv', DInv'
    PROVE  BInv'
  <1> SUFFICES ASSUME NEW r \in Requests, Told(IdOf[r])' PROVE Blocked(r)'
    BY DEF BInv
  <1>1. IdOf[r] \in Ids
    BY LedgerAssumption
  <1>2. Told(IdOf[r]) \/ (up' /\ mem'[IdOf[r]].state \in Failed)
    BY <1>1, ToldGrows
  <1> QED BY <1>2, BlockedStays, RefusalBlocks DEF BInv

LEMMA NothingToldYet == RuntimeInit => HInv /\ SInv /\ BInv
  <1> SUFFICES ASSUME RuntimeInit PROVE HInv /\ SInv /\ BInv
    OBVIOUS
  <1>1. /\ disk = EmptyLedger /\ ~up /\ snapshots = {} /\ \A cam \in Cameras : pc[cam] = "idle"
        /\ \A r \in Requests : transmitted[r] = 0
    BY DEF RuntimeInit, Init
  <1>2. \A cam \in Cameras : WorkerHonest(cam)
    BY <1>1 DEF WorkerHonest, Before, After
  <1>3. HInv /\ SInv
    BY <1>1, <1>2 DEF HInv, SInv, Honest
  <1>4. ASSUME NEW r \in Requests PROVE ~Told(IdOf[r])
    <2>1. IdOf[r] \in Ids
      BY LedgerAssumption
    <2>2. NoVerdict \notin Failed
      BY DEF NoVerdict, Failed
    <2>3. /\ results[IdOf[r]] = NoVerdict /\ completed[IdOf[r]].verdict = NoVerdict
          /\ answered[IdOf[r]] = {} /\ snapshots = {} /\ \A cam \in Cameras : returned[cam] = {}
      BY <2>1 DEF RuntimeInit, Init, NotCompleted
    <2> QED BY <2>2, <2>3 DEF Told, Reported
  <1> QED BY <1>3, <1>4 DEF BInv

\* A command the Server was told has not been executed was not executed and never
\* will be, if no two commands share an id and the Server sends no command again
\* once it has a result for it: through crashes and their recovery, failed writes,
\* aborted workers that write late, cancellations, redelivery, lost and late
\* responses (open, admit, replay, begin, complete, cancel and acknowledge of the
\* ledger, execute_commands, and the receipts run keeps of them).
THEOREM ReportedFailuresHold ==
    ASSUME OnceNamed, ~RedeliverAnswered
    PROVE  RuntimeSpec => []FailedHeardNeverExecuted
  <1> DEFINE Basis == IInv /\ LInv /\ EInv /\ DInv
             Honesty == HInv /\ SInv /\ BInv
  <1>1. RuntimeSpec => []Basis
    <2>1. IInv /\ LInv /\ EInv /\ [RuntimeNext]_runtimeVars => EInv'
      BY EvidenceStays
    <2> QED BY <2>1, NothingSentYet, LoopInvariant, LoopImplementsExecution, DecisionsHold, PTL
            DEF RuntimeSpec
  <1>2. Basis /\ Basis' /\ Honesty /\ [RuntimeNext]_runtimeVars => Honesty'
    BY HonestyStays, SuppliesStay, ReportsStayTrue
  <1>3. Basis /\ Honesty => FailedHeardNeverExecuted
    BY DEF BInv, Told, Blocked, FailedHeardNeverExecuted
  <1> QED BY <1>1, <1>2, <1>3, NothingToldYet, PTL DEF RuntimeSpec

-----------------------------------------------------------------------------
(***************************************************************************)
(* Reports and the durable result.  Only an aborted worker can write a     *)
(* verdict over another one, and only an edit has workers aborted: until   *)
(* then the ledger holds every verdict that is on its way to the Server,   *)
(* or has forgotten the command because the Server confirmed it.           *)
(***************************************************************************)
\* The configuration is as the loop has loaded it, and no worker was aborted.
Undisturbed == loaded = config /\ toCancel = {} /\ \A cam \in Cameras : ~aborted[cam]

ReportsAgree ==
    \A id \in Ids : \A v \in Verdicts :
        Reported(id, {v}) => mem[id].state = v \/ (mem[id].state = "absent" /\ answered[id] # {})

\* A command on its way into the ledger is not acknowledged there, nor forgotten
\* while a verdict on it is under way.
SupplyUnconfirmed ==
    \A r \in Requests : Supplied(r) =>
        /\ ~mem[IdOf[r]].acked
        /\ Reported(IdOf[r], Verdicts) => mem[IdOf[r]].state # "absent"

Settled == Undisturbed /\ PendingUnderWay /\ ReportsAgree /\ SupplyUnconfirmed

RInv ==
    /\ up /\ edits = 0 => Settled
    /\ ~up => \A cam \in Cameras : returned[cam] = {}

\* What a step does to a record: nothing; it begins or decides a command; it
\* acknowledges or forgets one the Server has an answer for; it admits one.
RecordMoves(id) ==
    \/ mem'[id] = mem[id]
    \/ /\ mem[id].state \in {"queued", "pending"}
       /\ mem'[id].state \in Verdicts \cup {"pending"}
       /\ mem'[id].acked = mem[id].acked
    \/ /\ mem[id].state \in Verdicts /\ answered[id] # {}
       /\ mem'[id].state \in {mem[id].state, "absent"}
       /\ \A r \in Requests : IdOf[r] = id => ~Supplied(r)'
    \/ /\ mem[id].state = "absent" /\ mem'[id].state = "queued" /\ ~mem'[id].acked
       /\ \E r \in Requests : IdOf[r] = id /\ Supplied(r)

LEMMA PrunedRecord ==
    ASSUME NEW ledger, NEW t, NEW id \in Ids
    PROVE  \/ Prune(ledger, t)[id] = ledger[id]
           \/ Prune(ledger, t)[id] = NoRecord /\ ledger[id].acked
  BY DEF Prune, Prunable

LEMMA AcknowledgedRecord ==
    ASSUME NEW ledger \in Ledgers, NEW t, NEW ids, NEW id \in Ids
    PROVE  LET after == Acknowledged(ledger, ids, t)[id]
           IN  \/ after = ledger[id]
               \/ /\ ledger[id].acked \/ id \in ids \cap Present(ledger)
                  /\ after.state \in {ledger[id].state, "absent"}
  <1> DEFINE marked == [i \in Ids |-> IF i \in ids \cap Present(ledger)
                                      THEN [ledger[i] EXCEPT !.acked = TRUE]
                                      ELSE ledger[i]]
  <1>1. ledger[id] \in Record
    BY LedgerRecords
  <1>2. \/ marked[id] = ledger[id]
        \/ /\ id \in ids \cap Present(ledger)
           /\ marked[id].state = ledger[id].state
    BY <1>1 DEF Record
  <1>3. Acknowledged(ledger, ids, t) = Prune(marked, t)
    BY DEF Acknowledged
  <1> HIDE DEF marked
  <1>4. \/ Prune(marked, t)[id] = marked[id]
        \/ Prune(marked, t)[id] = NoRecord /\ marked[id].acked
    BY PrunedRecord
  <1> QED BY <1>2, <1>3, <1>4 DEF NoRecord

LEMMA AdmittedRecord ==
    ASSUME NEW ledger, NEW t, NEW batch, NEW id \in Ids
    PROVE  LET after == Admitted(ledger, batch, t)[id]
           IN  \/ after = Prune(ledger, t)[id]
               \/ /\ Prune(ledger, t)[id].state = "absent"
                  /\ after.state = "queued" /\ ~after.acked
                  /\ \E r \in batch : IdOf[r] = id
  <1>1. CASE \E r \in Additions(ledger, batch, t) : IdOf[r] = id
    BY <1>1 DEF Admitted, Additions
  <1>2. CASE ~\E r \in Additions(ledger, batch, t) : IdOf[r] = id
    BY <1>2 DEF Admitted
  <1> QED BY <1>1, <1>2

-----------------------------------------------------------------------------
(***************************************************************************)
(* Steps of a running process whose configuration is not edited.           *)
(***************************************************************************)
Remains == up /\ up' /\ edits' = 0 /\ [RuntimeNext]_runtimeVars

LEMMA EditsCount ==
    ASSUME LInv, [RuntimeNext]_runtimeVars, edits' = 0
    PROVE  edits = 0 /\ config' = config
  <1>1. edits \in Nat
    BY DEF LInv, RuntimeTypeOK
  <1>2. CASE \E cam \in Cameras : \E version \in Versions \cup {Unpaired} : EditConfig(cam, version)
    BY <1>1, <1>2 DEF EditConfig
  <1>3. CASE UNCHANGED environmentVars
    BY <1>3 DEF environmentVars
  <1>4. CASE Boot \/ Kill \/ Network
    BY <1>4 DEF Boot, Kill, Network, SnapshotServed, SnapshotLost, SnapshotPanics, environmentVars
  <1> QED BY <1>2, <1>3, <1>4 DEF RuntimeNext, Pass, runtimeVars, AwaitConfig, Time, Work, Reload,
             ReloadFails, CancelOne, CollectSnapshot, CollectPanic, SnapshotsCollected, SendSnapshot,
             CollectWorker, EnqueueAndAdmit, LaunchOne

\* What such a step may be.
LEMMA RemainingSteps ==
    ASSUME LInv, Undisturbed, Remains
    PROVE  \/ UNCHANGED runtimeVars \/ Time \/ Network \/ Reload \/ SnapshotsCollected
           \/ (\E cam \in Cameras : Work(cam) \/ SendSnapshot(cam) \/ CollectWorker(cam) \/ LaunchOne(cam))
           \/ (\E t \in snapshots : CollectSnapshot(t) \/ CollectPanic(t))
           \/ EnqueueAndAdmit
  <1>1. ~Boot /\ ~AwaitConfig /\ ~Kill /\ ~ReloadFails
    BY DEF Remains, Boot, Open, AwaitConfig, Kill, ReloadFails, Halt, Halted
  <1>2. \A r \in Requests : ~CancelOne(r)
    BY DEF CancelOne, Undisturbed
  <1>3. ~\E cam \in Cameras : \E version \in Versions \cup {Unpaired} : EditConfig(cam, version)
    <2>1. edits = 0 /\ edits' = 0
      BY EditsCount DEF Remains
    <2> QED BY <2>1 DEF EditConfig
  <1> QED BY <1>1, <1>2, <1>3 DEF Remains, RuntimeNext, Pass

LEMMA UndisturbedStays ==
    ASSUME IInv, LInv, Undisturbed, Remains
    PROVE  Undisturbed'
  <1>1. config' = config
    BY EditsCount DEF Remains
  <1>2. \A cam \in Cameras : aborted[cam] \in BOOLEAN
    BY DEF IInv, TypeOK
  <1>3. CASE Reload
    <2> DEFINE changed == {cam \in Cameras : config[cam] # loaded[cam]}
    <2>1. changed = {}
      BY DEF Undisturbed
    <2>2. loaded' = config /\ AbortWorkers(Interrupted(changed)) /\ toCancel' \subseteq Canceled(changed)
      BY <1>3 DEF Reload
    <2>3. Interrupted(changed) = {} /\ Canceled(changed) = {}
      BY <2>1 DEF Interrupted, Canceled
    <2> HIDE DEF changed
    <2>4. \A cam \in Cameras : aborted'[cam] = aborted[cam]
      BY <1>2, <2>2, <2>3 DEF AbortWorkers
    <2> QED BY <1>1, <2>2, <2>3, <2>4 DEF Undisturbed
  <1>4. CASE ~Reload
    <2>1. /\ UNCHANGED <<loaded, toCancel>>
          /\ \A cam \in Cameras : aborted'[cam] \in {aborted[cam], FALSE}
      <3>1. CASE UNCHANGED runtimeVars \/ Time \/ Network \/ SnapshotsCollected
        BY <3>1 DEF runtimeVars, Time, Tick, Network, SnapshotServed, SnapshotLost, SnapshotPanics,
                    SnapshotsCollected, vars, workerVars, loopVars, passVars
      <3>2. CASE \E cam \in Cameras : Work(cam)
        BY <3>2 DEF Work, WorkerStep, Finish, Replay, CheckDeadline, Begin, Transmit, Answer, Complete,
                    DropAborted, loopVars, passVars, IInv, TypeOK
      <3>3. CASE \E cam \in Cameras : SendSnapshot(cam) \/ LaunchOne(cam)
        BY <3>3 DEF SendSnapshot, LaunchOne, Launch, vars, workerVars
      <3>4. CASE \E cam \in Cameras : CollectWorker(cam)
        BY <3>4 DEF CollectWorker, Collect, Halted, Remains, loopVars, passVars, IInv, TypeOK
      <3>5. CASE \E t \in snapshots : CollectSnapshot(t) \/ CollectPanic(t)
        BY <3>5 DEF CollectSnapshot, CollectPanic, Acknowledge, SaveByLoop, Saved, SaveFails, Halted,
                    Remains, vars, workerVars, passVars
      <3>6. CASE EnqueueAndAdmit
        BY <3>6 DEF EnqueueAndAdmit, Halt, Admit, SaveByLoop, Saved, SaveFails, Halted, Remains, workerVars
      <3> QED BY <1>4, <3>1, <3>2, <3>3, <3>4, <3>5, <3>6, RemainingSteps
    <2> QED BY <1>1, <1>2, <2>1 DEF Undisturbed
  <1> QED BY <1>3, <1>4

LEMMA SupplyGrows ==
    ASSUME ~RedeliverAnswered, LInv, SInv, Undisturbed, Remains, NEW r \in Requests, Supplied(r)'
    PROVE  Supplied(r) \/ (answered[IdOf[r]] = {} /\ mem' = mem)
  <1> DEFINE Calmly == /\ incoming' \in {incoming, << >>}
                       /\ \A t \in snapshots' : t.outcome = "ok" => t \in snapshots
                       /\ \A cam \in Cameras : revision'[cam] \in Nat /\ revision[cam] <= revision'[cam]
  <1>1. Calmly => Supplied(r)
    BY SupplyShrinks
  <1>2. revision \in [Cameras -> Nat]
    BY DEF LInv, RuntimeTypeOK
  <1>3. CASE UNCHANGED <<incoming, revision>> /\ snapshots' \subseteq snapshots
    BY <1>1, <1>2, <1>3
  <1>4. CASE UNCHANGED runtimeVars \/ Time \/ SnapshotsCollected \/ EnqueueAndAdmit
             \/ (\E cam \in Cameras : Work(cam) \/ CollectWorker(cam) \/ LaunchOne(cam))
    <2>1. /\ incoming' \in {incoming, << >>} /\ revision' = revision
          /\ snapshots' = snapshots
      BY <1>4 DEF runtimeVars, Time, SnapshotsCollected, EnqueueAndAdmit, Halt, Halted, Work, CollectWorker,
                  Collect, LaunchOne, loopVars, passVars, snapshotVars, Remains
    <2> QED BY <1>1, <1>2, <2>1
  <1>5. CASE Reload \/ \E t \in snapshots : CollectPanic(t)
    <2>1. incoming' = incoming /\ snapshots' \subseteq snapshots
      BY <1>5 DEF Reload, CollectPanic, Finished
    <2>2. \A cam \in Cameras : revision'[cam] \in {revision[cam], revision[cam] + 1}
      BY <1>2, <1>5 DEF Reload, CollectPanic
    <2>3. \A cam \in Cameras : revision'[cam] \in Nat /\ revision[cam] <= revision'[cam]
      BY <1>2, <2>2
    <2> QED BY <1>1, <2>1, <2>3
  <1>6. CASE \E cam \in Cameras : SendSnapshot(cam)
    <2>1. PICK cam \in Cameras : SendSnapshot(cam)
      BY <1>6
    <2>2. UNCHANGED <<incoming, revision>> /\ \A t \in snapshots' : t \in snapshots \/ t.outcome = "waiting"
      BY <2>1 DEF SendSnapshot
    <2> QED BY <1>1, <1>2, <2>2
  <1>7. CASE \E t \in snapshots : CollectSnapshot(t)
    <2>1. PICK t \in snapshots : CollectSnapshot(t)
      BY <1>7
    <2>2. CASE UNCHANGED passVars /\ snapshots' = snapshots \ {t}
      BY <1>3, <2>2 DEF passVars
    <2>3. CASE /\ Fits(t) /\ t.outcome = "ok" /\ phase = "snapshots"
               /\ incoming' = incoming \o t.commands /\ snapshots' = snapshots \ {t}
               /\ revision' = revision /\ sending' = sending \ {t.camera}
      BY <2>3, SupplyTaken
    <2> QED BY <2>1, <2>2, <2>3 DEF CollectSnapshot, Fits, Remains
  <1>8. CASE Network
    <2>1. PICK t \in snapshots : SnapshotServed(t) \/ SnapshotLost(t) \/ SnapshotPanics(t)
      BY <1>8 DEF Network
    <2>2. CASE SnapshotServed(t)
      BY <2>2, ServedFresh DEF SnapshotServed, vars
    <2>3. CASE SnapshotLost(t) \/ SnapshotPanics(t)
      <3>1. UNCHANGED <<incoming, revision>>
        BY <2>3 DEF SnapshotLost, SnapshotPanics, passVars
      <3>2. PICK outcome \in {"error", "panicked"} : TaskEnds(t, outcome, << >>)
        BY <2>3 DEF SnapshotLost, SnapshotPanics
      <3>3. t \in Snapshot
        BY DEF LInv, RuntimeTypeOK
      <3>4. [t EXCEPT !.outcome = outcome, !.commands = << >>].outcome = outcome
        BY <3>3 DEF Snapshot
      <3>5. \A u \in snapshots' : u.outcome = "ok" => u \in snapshots
        BY <3>2, <3>4 DEF TaskEnds
      <3> QED BY <1>1, <1>2, <3>1, <3>5
    <2> QED BY <2>1, <2>2, <2>3
  <1> QED BY <1>4, <1>5, <1>6, <1>7, <1>8, RemainingSteps

\* The loop's own calls on the ledger.
LEMMA TakenMoves ==
    ASSUME IInv, LInv, EInv, SInv, Settled, Remains, NEW id \in Ids,
           NEW t \in snapshots, CollectSnapshot(t)
    PROVE  RecordMoves(id)
  <1> DEFINE ids == {p[1] : p \in t.sent}
  <1>1. CASE UNCHANGED vars
    BY <1>1 DEF vars, RecordMoves
  <1>2. CASE /\ Fits(t) /\ t.outcome = "ok" /\ Acknowledge(ids)
             /\ incoming' = incoming \o t.commands /\ snapshots' = snapshots \ {t}
             /\ revision' = revision /\ sending' = sending \ {t.camera} /\ phase = "snapshots"
    <2>1. Acknowledgeable(mem, ids) /\ mem' \in {mem, Acknowledged(mem, ids, now)}
      BY <1>2 DEF Acknowledge, SaveByLoop, Saved, SaveFails, Halted, Remains
    <2>2. mem \in Ledgers /\ Sound(mem, now, transmitted) /\ Evident(mem, transmitted, answered)
      BY LedgersReady DEF Remains, EInv
    <2>3. CASE mem'[id] = mem[id]
      BY <2>3 DEF RecordMoves
    <2>4. CASE /\ mem[id].acked \/ id \in ids \cap Present(mem)
               /\ mem'[id].state \in {mem[id].state, "absent"}
      <3>1. mem[id].state \in Verdicts
        BY <2>1, <2>2, <2>4 DEF Sound, AckedDecided, Acknowledgeable
      <3>2. answered[id] # {}
        BY <1>2, <2>2, <2>4 DEF Evident, EInv
      <3>3. ASSUME NEW r \in Requests, IdOf[r] = id, Supplied(r)' PROVE FALSE
        <4>1. Supplied(r) /\ IdOf[r] \notin ids
          BY <1>2, <3>3, SupplyTaken
        <4>2. ~mem[id].acked
          BY <3>3, <4>1 DEF Settled, SupplyUnconfirmed
        <4> QED BY <2>4, <3>3, <4>1, <4>2
      <3> QED BY <2>4, <3>1, <3>2, <3>3 DEF RecordMoves
    <2> HIDE DEF ids
    <2> QED BY <2>1, <2>2, <2>3, <2>4, AcknowledgedRecord
  <1> QED BY <1>1, <1>2 DEF CollectSnapshot, Fits, Remains

LEMMA EnqueuedMoves ==
    ASSUME ~RedeliverAnswered, IInv, LInv, EInv, SInv, Settled, Remains, NEW id \in Ids, EnqueueAndAdmit
    PROVE  RecordMoves(id)
  <1>1. Admit(Batch)
    BY DEF EnqueueAndAdmit, Halt, Halted, Remains
  <1>2. mem' \in {Admitted(mem, Batch, now), Prune(mem, now)}
    BY <1>1 DEF Admit, SaveByLoop, Saved, SaveFails, Halted, Remains
  <1>3. Sound(mem, now, transmitted) /\ Evident(mem, transmitted, answered)
    BY LedgersReady DEF Remains, EInv
  <1>4. ASSUME NEW r \in Requests, IdOf[r] = id, Supplied(r) PROVE ~mem[id].acked
    BY <1>4 DEF Settled, SupplyUnconfirmed
  <1>5. CASE mem'[id] = mem[id]
    BY <1>5 DEF RecordMoves
  <1>6. CASE mem'[id] = NoRecord /\ mem[id].acked
    <2>1. mem[id].state \in Verdicts /\ answered[id] # {} /\ mem'[id].state = "absent"
      BY <1>3, <1>6 DEF Sound, AckedDecided, Evident, NoRecord
    <2>2. \A r \in Requests : IdOf[r] = id => ~Supplied(r)'
      BY <1>4, <1>6, <2>1, SupplyGrows DEF Settled
    <2> QED BY <2>1, <2>2 DEF RecordMoves
  <1>7. CASE /\ Prune(mem, now)[id].state = "absent" /\ mem'[id].state = "queued" /\ ~mem'[id].acked
             /\ \E r \in Batch : IdOf[r] = id
    <2>1. PICK r \in Batch : IdOf[r] = id
      BY <1>7
    <2>2. r \in Requests /\ Supplied(r)
      BY DEF Batch, Supplied, LInv, RuntimeTypeOK
    <2>3. ~mem[id].acked
      BY <1>4, <2>1, <2>2
    <2>4. Prune(mem, now)[id] = mem[id]
      BY <2>3, PrunedRecord
    <2> QED BY <1>7, <2>1, <2>2, <2>4 DEF RecordMoves
  <1> QED BY <1>2, <1>5, <1>6, <1>7, PrunedRecord, AdmittedRecord

\* A worker that was not aborted decides what is undecided.
LEMMA WorkMoves ==
    ASSUME IInv, Undisturbed, NEW id \in Ids, NEW cam \in Cameras, Work(cam)
    PROVE  RecordMoves(id)
  <1>1. CASE Finish(cam) \/ Replay(cam) \/ CheckDeadline(cam) \/ Transmit(cam) \/ Answer(cam) \/ DropAborted(cam)
    BY <1>1 DEF Finish, Replay, CheckDeadline, Transmit, Answer, DropAborted, RecordMoves
  <1>2. CASE Begin(cam) \/ Complete(cam)
    <2> DEFINE c == IdOf[Current(cam)]
    <2>1. pc[cam] \in Engaged
      BY <1>2 DEF Begin, Complete, Engaged, Running
    <2>2. c \in Ids /\ mem \in Ledgers /\ mem[c].state \in {"queued", "pending"}
      BY <2>1, CurrentCommand DEF Undisturbed, Unsettled
    <2>3. mem[c] \in Record
      BY <2>2, LedgerRecords
    <2>4. PICK v \in Verdicts \cup {"pending"} : mem' = mem \/ mem' = [mem EXCEPT ![c].state = v]
      <3>1. verdict[cam] \in Verdicts
        BY DEF IInv, TypeOK
      <3> QED BY <1>2, <3>1 DEF Begin, Complete, Begun, Completed
    <2> HIDE DEF c
    <2>5. \/ mem'[id] = mem[id]
          \/ id = c /\ mem'[id].state = v /\ mem'[id].acked = mem[id].acked
      BY <2>2, <2>3, <2>4 DEF Ledgers, Record
    <2> QED BY <2>2, <2>4, <2>5 DEF RecordMoves
  <1> QED BY <1>1, <1>2 DEF Work, WorkerStep

LEMMA RecordsMove ==
    ASSUME ~RedeliverAnswered, IInv, LInv, EInv, SInv, Settled, Remains, NEW id \in Ids
    PROVE  RecordMoves(id)
  <1>1. CASE UNCHANGED runtimeVars \/ Time \/ Network \/ Reload \/ SnapshotsCollected
             \/ (\E cam \in Cameras : SendSnapshot(cam) \/ CollectWorker(cam) \/ LaunchOne(cam))
             \/ (\E t \in snapshots : CollectPanic(t))
    <2>1. mem' = mem
      BY <1>1 DEF runtimeVars, Time, Tick, Network, SnapshotServed, SnapshotLost, SnapshotPanics, Reload,
                  AbortWorkers, SnapshotsCollected, SendSnapshot, CollectWorker, Collect, Halted, Remains,
                  LaunchOne, Launch, CollectPanic, vars
    <2> QED BY <2>1 DEF RecordMoves
  <1> QED BY <1>1, RemainingSteps, TakenMoves, EnqueuedMoves, WorkMoves DEF Settled

\* What has been begun stays in the hands of its worker until it is decided.
LEMMA UnderWayFrame ==
    ASSUME NEW id, UnderWay(id),
           \A cam \in Cameras : pc[cam] \in {"failed", "send", "reply", "complete"} =>
                pc'[cam] = pc[cam] /\ queue'[cam] = queue[cam]
    PROVE  UnderWay(id)'
  BY DEF UnderWay, Current, IdsOf

LEMMA BegunByWorker ==
    ASSUME IInv, Undisturbed, NEW id \in Ids, mem[id].state = "pending" => UnderWay(id),
           NEW cam \in Cameras, Work(cam), mem'[id].state = "pending"
    PROVE  UnderWay(id)'
  <1> DEFINE mine == id \in IdsOf(cam) /\ IdOf[Current(cam)] = id
  <1>1. \A other \in Cameras \ {cam} : pc'[other] = pc[other] /\ queue'[other] = queue[other]
    BY DEF Work, WorkerStep, Finish, Replay, CheckDeadline, Begin, Transmit, Answer, Complete, DropAborted,
           Step, Return, IInv, TypeOK
  <1>2. ASSUME UnderWay(id), mine => pc[cam] \notin {"send", "reply", "complete"}, pc[cam] # "failed"
        PROVE  UnderWay(id)'
    BY <1>1, <1>2 DEF UnderWay, Current, IdsOf
  <1>3. ASSUME mine, pc'[cam] \in {"failed", "send", "reply", "complete"}, queue'[cam] = queue[cam]
        PROVE  UnderWay(id)'
    BY <1>3 DEF UnderWay, Current, IdsOf
  <1>4. ~DropAborted(cam)
    BY DEF DropAborted, Zombie, Undisturbed
  <1>5. CASE Finish(cam) \/ Replay(cam) \/ CheckDeadline(cam)
    <2>1. mem' = mem /\ pc[cam] \in {"replay", "deadline"}
      BY <1>5 DEF Finish, Replay, CheckDeadline, Step
    <2> QED BY <1>2, <2>1
  <1>6. CASE Transmit(cam) \/ Answer(cam)
    <2>1. mem' = mem /\ pc[cam] \in {"send", "reply"} /\ queue' = queue /\ pc'[cam] \in {"reply", "complete"}
      BY <1>6 DEF Transmit, Answer, Step, IInv, TypeOK
    <2> QED BY <1>2, <1>3, <2>1
  <1>7. CASE Begin(cam) \/ Complete(cam)
    <2> DEFINE c == IdOf[Current(cam)]
    <2>1. pc[cam] \in {"begin", "complete"} /\ pc[cam] \in Engaged
      BY <1>7 DEF Begin, Complete, Engaged, Running
    <2>2. c \in Ids /\ mem \in Ledgers /\ c \in IdsOf(cam)
      BY <2>1, CurrentCommand DEF IdsOf
    <2>3. CASE c # id
      <3>1. mem'[id] = mem[id]
        <4> HIDE DEF c
        <4>1. PICK v : mem' = mem \/ mem' = [mem EXCEPT ![c].state = v]
          BY <1>7 DEF Begin, Complete, Begun, Completed, c
        <4> QED BY <2>2, <2>3, <4>1 DEF Ledgers
      <3> QED BY <1>2, <2>1, <2>3, <3>1
    <2>4. CASE c = id
      <3>1. CASE Begin(cam)
        <4>1. pc'[cam] \in {"failed", "send"} /\ queue' = queue
          BY <3>1 DEF Begin, IInv, TypeOK
        <4> QED BY <1>3, <2>2, <2>4, <4>1
      <3>2. CASE Complete(cam)
        <4>1. mem[id].state # "absent"
          BY <2>1, <2>4, CurrentCommand DEF Undisturbed, Unsettled
        <4>2. mem' = Completed(mem, id, verdict[cam])
          BY <2>4, <3>2, <4>1 DEF Complete
        <4>3. mem[id] \in Record /\ verdict[cam] \in Verdicts
          BY <2>2, LedgerRecords DEF IInv, TypeOK
        <4>4. mem'[id].state = verdict[cam]
          BY <2>2, <4>2, <4>3 DEF Completed, Ledgers, Record
        <4> QED BY <4>3, <4>4 DEF Verdicts, Failed
      <3> QED BY <1>7, <3>1, <3>2
    <2> QED BY <2>3, <2>4
  <1> QED BY <1>4, <1>5, <1>6, <1>7 DEF Work, WorkerStep

LEMMA PendingStays ==
    ASSUME ~RedeliverAnswered, IInv, LInv, EInv, SInv, Settled, Remains
    PROVE  PendingUnderWay'
  <1> SUFFICES ASSUME NEW id \in Ids, mem'[id].state = "pending" PROVE UnderWay(id)'
    BY DEF PendingUnderWay
  <1>1. mem[id].state = "pending" => UnderWay(id)
    BY DEF Settled, PendingUnderWay
  <1>2. CASE \E cam \in Cameras : Work(cam)
    BY <1>1, <1>2, BegunByWorker DEF Settled
  <1>3. CASE ~\E cam \in Cameras : Work(cam)
    <2>1. mem[id].state = "pending"
      <3>1. CASE \E t \in snapshots : CollectSnapshot(t)
        <4>1. mem' = mem \/ \E ids : mem' = Acknowledged(mem, ids, now)
          BY <3>1 DEF CollectSnapshot, Acknowledge, SaveByLoop, Saved, SaveFails, Halted, Remains, vars
        <4> QED BY <4>1, AcknowledgedRecord, LedgersReady
      <3>2. CASE EnqueueAndAdmit
        <4>1. mem' \in {Admitted(mem, Batch, now), Prune(mem, now)}
          BY <3>2 DEF EnqueueAndAdmit, Halt, Admit, SaveByLoop, Saved, SaveFails, Halted, Remains
        <4> QED BY <4>1, AdmittedRecord, PrunedRecord DEF NoRecord
      <3>3. CASE UNCHANGED mem
        BY <3>3
      <3> QED BY <1>3, <3>1, <3>2, <3>3, RemainingSteps
              DEF runtimeVars, Time, Tick, Network, SnapshotServed, SnapshotLost, SnapshotPanics, Reload,
                  AbortWorkers, SnapshotsCollected, SendSnapshot, CollectWorker, Collect, Halted, Remains,
                  LaunchOne, Launch, CollectPanic, vars, Settled
    <2>2. \A cam \in Cameras : pc[cam] \in {"failed", "send", "reply", "complete"} =>
                pc'[cam] = pc[cam] /\ queue'[cam] = queue[cam]
      <3>1. CASE UNCHANGED <<pc, queue>>
        BY <3>1
      <3>2. CASE \E cam \in Cameras : LaunchOne(cam) \/ CollectWorker(cam)
        BY <3>2 DEF LaunchOne, Launch, CollectWorker, Collect, Halted, Remains, IInv, TypeOK
      <3>3. CASE EnqueueAndAdmit \/ \E t \in snapshots : CollectSnapshot(t)
        BY <3>1, <3>3 DEF EnqueueAndAdmit, Halt, Admit, CollectSnapshot, Acknowledge, SaveByLoop, Saved,
                   SaveFails, Halted, Remains, workerVars, vars
      <3> QED BY <1>3, <3>1, <3>2, <3>3, RemainingSteps
              DEF runtimeVars, Time, Tick, Network, SnapshotServed, SnapshotLost, SnapshotPanics, Reload,
                  AbortWorkers, SnapshotsCollected, SendSnapshot, CollectPanic, vars, workerVars, Settled
    <2> QED BY <1>1, <2>1, <2>2, UnderWayFrame
  <1> QED BY <1>2, <1>3

-----------------------------------------------------------------------------
(***************************************************************************)
(* The loop stays settled.                                                 *)
(***************************************************************************)
LEMMA AnswersRemain ==
    ASSUME [RuntimeNext]_runtimeVars, NEW id \in Ids, answered[id] # {}
    PROVE  answered'[id] # {}
  <1>1. CASE Network
    BY <1>1 DEF Network, SnapshotServed, SnapshotLost, SnapshotPanics, Heard
  <1>2. CASE ~Network
    <2>1. answered' = answered
      BY <1>2 DEF RuntimeNext, Pass, runtimeVars, Boot, AwaitConfig, Kill, Time, EditConfig, Work, Reload,
                  ReloadFails, CancelOne, CollectSnapshot, CollectPanic, SnapshotsCollected, SendSnapshot,
                  CollectWorker, EnqueueAndAdmit, LaunchOne
    <2> QED BY <2>1
  <1> QED BY <1>1, <1>2

LEMMA AgreementStays ==
    ASSUME ~RedeliverAnswered, IInv, LInv, EInv, SInv, Settled, Remains
    PROVE  ReportsAgree'
  <1> SUFFICES ASSUME NEW id \in Ids, NEW v \in Verdicts, Reported(id, {v})', mem'[id].state # v
               PROVE  mem'[id].state = "absent" /\ answered'[id] # {}
    BY DEF ReportsAgree
  <1>1. Reported(id, {v})
    BY ReportGrows DEF Settled, Remains
  <1>2. mem[id].state = v \/ (mem[id].state = "absent" /\ answered[id] # {})
    BY <1>1 DEF Settled, ReportsAgree
  <1>3. RecordMoves(id)
    BY RecordsMove
  <1>4. v \notin {"queued", "pending", "absent"}
    BY DEF Verdicts, Failed
  <1>5. Reported(id, Verdicts)
    BY <1>1 DEF Reported
  <1>6. answered[id] # {} => answered'[id] # {}
    BY AnswersRemain DEF Remains
  <1>7. \A r \in Requests : IdOf[r] = id /\ Supplied(r) => mem[id].state # "absent"
    BY <1>5 DEF Settled, SupplyUnconfirmed
  <1> QED BY <1>2, <1>3, <1>4, <1>6, <1>7 DEF RecordMoves

LEMMA UnconfirmedStays ==
    ASSUME ~RedeliverAnswered, IInv, LInv, EInv, SInv, Settled, Remains
    PROVE  SupplyUnconfirmed'
  <1> SUFFICES ASSUME NEW r \in Requests, Supplied(r)'
               PROVE  /\ ~mem'[IdOf[r]].acked
                      /\ Reported(IdOf[r], Verdicts)' => mem'[IdOf[r]].state # "absent"
    BY DEF SupplyUnconfirmed
  <1> DEFINE id == IdOf[r]
  <1>1. id \in Ids
    BY LedgerAssumption
  <1>2. Reported(id, Verdicts)' => Reported(id, Verdicts) \/ mem'[id].state \in Verdicts
    BY <1>1, ReportGrows DEF Settled, Remains
  <1>3. "absent" \notin Verdicts /\ "pending" # "absent" /\ "queued" # "absent"
    BY DEF Verdicts, Failed
  <1>4. CASE Supplied(r)
    <2>1. ~mem[id].acked /\ (Reported(id, Verdicts) => mem[id].state # "absent")
      BY <1>4 DEF Settled, SupplyUnconfirmed
    <2>2. RecordMoves(id)
      BY <1>1, RecordsMove
    <2> HIDE DEF id
    <2>3. id = IdOf[r]
      BY DEF id
    <2> QED BY <1>2, <1>3, <2>1, <2>2, <2>3 DEF RecordMoves
  <1>5. CASE answered[id] = {} /\ mem' = mem
    <2>1. ~mem[id].acked
      BY <1>1, <1>5 DEF EInv, Evident, Remains
    <2>2. Reported(id, Verdicts) => mem[id].state # "absent"
      <3> SUFFICES ASSUME Reported(id, Verdicts) PROVE mem[id].state # "absent"
        OBVIOUS
      <3>1. PICK v \in Verdicts : Reported(id, {v})
        BY DEF Reported
      <3>2. mem[id].state = v
        BY <1>1, <1>5, <3>1 DEF Settled, ReportsAgree
      <3> QED BY <1>3, <3>2
    <2> QED BY <1>2, <1>3, <1>5, <2>1, <2>2
  <1> QED BY <1>4, <1>5, SupplyGrows DEF Settled

\* A process that starts reports what its ledger holds.
LEMMA BootSettles ==
    ASSUME IInv, LInv, RInv, Boot, up'
    PROVE  Settled'
  <1>1. /\ ~up /\ mem' = Opened(disk, now) /\ UNCHANGED workerVars /\ LoopStarts("select", config, mem')
        /\ config' = config
    BY DEF Boot, Open, SaveFails, Halted
  <1>2. \A cam \in Cameras : ~aborted[cam] /\ returned[cam] = {}
    BY <1>1 DEF IInv, WorkerSound, RInv
  <1>3. Undisturbed'
    BY <1>1, <1>2 DEF Undisturbed, LoopStarts, workerVars
  <1>4. PendingUnderWay'
    <2> SUFFICES ASSUME NEW id \in Ids, mem'[id].state = "pending" PROVE FALSE
      BY DEF PendingUnderWay
    <2>1. Recover(disk)[id].state # "pending"
      <3>1. disk[id] \in Record
        BY LedgersReady, LedgerRecords
      <3> QED BY <3>1 DEF Recover, Record
    <2> QED BY <1>1, <2>1, PrunedRecord DEF Opened, NoRecord
  <1>5. ReportsAgree'
    <2> SUFFICES ASSUME NEW id \in Ids, NEW v \in Verdicts, mem'[id].state # v PROVE ~Reported(id, {v})'
      BY DEF ReportsAgree
    <2>1. /\ results'[id] \in {mem'[id].state, NoVerdict}
          /\ completed'[id].verdict \in {mem'[id].state, NoVerdict}
          /\ snapshots' = {} /\ \A cam \in Cameras : returned'[cam] = {}
      BY <1>1, <1>2 DEF LoopStarts, NotCompleted, workerVars
    <2> QED BY <2>1, NoVerdictOutside DEF Reported
  <1>6. SupplyUnconfirmed'
    BY <1>1 DEF SupplyUnconfirmed, Supplied, LoopStarts
  <1> QED BY <1>3, <1>4, <1>5, <1>6 DEF Settled

\* Without a process only a start changes the process; one that ends leaves nothing.
LEMMA StepsDown ==
    ASSUME IInv, LInv, [RuntimeNext]_runtimeVars, ~up
    PROVE  Boot \/ UNCHANGED <<up, returned>>
  <1>1. phase = "down" /\ \A cam \in Cameras : pc[cam] = "idle"
    BY DEF LInv, RuntimeTypeOK, IInv
  <1>2. ~Pass
    BY <1>1 DEF Pass, Reload, ReloadFails, CancelOne, CollectSnapshot, CollectPanic, SnapshotsCollected,
                SendSnapshot, CollectWorker, EnqueueAndAdmit, LaunchOne
  <1>3. ~Kill /\ \A cam \in Cameras : ~Work(cam)
    BY <1>1 DEF Kill, Halt, Work, WorkerStep, Finish, Replay, CheckDeadline, Begin, Transmit, Answer,
                Complete, DropAborted, Zombie, Step, Running
  <1> QED BY <1>2, <1>3 DEF RuntimeNext, AwaitConfig, Time, Tick, EditConfig, Network, SnapshotServed,
             SnapshotLost, SnapshotPanics, runtimeVars, vars, workerVars

LEMMA StepsEnding ==
    ASSUME [RuntimeNext]_runtimeVars, up, ~up'
    PROVE  Halted
  <1>1. CASE Boot \/ Kill \/ Pass
    BY <1>1 DEF Boot, Open, Kill, Halt, Pass, Reload, AbortWorkers, ReloadFails, CancelOne, Cancel,
                CollectSnapshot, Acknowledge, CollectPanic, SnapshotsCollected, SendSnapshot, CollectWorker,
                Collect, EnqueueAndAdmit, Admit, LaunchOne, Launch, SaveByLoop, Saved, SaveFails, vars
  <1> QED BY <1>1 DEF RuntimeNext, AwaitConfig, Time, Tick, EditConfig, Network, SnapshotServed,
             SnapshotLost, SnapshotPanics, runtimeVars, vars, Work, WorkerStep, Finish, Replay, CheckDeadline,
             Begin, Transmit, Answer, Complete, DropAborted, Step

LEMMA SettledStays ==
    ASSUME ~RedeliverAnswered, IInv, LInv, EInv, SInv, RInv, [RuntimeNext]_runtimeVars
    PROVE  RInv'
  <1>1. ASSUME up', edits' = 0 PROVE Settled'
    <2>1. CASE up
      <3>1. Remains /\ Settled
        BY <1>1, <2>1, EditsCount DEF Remains, RInv
      <3> QED BY <3>1, UndisturbedStays, PendingStays, AgreementStays, UnconfirmedStays DEF Settled
    <2>2. CASE ~up
      <3>1. CASE Boot
        BY <1>1, <3>1, BootSettles
      <3> QED BY <1>1, <2>2, <3>1, StepsDown
    <2> QED BY <2>1, <2>2
  <1>2. ASSUME ~up' PROVE \A cam \in Cameras : returned'[cam] = {}
    <2>1. CASE up
      BY <1>2, <2>1, StepsEnding DEF Halted
    <2>2. CASE ~up
      <3>1. CASE Boot
        BY <1>2, <2>2, <3>1 DEF Boot, Open, SaveFails, Halted
      <3>2. CASE returned' = returned
        BY <2>2, <3>2 DEF RInv
      <3> QED BY <2>2, <3>1, <3>2, StepsDown
    <2> QED BY <2>1, <2>2
  <1> QED BY <1>1, <1>2 DEF RInv

LEMMA SettledReports ==
    ASSUME IInv, LInv, up => Settled
    PROVE  ReportsDurableResult /\ ConfirmationsMatch
  <1>1. CASE ~up
    <2>1. Present(mem) = {}
      BY <1>1 DEF IInv, Present, EmptyLedger, NoRecord
    <2> QED BY <2>1 DEF ReportsDurableResult, ConfirmationsMatch, Acknowledgeable
  <1>2. CASE up
    <2>1. ASSUME NEW id \in Present(mem), NEW v \in Verdicts, Reported(id, {v}) PROVE mem[id].state = v
      BY <1>2, <2>1 DEF Settled, ReportsAgree, Present
    <2>2. ReportsDurableResult
      BY <2>1 DEF ReportsDurableResult, Reported
    <2>3. ASSUME NEW id \in Present(mem),
                 id \in Known(results) \cup UNION {{p[1] : p \in t.sent} : t \in snapshots}
          PROVE  mem[id].state \in Verdicts
      <3>1. CASE id \in Known(results)
        <4>1. results[id] \in Verdicts
          BY <3>1 DEF Known, LInv, RuntimeTypeOK
        <4> QED BY <2>1, <4>1 DEF Reported
      <3>2. CASE \E t \in snapshots : \E p \in t.sent : p[1] = id
        <4>1. PICK t \in snapshots : \E p \in t.sent : p[1] = id
          BY <3>2
        <4>2. PICK p \in t.sent : p[1] = id
          BY <4>1
        <4>3. p = <<id, p[2]>> /\ p[2] \in Verdicts
          BY <4>2 DEF LInv, RuntimeTypeOK, Snapshot
        <4>4. Reported(id, {p[2]})
          BY <4>2, <4>3 DEF Reported
        <4> QED BY <2>1, <4>3, <4>4
      <3> QED BY <2>3, <3>1, <3>2
    <2> QED BY <2>2, <2>3 DEF ConfirmationsMatch, Acknowledgeable
  <1> QED BY <1>1, <1>2

\* As long as the configuration has not been edited, every verdict the loop holds
\* for the Server, or has sent it, is the one the ledger holds, and a confirmation
\* never hits a record without a verdict, if the Server sends no command again once
\* it has a result for it: through workers that end in any order, lost and late
\* responses, redelivery, failed writes and crashes (the receipts run takes from
\* workers, replay and the completed commands, and what acknowledge and prune drop).
THEOREM ReportsHold ==
    ASSUME ~RedeliverAnswered
    PROVE  RuntimeSpec => [](edits = 0 => ReportsDurableResult /\ ConfirmationsMatch)
  <1> DEFINE Basis == IInv /\ LInv /\ EInv
  <1>1. RuntimeSpec => []Basis
    <2>1. IInv /\ LInv /\ EInv /\ [RuntimeNext]_runtimeVars => EInv'
      BY EvidenceStays
    <2> QED BY <2>1, NothingSentYet, LoopInvariant, PTL DEF RuntimeSpec
  <1>2. RuntimeInit => SInv /\ RInv
    <2>1. RuntimeInit => RInv
      BY DEF RuntimeInit, Init, RInv
    <2> QED BY <2>1, NothingToldYet
  <1>3. Basis /\ SInv /\ RInv /\ [RuntimeNext]_runtimeVars => SInv' /\ RInv'
    BY SuppliesStay, SettledStays
  <1>4. Basis /\ RInv => (edits = 0 => ReportsDurableResult /\ ConfirmationsMatch)
    BY SettledReports DEF RInv
  <1> QED BY <1>1, <1>2, <1>3, <1>4, PTL DEF RuntimeSpec
=============================================================================
