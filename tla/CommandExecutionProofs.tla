----------------------- MODULE CommandExecutionProofs -------------------------
(***************************************************************************)
(* Proofs about CommandExecution: its types, and that a command is sent to *)
(* its camera at most once, stays recorded while it matters, and is never  *)
(* reported as something it was not; that it implements CommandContract;   *)
(* and that the ledger file it leaves can always be opened again.          *)
(***************************************************************************)
EXTENDS CommandExecution, FiniteSetTheorems, TLAPS

-----------------------------------------------------------------------------
(***************************************************************************)
(* What the operations of the command ledger preserve.  A ledger is sound  *)
(* at a time, for what has been sent, if it can be trusted to decide       *)
(* whether a command may still be sent.                                    *)
(***************************************************************************)
\* Only verdicts are acknowledged.
AckedDecided(ledger) == \A id \in Ids : ledger[id].acked => ledger[id].state \in Verdicts

\* What was sent is recorded as possibly executed until its window closes.
Remembers(ledger, t, sent) ==
    \A r \in Requests : sent[r] > 0 => DedupUntil(r) <= t \/ Spent(ledger, r)

\* No success is invented.
Truthful(ledger, sent) ==
    \A r \in Requests :
        Holds(ledger, r) /\ ledger[IdOf[r]].state = "succeeded" => sent[r] > 0

Sound(ledger, t, sent) ==
    /\ ledger \in Ledgers
    /\ AckedDecided(ledger)
    /\ Remembers(ledger, t, sent)
    /\ Truthful(ledger, sent)

-----------------------------------------------------------------------------
LEMMA VerdictsAreStates ==
    /\ Verdicts \subseteq States
    /\ "absent" \notin Verdicts /\ "queued" \notin Verdicts /\ "pending" \notin Verdicts
    /\ {"succeeded", "unknown"} \cap Failed = {}
    /\ Failed \subseteq Verdicts
  BY DEF Verdicts, States, Failed

\* Records of a ledger, and the empty ledger.
LEMMA LedgerRecords ==
    ASSUME NEW ledger \in Ledgers, NEW id \in Ids
    PROVE  /\ ledger[id] \in Record
           /\ ledger[id].request \in Requests \cup {NoRequest}
           /\ ledger[id].state \in States
           /\ ledger[id].acked \in BOOLEAN
           /\ ledger[id].state = "absent" <=> ledger[id].request = NoRequest
  BY DEF Ledgers, Record

LEMMA EmptyLedgerIsLedger == EmptyLedger \in Ledgers /\ AckedDecided(EmptyLedger)
  BY LedgerAssumption
     DEF EmptyLedger, Ledgers, Record, NoRecord, States, AckedDecided

\* A ledger is given by its records.
LEMMA LedgerFromRecords ==
    ASSUME NEW ledger, ledger = [id \in Ids |-> ledger[id]],
           \A id \in Ids : /\ ledger[id] \in Record
                           /\ ledger[id].state = "absent" <=> ledger[id].request = NoRequest
    PROVE  ledger \in Ledgers
  BY DEF Ledgers

\* Nothing but what has lapsed is pruned.
LEMMA PruneSound ==
    ASSUME NEW t \in Nat, NEW sent \in [Requests -> Nat], NEW ledger, Sound(ledger, t, sent)
    PROVE  Sound(Prune(ledger, t), t, sent)
  <1> DEFINE pruned == Prune(ledger, t)
  <1> USE DEF Sound
  <1>1. \A id \in Ids : pruned[id] = IF Prunable(ledger[id], t) THEN NoRecord ELSE ledger[id]
    BY DEF Prune
  <1>2. pruned \in Ledgers
    <2>1. pruned = [id \in Ids |-> pruned[id]]
      BY DEF Prune
    <2>2. NoRecord \in Record /\ NoRecord.state = "absent" /\ NoRecord.request = NoRequest
      BY DEF NoRecord, Record, States
    <2>3. \A id \in Ids : /\ pruned[id] \in Record
                          /\ pruned[id].state = "absent" <=> pruned[id].request = NoRequest
      BY <1>1, <2>2, LedgerRecords
    <2> QED BY <2>1, <2>3, LedgerFromRecords
  <1>3. AckedDecided(pruned)
    BY <1>1 DEF AckedDecided, NoRecord
  <1>4. Remembers(pruned, t, sent)
    <2> SUFFICES ASSUME NEW r \in Requests, sent[r] > 0, ~(DedupUntil(r) <= t)
                 PROVE  Spent(pruned, r)
      BY DEF Remembers
    <2>1. Spent(ledger, r) /\ IdOf[r] \in Ids
      BY LedgerAssumption DEF Remembers
    <2>2. ~Prunable(ledger[IdOf[r]], t)
      BY <2>1 DEF Prunable, Spent, Holds
    <2> QED BY <2>1, <2>2, <1>1 DEF Spent, Holds
  <1>5. Truthful(pruned, sent)
    BY <1>1, LedgerAssumption DEF Truthful, Holds, NoRecord
  <1> QED BY <1>2, <1>3, <1>4, <1>5

\* A record whose request stays is changed to the state v.
LEMMA ChangedRecordIsLedger ==
    ASSUME NEW ledger \in Ledgers, NEW id \in Ids, NEW v \in States,
           ledger[id].state # "absent", v # "absent"
    PROVE  /\ [ledger EXCEPT ![id].state = v] \in Ledgers
           /\ [ledger EXCEPT ![id].state = v][id] = [ledger[id] EXCEPT !.state = v]
           /\ \A other \in Ids : other # id =>
                [ledger EXCEPT ![id].state = v][other] = ledger[other]
  <1> DEFINE changed == [ledger EXCEPT ![id].state = v]
  <1>1. changed = [other \in Ids |-> changed[other]]
    BY DEF Ledgers
  <1>2. changed[id] = [ledger[id] EXCEPT !.state = v]
    BY DEF Ledgers
  <1>3. \A other \in Ids : other # id => changed[other] = ledger[other]
    BY DEF Ledgers
  <1>4. [ledger[id] EXCEPT !.state = v] \in Record
    BY LedgerRecords DEF Record
  <1>5. \A other \in Ids : /\ changed[other] \in Record
                           /\ changed[other].state = "absent" <=> changed[other].request = NoRequest
    BY <1>2, <1>3, <1>4, LedgerRecords DEF Record
  <1> QED BY <1>1, <1>2, <1>3, <1>5, LedgerFromRecords

\* An intent or a verdict is recorded that contradicts nothing that was sent.
LEMMA ChangedRecordSound ==
    ASSUME NEW t \in Nat, NEW sent \in [Requests -> Nat], NEW ledger, Sound(ledger, t, sent),
           NEW id \in Ids, NEW v \in States, ledger[id].state # "absent", v # "absent",
           ledger[id].acked => v \in Verdicts,
           \A r \in Requests : ledger[id].request = r /\ IdOf[r] = id =>
               /\ v \notin {"pending", "succeeded", "unknown"} => sent[r] = 0 \/ DedupUntil(r) <= t
               /\ v = "succeeded" => sent[r] > 0
    PROVE  Sound([ledger EXCEPT ![id].state = v], t, sent)
  <1> DEFINE changed == [ledger EXCEPT ![id].state = v]
  <1>1. ledger \in Ledgers
    BY DEF Sound
  <1>2. /\ changed \in Ledgers
        /\ changed[id] = [ledger[id] EXCEPT !.state = v]
        /\ \A other \in Ids : other # id => changed[other] = ledger[other]
    BY <1>1, ChangedRecordIsLedger
  <1>3. /\ changed[id].state = v
        /\ changed[id].request = ledger[id].request
        /\ changed[id].acked = ledger[id].acked
    BY <1>1, <1>2, LedgerRecords DEF Record
  <1>4. AckedDecided(changed)
    BY <1>2, <1>3 DEF Sound, AckedDecided
  <1>5. Remembers(changed, t, sent)
    <2> SUFFICES ASSUME NEW r \in Requests, sent[r] > 0, ~(DedupUntil(r) <= t)
                 PROVE  Spent(changed, r)
      BY DEF Remembers
    <2>1. Spent(ledger, r) /\ IdOf[r] \in Ids /\ sent[r] # 0
      BY LedgerAssumption DEF Sound, Remembers
    <2>2. CASE IdOf[r] # id
      BY <2>1, <2>2, <1>2 DEF Spent, Holds
    <2>3. CASE IdOf[r] = id
      BY <2>1, <2>3, <1>3 DEF Spent, Holds
    <2> QED BY <2>2, <2>3
  <1>6. Truthful(changed, sent)
    <2> SUFFICES ASSUME NEW r \in Requests, Holds(changed, r),
                        changed[IdOf[r]].state = "succeeded"
                 PROVE  sent[r] > 0
      BY DEF Truthful
    <2>1. IdOf[r] \in Ids
      BY LedgerAssumption
    <2>2. CASE IdOf[r] # id
      BY <2>1, <2>2, <1>2 DEF Sound, Truthful, Holds
    <2>3. CASE IdOf[r] = id
      BY <2>3, <1>3 DEF Holds
    <2> QED BY <2>2, <2>3
  <1> QED BY <1>2, <1>4, <1>5, <1>6 DEF Sound

\* CommandLedger::begin.
LEMMA BegunSound ==
    ASSUME NEW t \in Nat, NEW sent \in [Requests -> Nat], NEW ledger, Sound(ledger, t, sent),
           NEW id \in Ids, ledger[id].state = "queued"
    PROVE  Sound(Begun(ledger, id), t, sent)
  <1>1. ~ledger[id].acked
    BY VerdictsAreStates DEF Sound, AckedDecided
  <1>2. "pending" \in States
    BY DEF States
  <1> QED BY <1>1, <1>2, ChangedRecordSound DEF Begun

\* CommandLedger::cancel.
LEMMA CanceledSound ==
    ASSUME NEW t \in Nat, NEW sent \in [Requests -> Nat], NEW ledger, Sound(ledger, t, sent),
           NEW id \in Ids, ledger[id].state # "absent"
    PROVE  Sound(Completed(ledger, id, CancelVerdict(ledger[id].state)), t, sent)
  <1> DEFINE v == CancelVerdict(ledger[id].state)
  <1>1. ledger[id].state \in States /\ ledger \in Ledgers
    BY LedgerRecords DEF Sound
  <1>2. v \in Verdicts
    BY <1>1 DEF CancelVerdict, States, Verdicts, Failed
  <1>3. v \in States /\ v # "absent"
    BY <1>2, VerdictsAreStates
  <1>4. ASSUME NEW r \in Requests, ledger[id].request = r, IdOf[r] = id
        PROVE  /\ v \notin {"pending", "succeeded", "unknown"} => sent[r] = 0 \/ DedupUntil(r) <= t
               /\ v = "succeeded" => sent[r] > 0
    <2>1. Holds(ledger, r)
      BY <1>4 DEF Holds
    <2>2. ASSUME v \notin {"pending", "succeeded", "unknown"}, sent[r] # 0, ~(DedupUntil(r) <= t)
          PROVE  FALSE
      <3>1. Spent(ledger, r)
        BY <2>2, <1>4 DEF Sound, Remembers
      <3> QED BY <3>1, <2>2, <1>4 DEF Spent, Holds, CancelVerdict
    <2>3. ASSUME v = "succeeded"
          PROVE  sent[r] > 0
      <3>1. ledger[id].state = "succeeded"
        BY <2>3 DEF CancelVerdict
      <3> QED BY <3>1, <2>1, <1>4 DEF Sound, Truthful
    <2> QED BY <2>2, <2>3
  <1> QED BY <1>2, <1>3, <1>4, ChangedRecordSound DEF Completed


\* The recovery of CommandLedger::open, before it prunes.
LEMMA RecoverSound ==
    ASSUME NEW t \in Nat, NEW sent \in [Requests -> Nat], NEW ledger, Sound(ledger, t, sent)
    PROVE  Sound(Recover(ledger), t, sent)
  <1> DEFINE recovered == Recover(ledger)
  <1>1. ASSUME NEW id \in Ids
        PROVE  /\ recovered[id].request = ledger[id].request
               /\ recovered[id].acked = ledger[id].acked
               /\ recovered[id].state =
                    IF ledger[id].state = "queued" THEN "device_unavailable"
                    ELSE IF ledger[id].state = "pending" THEN "unknown" ELSE ledger[id].state
               /\ recovered[id] \in Record
    <2>1. ledger[id] \in Record
      BY <1>1, LedgerRecords DEF Sound
    <2>2. "device_unavailable" \in States /\ "unknown" \in States
      BY DEF States, Verdicts, Failed
    <2>3. recovered[id] =
            CASE ledger[id].state = "queued"  -> [ledger[id] EXCEPT !.state = "device_unavailable"]
              [] ledger[id].state = "pending" -> [ledger[id] EXCEPT !.state = "unknown"]
              [] OTHER -> ledger[id]
      BY <1>1 DEF Recover
    <2>4. CASE ledger[id].state = "queued"
      <3>1. recovered[id] = [ledger[id] EXCEPT !.state = "device_unavailable"]
        BY <2>3, <2>4
      <3> QED BY <3>1, <2>1, <2>2, <2>4 DEF Record
    <2>5. CASE ledger[id].state = "pending"
      <3>1. recovered[id] = [ledger[id] EXCEPT !.state = "unknown"]
        BY <2>3, <2>5
      <3> QED BY <3>1, <2>1, <2>2, <2>5 DEF Record
    <2>6. CASE ledger[id].state \notin {"queued", "pending"}
      <3>1. recovered[id] = ledger[id]
        BY <2>3, <2>6
      <3> QED BY <3>1, <2>1, <2>6
    <2> QED BY <2>4, <2>5, <2>6
  <1>2. recovered \in Ledgers
    <2>1. recovered = [id \in Ids |-> recovered[id]]
      BY DEF Recover
    <2>2. \A id \in Ids : recovered[id].state = "absent" <=> recovered[id].request = NoRequest
      BY <1>1, LedgerRecords DEF Sound
    <2> QED BY <2>1, <2>2, <1>1, LedgerFromRecords
  <1>3. AckedDecided(recovered)
    BY <1>1 DEF Sound, AckedDecided, Verdicts, Failed
  <1>4. Remembers(recovered, t, sent)
    <2> SUFFICES ASSUME NEW r \in Requests, sent[r] > 0, ~(DedupUntil(r) <= t)
                 PROVE  Spent(recovered, r)
      BY DEF Remembers
    <2>1. Spent(ledger, r) /\ IdOf[r] \in Ids
      BY LedgerAssumption DEF Sound, Remembers
    <2> QED BY <2>1, <1>1 DEF Spent, Holds
  <1>5. Truthful(recovered, sent)
    BY <1>1, LedgerAssumption DEF Sound, Truthful, Holds
  <1> QED BY <1>2, <1>3, <1>4, <1>5 DEF Sound

\* CommandLedger::open.
LEMMA OpenedSound ==
    ASSUME NEW t \in Nat, NEW sent \in [Requests -> Nat], NEW ledger, Sound(ledger, t, sent)
    PROVE  Sound(Opened(ledger, t), t, sent)
  BY RecoverSound, PruneSound DEF Opened

\* CommandLedger::acknowledge.
LEMMA AcknowledgedSound ==
    ASSUME NEW t \in Nat, NEW sent \in [Requests -> Nat], NEW ledger, Sound(ledger, t, sent),
           NEW ids \in SUBSET Ids, Acknowledgeable(ledger, ids)
    PROVE  Sound(Acknowledged(ledger, ids, t), t, sent)
  <1> DEFINE marked == [id \in Ids |-> IF id \in ids \cap Present(ledger)
                                       THEN [ledger[id] EXCEPT !.acked = TRUE]
                                       ELSE ledger[id]]
  <1>1. ASSUME NEW id \in Ids
        PROVE  /\ marked[id].request = ledger[id].request
               /\ marked[id].state = ledger[id].state
               /\ marked[id].acked => ledger[id].acked \/ ledger[id].state \in Verdicts
               /\ marked[id] \in Record
    <2>1. ledger[id] \in Record
      BY <1>1, LedgerRecords DEF Sound
    <2>2. CASE id \in ids \cap Present(ledger)
      <3>1. marked[id] = [ledger[id] EXCEPT !.acked = TRUE]
        BY <2>2
      <3>2. ledger[id].state \in Verdicts
        BY <2>2 DEF Acknowledgeable
      <3> QED BY <3>1, <3>2, <2>1 DEF Record
    <2>3. CASE id \notin ids \cap Present(ledger)
      BY <2>1, <2>3
    <2> QED BY <2>2, <2>3
  <1>2. marked \in Ledgers
    <2>1. marked = [id \in Ids |-> marked[id]]
      OBVIOUS
    <2>2. \A id \in Ids : marked[id].state = "absent" <=> marked[id].request = NoRequest
      BY <1>1, LedgerRecords DEF Sound
    <2> HIDE DEF marked
    <2> QED BY <2>1, <2>2, <1>1, LedgerFromRecords
  <1>3. AckedDecided(marked)
    BY <1>1 DEF Sound, AckedDecided
  <1>4. Remembers(marked, t, sent)
    <2> SUFFICES ASSUME NEW r \in Requests, sent[r] > 0, ~(DedupUntil(r) <= t)
                 PROVE  Spent(marked, r)
      BY DEF Remembers
    <2>1. Spent(ledger, r) /\ IdOf[r] \in Ids
      BY LedgerAssumption DEF Sound, Remembers
    <2> QED BY <2>1, <1>1 DEF Spent, Holds
  <1>5. Truthful(marked, sent)
    BY <1>1, LedgerAssumption DEF Sound, Truthful, Holds
  <1>6. Sound(marked, t, sent)
    BY <1>2, <1>3, <1>4, <1>5 DEF Sound
  <1>7. Acknowledged(ledger, ids, t) = Prune(marked, t)
    BY DEF Acknowledged
  <1> HIDE DEF marked
  <1> QED BY <1>6, <1>7, PruneSound

\* CommandLedger::admit.
LEMMA AdmittedSound ==
    ASSUME NEW t \in Nat, NEW sent \in [Requests -> Nat], NEW ledger, Sound(ledger, t, sent),
           NEW batch \in SUBSET Requests
    PROVE  Sound(Admitted(ledger, batch, t), t, sent)
  <1> DEFINE pruned == Prune(ledger, t)
             admitted == Admitted(ledger, batch, t)
             new(id) == \E r \in Additions(ledger, batch, t) : IdOf[r] = id
  <1>1. Sound(pruned, t, sent)
    BY PruneSound
  <1>2. ASSUME NEW id \in Ids, ~new(id)
        PROVE  admitted[id] = pruned[id]
    BY <1>2 DEF Admitted
  <1>3. ASSUME NEW id \in Ids, new(id)
        PROVE  /\ pruned[id].state = "absent"
               /\ admitted[id].state = "queued"
               /\ admitted[id].acked = FALSE
               /\ admitted[id].request \in Requests
               /\ admitted[id] \in Record
    <2>1. PICK r \in Additions(ledger, batch, t) : IdOf[r] = id
      BY <1>3
    <2>2. pruned[id].state = "absent"
      BY <2>1 DEF Additions
    <2> DEFINE chosen == CHOOSE q \in Additions(ledger, batch, t) : IdOf[q] = id
    <2>3. chosen \in Additions(ledger, batch, t)
      BY <2>1
    <2>4. chosen \in Requests
      BY <2>3 DEF Additions
    <2>5. admitted[id] = [request |-> chosen, state |-> "queued", acked |-> FALSE]
      BY <1>3 DEF Admitted
    <2> HIDE DEF chosen
    <2> QED BY <2>2, <2>4, <2>5 DEF Record, States
  <1>4. admitted \in Ledgers
    <2>1. admitted = [id \in Ids |-> admitted[id]]
      BY DEF Admitted
    <2>2. ASSUME NEW id \in Ids
          PROVE  /\ admitted[id] \in Record
                 /\ admitted[id].state = "absent" <=> admitted[id].request = NoRequest
      <3>1. CASE new(id)
        <4>1. NoRequest \notin Requests
          BY LedgerAssumption
        <4> HIDE DEF admitted, new
        <4> QED BY <4>1, <3>1, <2>2, <1>3
      <3>2. CASE ~new(id)
        BY <3>2, <2>2, <1>1, <1>2, LedgerRecords DEF Sound
      <3> QED BY <3>1, <3>2
    <2> HIDE DEF admitted
    <2> QED BY <2>1, <2>2, LedgerFromRecords
  <1>5. AckedDecided(admitted)
    BY <1>1, <1>2, <1>3 DEF Sound, AckedDecided
  <1>6. Remembers(admitted, t, sent)
    <2> SUFFICES ASSUME NEW r \in Requests, sent[r] > 0, ~(DedupUntil(r) <= t)
                 PROVE  Spent(admitted, r)
      BY DEF Remembers
    <2>1. Spent(pruned, r) /\ IdOf[r] \in Ids
      BY <1>1, LedgerAssumption DEF Sound, Remembers
    <2>2. ~new(IdOf[r])
      BY <2>1, <1>3 DEF Spent, Holds
    <2>3. admitted[IdOf[r]] = pruned[IdOf[r]]
      BY <2>1, <2>2, <1>2
    <2> QED BY <2>1, <2>3 DEF Spent, Holds
  <1>7. Truthful(admitted, sent)
    <2> SUFFICES ASSUME NEW r \in Requests, Holds(admitted, r),
                        admitted[IdOf[r]].state = "succeeded"
                 PROVE  sent[r] > 0
      BY DEF Truthful
    <2>1. IdOf[r] \in Ids
      BY LedgerAssumption
    <2>2. ~new(IdOf[r])
      BY <2>1, <1>3
    <2>3. admitted[IdOf[r]] = pruned[IdOf[r]]
      BY <2>1, <2>2, <1>2
    <2> QED BY <2>3, <1>1 DEF Sound, Truthful, Holds
  <1> QED BY <1>4, <1>5, <1>6, <1>7 DEF Sound


-----------------------------------------------------------------------------
(***************************************************************************)
(* What happens to the record of one command.                              *)
(***************************************************************************)
LEMMA PruneKeeps ==
    ASSUME NEW t \in Nat, NEW ledger, NEW r \in Requests
    PROVE  LET id == IdOf[r]
               pruned == Prune(ledger, t)
           IN  /\ ~ledger[id].acked => pruned[id] = ledger[id]
               /\ pruned[id].state # "absent" => pruned[id] = ledger[id]
               /\ Spent(ledger, r) /\ ~(DedupUntil(r) <= t) => Spent(pruned, r)
  BY LedgerAssumption DEF Prune, Prunable, NoRecord, Spent, Holds

LEMMA AcknowledgedKeeps ==
    ASSUME NEW t \in Nat, NEW ledger \in Ledgers, NEW ids \in SUBSET Ids,
           Acknowledgeable(ledger, ids), NEW r \in Requests
    PROVE  LET id == IdOf[r]
               after == Acknowledged(ledger, ids, t)
           IN  /\ ledger[id].state \notin Verdicts /\ ~ledger[id].acked => after[id] = ledger[id]
               /\ after[id].state # "absent" => /\ ledger[id].state # "absent"
                                                /\ after[id].request = ledger[id].request
               /\ Spent(ledger, r) /\ ~(DedupUntil(r) <= t) => Spent(after, r)
  <1> DEFINE marked == [id \in Ids |-> IF id \in ids \cap Present(ledger)
                                       THEN [ledger[id] EXCEPT !.acked = TRUE]
                                       ELSE ledger[id]]
  <1>1. IdOf[r] \in Ids
    BY LedgerAssumption
  <1>2. ledger[IdOf[r]] \in Record
    BY <1>1, LedgerRecords
  <1>3. /\ marked[IdOf[r]].request = ledger[IdOf[r]].request
        /\ marked[IdOf[r]].state = ledger[IdOf[r]].state
        /\ ledger[IdOf[r]].state \notin Verdicts => marked[IdOf[r]] = ledger[IdOf[r]]
    BY <1>1, <1>2 DEF Acknowledgeable, Record
  <1>4. Acknowledged(ledger, ids, t) = Prune(marked, t)
    BY DEF Acknowledged
  <1>5. Spent(ledger, r) => Spent(marked, r)
    BY <1>3 DEF Spent, Holds
  <1> HIDE DEF marked
  <1> QED BY <1>3, <1>4, <1>5, PruneKeeps

LEMMA AdmittedKeeps ==
    ASSUME NEW t \in Nat, NEW ledger \in Ledgers, NEW batch \in SUBSET Requests, NEW r \in Requests
    PROVE  LET id == IdOf[r]
               after == Admitted(ledger, batch, t)
           IN  /\ ledger[id].state # "absent" /\ ~ledger[id].acked => after[id] = ledger[id]
               /\ (\A q \in batch : IdOf[q] # id) /\ after[id].state # "absent" => after[id] = ledger[id]
               /\ Spent(ledger, r) /\ ~(DedupUntil(r) <= t) => Spent(after, r)
  <1> DEFINE id == IdOf[r]
             pruned == Prune(ledger, t)
             after == Admitted(ledger, batch, t)
  <1>1. id \in Ids
    BY LedgerAssumption
  <1>2. \/ after[id] = pruned[id]
        \/ pruned[id].state = "absent" /\ \E q \in batch : IdOf[q] = id
    BY <1>1 DEF Admitted, Additions
  <1>3. /\ ~ledger[id].acked => pruned[id] = ledger[id]
        /\ pruned[id].state # "absent" => pruned[id] = ledger[id]
        /\ Spent(ledger, r) /\ ~(DedupUntil(r) <= t) => Spent(pruned, r)
    BY PruneKeeps
  <1> HIDE DEF pruned, after
  <1>4. Spent(ledger, r) /\ ~(DedupUntil(r) <= t) => Spent(after, r)
    BY <1>2, <1>3 DEF Spent, Holds
  <1>5. ledger[id].state # "absent" /\ ~ledger[id].acked => after[id] = ledger[id]
    BY <1>2, <1>3
  <1>6. (\A q \in batch : IdOf[q] # id) /\ after[id].state # "absent" => after[id] = ledger[id]
    BY <1>2, <1>3
  <1> QED BY <1>4, <1>5, <1>6 DEF after

\* A change of one record leaves the commands with other ids alone.
LEMMA ChangedRecordKeeps ==
    ASSUME NEW ledger \in Ledgers, NEW id \in Ids, NEW v \in States,
           ledger[id].state # "absent", v # "absent", NEW r \in Requests
    PROVE  LET after == [ledger EXCEPT ![id].state = v]
           IN  /\ IdOf[r] # id => after[IdOf[r]] = ledger[IdOf[r]]
               /\ after[IdOf[r]].request = ledger[IdOf[r]].request
               /\ after[IdOf[r]].acked = ledger[IdOf[r]].acked
               /\ IdOf[r] # id \/ v \in {"pending", "succeeded", "unknown"} =>
                    (Spent(ledger, r) => Spent(after, r))
  <1> DEFINE after == [ledger EXCEPT ![id].state = v]
  <1>1. IdOf[r] \in Ids
    BY LedgerAssumption
  <1>2. /\ after \in Ledgers
        /\ after[id] = [ledger[id] EXCEPT !.state = v]
        /\ \A other \in Ids : other # id => after[other] = ledger[other]
    BY ChangedRecordIsLedger
  <1>3. /\ after[id].state = v
        /\ after[id].request = ledger[id].request
        /\ after[id].acked = ledger[id].acked
    BY <1>2, LedgerRecords DEF Record
  <1> HIDE DEF after
  <1>4. /\ IdOf[r] # id => after[IdOf[r]] = ledger[IdOf[r]]
        /\ after[IdOf[r]].request = ledger[IdOf[r]].request
        /\ after[IdOf[r]].acked = ledger[IdOf[r]].acked
    BY <1>1, <1>2, <1>3
  <1>5. IdOf[r] # id \/ v \in {"pending", "succeeded", "unknown"} =>
            (Spent(ledger, r) => Spent(after, r))
    BY <1>1, <1>2, <1>3 DEF Spent, Holds
  <1> QED BY <1>4, <1>5 DEF after

\* CommandLedger::replay lets a command go on only while its record is queued.
LEMMA FreshIsQueued ==
    ASSUME NEW ledger \in Ledgers, NEW r \in Requests, Replayed(ledger, r) = "fresh"
    PROVE  Holds(ledger, r) /\ ledger[IdOf[r]].state = "queued"
  <1> DEFINE state == ledger[IdOf[r]].state
  <1>1. state \in States
    BY LedgerAssumption, LedgerRecords
  <1>2. Holds(ledger, r)
    BY DEF Replayed
  <1>3. ASSUME state # "queued" PROVE FALSE
    <2>1. Replayed(ledger, r) \in {state, "unknown"}
      BY <1>2, <1>3 DEF Replayed
    <2>2. state # "fresh"
      BY <1>1 DEF States, Verdicts, Failed
    <2> QED BY <2>1, <2>2
  <1> QED BY <1>2, <1>3

-----------------------------------------------------------------------------
(***************************************************************************)
(* Time passes, commands are sent.                                         *)
(***************************************************************************)
LEMMA SoundLater ==
    ASSUME NEW t \in Nat, NEW u \in Nat, t <= u, NEW sent, NEW ledger, Sound(ledger, t, sent)
    PROVE  Sound(ledger, u, sent)
  BY LedgerAssumption DEF Sound, Remembers, DedupUntil

LEMMA SoundSent ==
    ASSUME NEW t \in Nat, NEW sent \in [Requests -> Nat], NEW ledger, Sound(ledger, t, sent),
           NEW r \in Requests, DedupUntil(r) <= t \/ Spent(ledger, r)
    PROVE  Sound(ledger, t, [sent EXCEPT ![r] = @ + 1])
  BY DEF Sound, Remembers, Truthful

LEMMA EmptySound ==
    ASSUME NEW t, NEW sent, \A r \in Requests : sent[r] = 0
    PROVE  Sound(EmptyLedger, t, sent)
  BY EmptyLedgerIsLedger, LedgerAssumption
     DEF Sound, Remembers, Truthful, Holds, EmptyLedger, NoRecord

-----------------------------------------------------------------------------
(***************************************************************************)
(* The inductive invariant.  Both ledgers are sound for what has been sent *)
(* (above), and each worker that has looked up its command   *)
(* may rely on what it saw: the record is still its own if it is there,    *)
(* unsettled unless the worker was aborted meanwhile, and what the worker  *)
(* does next contradicts nothing that was sent.                            *)
(***************************************************************************)
Bound(record, r) == record.state # "absent" => record.request = r
Unsettled(record) == record.state \in {"queued", "pending"} /\ ~record.acked

Progress(cam) ==
    LET r == Current(cam)
    IN  /\ pc[cam] = "deadline" => transmitted[r] = 0 \/ Lapsed(r)
        /\ pc[cam] = "begin" => transmitted[r] = 0
        /\ pc[cam] = "send" => /\ transmitted[r] = 0
                               /\ Lapsed(r) \/ (Spent(mem, r) /\ Spent(disk, r))
        /\ pc[cam] = "reply" => transmitted[r] > 0
        /\ pc[cam] = "complete" /\ verdict[cam] \in Failed => transmitted[r] = 0 \/ Lapsed(r)
        /\ pc[cam] = "complete" /\ verdict[cam] = "succeeded" => transmitted[r] > 0

WorkerSound(cam) ==
    /\ pc[cam] = "idle" => ~aborted[cam]
    /\ \A i \in DOMAIN queue[cam] : CameraOf[queue[cam][i]] = cam
    /\ pc[cam] \in Engaged =>
        /\ queue[cam] # << >>
        /\ Bound(mem[IdOf[Current(cam)]], Current(cam))
        /\ ~aborted[cam] => Unsettled(mem[IdOf[Current(cam)]])
        /\ Progress(cam)

IInv ==
    /\ TypeOK
    /\ Sound(disk, now, transmitted)
    /\ up => Sound(mem, now, transmitted)
    /\ ~up => mem = EmptyLedger /\ \A cam \in Cameras : pc[cam] = "idle"
    /\ \A cam \in Cameras : WorkerSound(cam)
    /\ AtMostOnce

-----------------------------------------------------------------------------
(***************************************************************************)
(* The initial state, and what the end of the process leaves.              *)
(***************************************************************************)
LEMMA IdleWorkerSound ==
    ASSUME NEW cam \in Cameras, pc[cam] = "idle", ~aborted[cam], queue[cam] = << >>
    PROVE  WorkerSound(cam)
  BY DEF WorkerSound, Engaged, Running

LEMMA InitSound == Init => IInv
  <1> SUFFICES ASSUME Init PROVE IInv
    OBVIOUS
  <1> USE DEF Init
  <1>1. TypeOK
    <2>1. mem \in Ledgers /\ disk \in Ledgers
      BY EmptyLedgerIsLedger
    <2>2. verdict \in [Cameras -> Verdicts]
      BY DEF Verdicts
    <2>3. returned \in [Cameras -> SUBSET Results]
      OBVIOUS
    <2>4. queue \in [Cameras -> Seq(Requests)]
      OBVIOUS
    <2> QED BY <2>1, <2>2, <2>3, <2>4 DEF TypeOK
  <1>2. Sound(disk, now, transmitted)
    BY EmptySound
  <1>3. \A cam \in Cameras : WorkerSound(cam)
    BY IdleWorkerSound
  <1>4. AtMostOnce
    BY DEF AtMostOnce
  <1> QED BY <1>1, <1>2, <1>3, <1>4 DEF IInv

LEMMA HaltedSound ==
    ASSUME IInv, Halted, Sound(disk', now, transmitted), UNCHANGED <<now, transmitted>>
    PROVE  IInv'
  <1> USE DEF Halted
  <1>1. TypeOK'
    <2>1. mem' \in Ledgers /\ disk' \in Ledgers
      BY EmptyLedgerIsLedger DEF Sound
    <2>2. verdict' \in [Cameras -> Verdicts]
      BY DEF Verdicts
    <2>3. queue' \in [Cameras -> Seq(Requests)] /\ returned' \in [Cameras -> SUBSET Results]
      OBVIOUS
    <2>4. pc' \in [Cameras -> Running \cup Ended \cup {"idle"}] /\ aborted' \in [Cameras -> BOOLEAN]
      OBVIOUS
    <2> QED BY <2>1, <2>2, <2>3, <2>4 DEF IInv, TypeOK
  <1>2. Sound(disk', now', transmitted')
    OBVIOUS
  <1>3. ASSUME NEW cam \in Cameras PROVE WorkerSound(cam)'
    BY <1>3 DEF WorkerSound, Engaged, Running
  <1>4. AtMostOnce'
    BY DEF IInv, AtMostOnce
  <1> QED BY <1>1, <1>2, <1>3, <1>4 DEF IInv

-----------------------------------------------------------------------------
(***************************************************************************)
(* A worker that does not move stays sound as long as its record does.     *)
(***************************************************************************)
LEMMA WorkerFrame ==
    ASSUME IInv, NEW cam \in Cameras, now' \in Nat, now <= now',
           pc'[cam] = pc[cam], queue'[cam] = queue[cam], verdict'[cam] = verdict[cam],
           aborted[cam] => aborted'[cam],
           pc[cam] = "idle" => ~aborted'[cam],
           pc[cam] \in Engaged =>
             LET r == Current(cam)
             IN  /\ transmitted'[r] = transmitted[r]
                 /\ mem'[IdOf[r]].state # "absent" => mem'[IdOf[r]].request = r
                 /\ ~aborted'[cam] => Unsettled(mem'[IdOf[r]])
                 /\ pc[cam] = "send" /\ ~(DedupUntil(r) <= now') =>
                      Spent(mem', r) /\ Spent(disk', r)
    PROVE  WorkerSound(cam)'
  <1>1. WorkerSound(cam)
    BY DEF IInv
  <1>2. pc'[cam] = "idle" => ~aborted'[cam]
    OBVIOUS
  <1>3. \A i \in DOMAIN queue'[cam] : CameraOf[queue'[cam][i]] = cam
    BY <1>1 DEF WorkerSound
  <1>4. ASSUME pc[cam] \in Engaged
        PROVE  /\ queue'[cam] # << >>
               /\ Bound(mem'[IdOf[Current(cam)']], Current(cam)')
               /\ ~aborted'[cam] => Unsettled(mem'[IdOf[Current(cam)']])
               /\ Progress(cam)'
    <2> DEFINE r == Current(cam)
    <2>1. Current(cam)' = r
      BY DEF Current
    <2>2. queue[cam] # << >> /\ Progress(cam)
      BY <1>1, <1>4 DEF WorkerSound
    <2>3. r \in Requests
      BY <2>2 DEF IInv, TypeOK, Current
    <2>4. DedupUntil(r) \in Nat /\ now \in Nat
      BY <2>3, LedgerAssumption DEF DedupUntil, IInv, TypeOK
    <2>5. transmitted'[r] = transmitted[r] /\ (Lapsed(r) => DedupUntil(r) <= now')
      BY <1>4, <2>4 DEF Lapsed
    <2>6. Progress(cam)'
      BY <1>4, <2>1, <2>2, <2>5 DEF Progress, Lapsed
    <2> QED BY <1>4, <2>1, <2>2, <2>6 DEF Bound
  <1> QED BY <1>2, <1>3, <1>4 DEF WorkerSound


-----------------------------------------------------------------------------
(***************************************************************************)
(* Calls of the run loop.                                                  *)
(***************************************************************************)
\* What a worker that is under way relies on.
Respects(cam, ledger) ==
    pc[cam] \in Engaged =>
        LET r == Current(cam)
        IN  /\ Bound(ledger[IdOf[r]], r)
            /\ ~aborted[cam] => Unsettled(ledger[IdOf[r]])
            /\ Spent(mem, r) /\ ~Lapsed(r) => Spent(ledger, r)

LEMMA LoopSound ==
    ASSUME IInv, up, NEW ledger, Sound(ledger, now, transmitted),
           \A cam \in Cameras : Respects(cam, ledger),
           mem' = ledger, disk' \in {disk, ledger},
           UNCHANGED <<now, up, workerVars, transmitted>>
    PROVE  IInv'
  <1> USE DEF workerVars
  <1>1. TypeOK'
    BY DEF IInv, TypeOK, Sound
  <1>2. Sound(disk', now', transmitted') /\ Sound(mem', now', transmitted')
    BY DEF IInv
  <1>3. ASSUME NEW cam \in Cameras PROVE WorkerSound(cam)'
    <2>1. WorkerSound(cam) /\ Respects(cam, ledger)
      BY <1>3 DEF IInv
    <2>2. now \in Nat /\ now <= now
      BY DEF IInv, TypeOK
    <2>3. ASSUME pc[cam] \in Engaged
          PROVE  LET r == Current(cam)
                 IN  /\ transmitted'[r] = transmitted[r]
                     /\ mem'[IdOf[r]].state # "absent" => mem'[IdOf[r]].request = r
                     /\ ~aborted'[cam] => Unsettled(mem'[IdOf[r]])
                     /\ pc[cam] = "send" /\ ~(DedupUntil(r) <= now') =>
                          Spent(mem', r) /\ Spent(disk', r)
      BY <2>1, <2>3 DEF WorkerSound, Respects, Bound, Progress, Lapsed
    <2>4. (aborted[cam] => aborted'[cam]) /\ (pc[cam] = "idle" => ~aborted'[cam])
      BY <2>1 DEF WorkerSound
    <2> QED BY <1>3, <2>2, <2>3, <2>4, WorkerFrame
  <1>4. AtMostOnce'
    BY DEF IInv, AtMostOnce
  <1> QED BY <1>1, <1>2, <1>3, <1>4 DEF IInv

\* A write by the loop, successful or not.
LEMMA LoopSaves ==
    ASSUME IInv, up, NEW ledger, Sound(ledger, now, transmitted),
           \A cam \in Cameras : Respects(cam, ledger),
           SaveByLoop(ledger), UNCHANGED <<now, transmitted>>
    PROVE  IInv'
  <1>1. CASE Saved(ledger)
    <2> USE <1>1 DEF Saved
    <2> QED BY LoopSound
  <1>2. CASE SaveFails(ledger)
    <2>1. Halted /\ disk' \in {disk, ledger}
      BY <1>2 DEF SaveFails
    <2>2. Sound(disk', now, transmitted)
      BY <2>1 DEF IInv
    <2> QED BY <2>1, <2>2, HaltedSound
  <1> QED BY <1>1, <1>2 DEF SaveByLoop

\* The command of a worker that is under way.
LEMMA CurrentCommand ==
    ASSUME IInv, NEW cam \in Cameras, pc[cam] \in Engaged
    PROVE  /\ Current(cam) \in Requests
           /\ IdOf[Current(cam)] \in Ids
           /\ CameraOf[Current(cam)] = cam
           /\ queue[cam] # << >>
           /\ Tail(queue[cam]) \in Seq(Requests)
           /\ Bound(mem[IdOf[Current(cam)]], Current(cam))
           /\ ~aborted[cam] => Unsettled(mem[IdOf[Current(cam)]])
           /\ Progress(cam)
           /\ up /\ Sound(mem, now, transmitted) /\ mem \in Ledgers
  <1>1. WorkerSound(cam) /\ queue[cam] \in Seq(Requests)
    BY DEF IInv, TypeOK
  <1>2. queue[cam] # << >>
    BY <1>1 DEF WorkerSound
  <1>3. Current(cam) \in Requests /\ Tail(queue[cam]) \in Seq(Requests)
    BY <1>1, <1>2 DEF Current
  <1>4. 1 \in DOMAIN queue[cam] /\ Current(cam) = queue[cam][1]
    BY <1>1, <1>2 DEF Current
  <1>5. CameraOf[Current(cam)] = cam
    BY <1>1, <1>4 DEF WorkerSound
  <1>6. IdOf[Current(cam)] \in Ids
    BY <1>3, LedgerAssumption
  <1>7. up
    BY DEF IInv, Engaged, Running
  <1>8. Sound(mem, now, transmitted) /\ mem \in Ledgers
    BY <1>7 DEF IInv, Sound
  <1> QED BY <1>1, <1>2, <1>3, <1>5, <1>6, <1>7, <1>8 DEF WorkerSound

LEMMA AdmitSound ==
    ASSUME IInv, NEW batch \in SUBSET Requests, Admit(batch)
    PROVE  IInv'
  <1> USE DEF Admit
  <1>1. up /\ Sound(mem, now, transmitted) /\ mem \in Ledgers /\ now \in Nat
         /\ transmitted \in [Requests -> Nat]
    BY DEF IInv, Sound, TypeOK
  <1>2. ASSUME NEW cam \in Cameras PROVE Respects(cam, Admitted(mem, batch, now))
    <2> SUFFICES ASSUME pc[cam] \in Engaged
                 PROVE  LET r == Current(cam)
                        IN  /\ Bound(Admitted(mem, batch, now)[IdOf[r]], r)
                            /\ ~aborted[cam] => Unsettled(Admitted(mem, batch, now)[IdOf[r]])
                            /\ Spent(mem, r) /\ ~Lapsed(r) => Spent(Admitted(mem, batch, now), r)
      BY DEF Respects
    <2> DEFINE r == Current(cam)
               after == Admitted(mem, batch, now)
    <2>1. /\ r \in Requests /\ CameraOf[r] = cam
          /\ Bound(mem[IdOf[r]], r)
          /\ ~aborted[cam] => Unsettled(mem[IdOf[r]])
      BY <1>2, CurrentCommand
    <2>2. /\ mem[IdOf[r]].state # "absent" /\ ~mem[IdOf[r]].acked => after[IdOf[r]] = mem[IdOf[r]]
          /\ (\A q \in batch : IdOf[q] # IdOf[r]) /\ after[IdOf[r]].state # "absent"
                => after[IdOf[r]] = mem[IdOf[r]]
          /\ Spent(mem, r) /\ ~(DedupUntil(r) <= now) => Spent(after, r)
      BY <1>1, <2>1, AdmittedKeeps
    <2>3. ASSUME aborted[cam], NEW q \in batch
          PROVE  IdOf[q] # IdOf[r]
      BY <2>1, <2>3, LedgerAssumption
    <2> HIDE DEF after, r
    <2>4. Bound(after[IdOf[r]], r)
      BY <2>1, <2>2, <2>3 DEF Bound, Unsettled
    <2>5. ~aborted[cam] => Unsettled(after[IdOf[r]])
      BY <2>1, <2>2 DEF Unsettled
    <2> QED BY <2>2, <2>4, <2>5 DEF after, r, Lapsed
  <1>3. ASSUME NEW cam \in Cameras, Additions(mem, batch, now) = {}
        PROVE  Respects(cam, Prune(mem, now))
    <2>1. Admitted(mem, batch, now) = Prune(mem, now)
      BY <1>3 DEF Admitted, Prune
    <2> QED BY <1>2, <1>3, <2>1
  <1>4. CASE SaveByLoop(Admitted(mem, batch, now))
    <2>1. Sound(Admitted(mem, batch, now), now, transmitted)
      BY <1>1, AdmittedSound
    <2> QED BY <1>1, <1>2, <1>4, <2>1, LoopSaves
  <1>5. CASE Additions(mem, batch, now) = {} /\ mem' = Prune(mem, now)
               /\ UNCHANGED <<up, disk, workerVars>>
    <2>1. Sound(Prune(mem, now), now, transmitted)
      BY <1>1, PruneSound
    <2> QED BY <1>1, <1>3, <1>5, <2>1, LoopSound
  <1>6. CASE Halted /\ UNCHANGED disk
    BY <1>6, HaltedSound DEF IInv
  <1> QED BY <1>4, <1>5, <1>6


LEMMA AcknowledgeSound ==
    ASSUME IInv, NEW ids \in SUBSET Ids, Acknowledge(ids)
    PROVE  IInv'
  <1> USE DEF Acknowledge
  <1> DEFINE after == Acknowledged(mem, ids, now)
  <1>1. up /\ Sound(mem, now, transmitted) /\ mem \in Ledgers /\ now \in Nat
         /\ transmitted \in [Requests -> Nat]
    BY DEF IInv, Sound, TypeOK
  <1>2. CASE Acknowledgeable(mem, ids) /\ SaveByLoop(after)
    <2>1. Sound(after, now, transmitted)
      BY <1>1, <1>2, AcknowledgedSound
    <2>2. ASSUME NEW cam \in Cameras PROVE Respects(cam, after)
      <3> SUFFICES ASSUME pc[cam] \in Engaged
                   PROVE  LET r == Current(cam)
                          IN  /\ Bound(after[IdOf[r]], r)
                              /\ ~aborted[cam] => Unsettled(after[IdOf[r]])
                              /\ Spent(mem, r) /\ ~Lapsed(r) => Spent(after, r)
        BY DEF Respects
      <3> DEFINE r == Current(cam)
      <3>1. /\ r \in Requests
            /\ Bound(mem[IdOf[r]], r)
            /\ ~aborted[cam] => Unsettled(mem[IdOf[r]])
        BY <2>2, CurrentCommand
      <3>2. /\ mem[IdOf[r]].state \notin Verdicts /\ ~mem[IdOf[r]].acked => after[IdOf[r]] = mem[IdOf[r]]
            /\ after[IdOf[r]].state # "absent" => /\ mem[IdOf[r]].state # "absent"
                                                  /\ after[IdOf[r]].request = mem[IdOf[r]].request
            /\ Spent(mem, r) /\ ~(DedupUntil(r) <= now) => Spent(after, r)
        BY <1>1, <1>2, <3>1, AcknowledgedKeeps
      <3> HIDE DEF after, r
      <3>3. Bound(after[IdOf[r]], r)
        BY <3>1, <3>2 DEF Bound
      <3>4. ~aborted[cam] => Unsettled(after[IdOf[r]])
        BY <3>1, <3>2, VerdictsAreStates DEF Unsettled
      <3> QED BY <3>2, <3>3, <3>4 DEF r, Lapsed
    <2> QED BY <1>1, <1>2, <2>1, <2>2, LoopSaves
  <1>3. CASE after = mem /\ UNCHANGED <<up, mem, disk, workerVars>>
    <2>1. ASSUME NEW cam \in Cameras PROVE Respects(cam, mem)
      BY <2>1, CurrentCommand DEF Respects
    <2> QED BY <1>1, <1>3, <2>1, LoopSound
  <1>4. CASE Halted /\ UNCHANGED disk
    BY <1>4, HaltedSound DEF IInv
  <1> QED BY <1>2, <1>3, <1>4

LEMMA CancelSound ==
    ASSUME IInv, NEW r \in Requests, Cancel(r)
    PROVE  IInv'
  <1> USE DEF Cancel
  <1> DEFINE id == IdOf[r]
             v == CancelVerdict(mem[id].state)
             after == Completed(mem, id, v)
  <1>1. up /\ Sound(mem, now, transmitted) /\ mem \in Ledgers /\ now \in Nat
         /\ transmitted \in [Requests -> Nat] /\ id \in Ids
    BY LedgerAssumption DEF IInv, Sound, TypeOK
  <1>2. CASE mem[id].state # "absent" /\ SaveByLoop(after)
    <2>1. Sound(after, now, transmitted)
      BY <1>1, <1>2, CanceledSound
    <2>2. mem[id].state \in States
      BY <1>1, LedgerRecords
    <2>3. v \in States /\ v # "absent"
      BY <1>2, <2>2 DEF CancelVerdict, States, Verdicts, Failed
    <2>4. ASSUME NEW cam \in Cameras PROVE Respects(cam, after)
      <3> SUFFICES ASSUME pc[cam] \in Engaged
                   PROVE  LET q == Current(cam)
                          IN  /\ Bound(after[IdOf[q]], q)
                              /\ ~aborted[cam] => Unsettled(after[IdOf[q]])
                              /\ Spent(mem, q) /\ ~Lapsed(q) => Spent(after, q)
        BY DEF Respects
      <3> DEFINE q == Current(cam)
      <3>1. /\ q \in Requests /\ IdOf[q] \in Ids /\ CameraOf[q] = cam
            /\ Bound(mem[IdOf[q]], q)
            /\ ~aborted[cam] => Unsettled(mem[IdOf[q]])
        BY <2>4, CurrentCommand
      <3>2. LET changed == [mem EXCEPT ![id].state = v]
            IN  /\ IdOf[q] # id => changed[IdOf[q]] = mem[IdOf[q]]
                /\ changed[IdOf[q]].request = mem[IdOf[q]].request
                /\ changed[IdOf[q]].acked = mem[IdOf[q]].acked
                /\ IdOf[q] # id \/ v \in {"pending", "succeeded", "unknown"} =>
                     (Spent(mem, q) => Spent(changed, q))
        BY <1>1, <1>2, <2>3, <3>1, ChangedRecordKeeps
      <3>3. /\ IdOf[q] # id => after[IdOf[q]] = mem[IdOf[q]]
            /\ after[IdOf[q]].request = mem[IdOf[q]].request
            /\ IdOf[q] # id \/ v \in {"pending", "succeeded", "unknown"} =>
                 (Spent(mem, q) => Spent(after, q))
        BY <3>2 DEF Completed
      <3>4. IdOf[q] = id /\ Spent(mem, q) => v \in {"pending", "succeeded", "unknown"}
        BY DEF Spent, CancelVerdict
      <3>5. ~aborted[cam] => IdOf[q] # id
        <4>1. SUFFICES ASSUME ~aborted[cam], IdOf[q] = id PROVE FALSE
          OBVIOUS
        <4>2. CameraOf[r] = cam
          BY <4>1, <3>1, LedgerAssumption
        <4> QED BY <4>1, <4>2 DEF Engaged, Running
      <3> HIDE DEF after, q, id, v
      <3>6. Bound(after[IdOf[q]], q)
        <4>1. after[IdOf[q]].state # "absent" => mem[IdOf[q]].state # "absent"
          BY <1>2, <3>3
        <4> QED BY <4>1, <3>1, <3>3 DEF Bound
      <3>7. ~aborted[cam] => Unsettled(after[IdOf[q]])
        BY <3>1, <3>3, <3>5
      <3>8. Spent(mem, q) => Spent(after, q)
        BY <3>3, <3>4
      <3> QED BY <3>6, <3>7, <3>8 DEF q
    <2> QED BY <1>1, <1>2, <2>1, <2>4, LoopSaves
  <1>3. CASE Halted /\ UNCHANGED disk
    BY <1>3, HaltedSound DEF IInv
  <1> QED BY <1>2, <1>3


\* A step of one worker leaves the others sound.
LEMMA OthersSound ==
    ASSUME IInv, NEW cam \in Cameras, NEW other \in Cameras, other # cam, now' = now,
           pc'[other] = pc[other], queue'[other] = queue[other],
           aborted'[other] = aborted[other], verdict'[other] = verdict[other],
           \A r \in Requests : CameraOf[r] # cam =>
               /\ transmitted'[r] = transmitted[r]
               /\ mem'[IdOf[r]] = mem[IdOf[r]]
               /\ Spent(mem, r) /\ Spent(disk, r) => Spent(disk', r)
    PROVE  WorkerSound(other)'
  <1>1. WorkerSound(other) /\ now \in Nat /\ now' \in Nat /\ now <= now'
    BY DEF IInv, TypeOK
  <1>2. ASSUME pc[other] \in Engaged
        PROVE  LET r == Current(other)
               IN  /\ transmitted'[r] = transmitted[r]
                   /\ mem'[IdOf[r]].state # "absent" => mem'[IdOf[r]].request = r
                   /\ ~aborted'[other] => Unsettled(mem'[IdOf[r]])
                   /\ pc[other] = "send" /\ ~(DedupUntil(r) <= now') =>
                        Spent(mem', r) /\ Spent(disk', r)
    <2> DEFINE r == Current(other)
    <2>1. /\ r \in Requests /\ CameraOf[r] = other
          /\ Bound(mem[IdOf[r]], r)
          /\ ~aborted[other] => Unsettled(mem[IdOf[r]])
          /\ Progress(other)
      BY <1>2, CurrentCommand
    <2>2. /\ transmitted'[r] = transmitted[r]
          /\ mem'[IdOf[r]] = mem[IdOf[r]]
          /\ Spent(mem, r) /\ Spent(disk, r) => Spent(disk', r)
      BY <2>1
    <2>3. Spent(mem, r) => Spent(mem', r)
      BY <2>2 DEF Spent, Holds
    <2>4. pc[other] = "send" /\ ~(DedupUntil(r) <= now') => Spent(mem, r) /\ Spent(disk, r)
      BY <2>1 DEF Progress, Lapsed
    <2> HIDE DEF r
    <2>5. mem'[IdOf[r]].state # "absent" => mem'[IdOf[r]].request = r
      BY <2>1, <2>2 DEF Bound
    <2>6. ~aborted'[other] => Unsettled(mem'[IdOf[r]])
      BY <2>1, <2>2
    <2> QED BY <2>2, <2>3, <2>4, <2>5, <2>6 DEF r
  <1>3. (aborted[other] => aborted'[other]) /\ (pc[other] = "idle" => ~aborted'[other])
    BY <1>1 DEF WorkerSound
  <1> QED BY <1>1, <1>2, <1>3, WorkerFrame

\* A worker moves; the ledgers and what has been sent stay.
LEMMA MoveSound ==
    ASSUME IInv, NEW cam \in Cameras, TypeOK', WorkerSound(cam)',
           \A other \in Cameras \ {cam} :
               /\ pc'[other] = pc[other] /\ queue'[other] = queue[other]
               /\ aborted'[other] = aborted[other] /\ verdict'[other] = verdict[other],
           up, UNCHANGED <<now, up, mem, disk, transmitted>>
    PROVE  IInv'
  <1>1. ASSUME NEW other \in Cameras, other # cam PROVE WorkerSound(other)'
    BY <1>1, OthersSound
  <1>2. \A other \in Cameras : WorkerSound(other)'
    BY <1>1
  <1>3. Sound(disk', now', transmitted') /\ Sound(mem', now', transmitted')
    BY DEF IInv
  <1> QED BY <1>2, <1>3 DEF IInv, AtMostOnce

LEMMA LaunchSound ==
    ASSUME IInv, NEW cam \in Cameras, NEW commands \in Batches(cam), Launch(cam, commands)
    PROVE  IInv'
  <1> USE DEF Launch
  <1>1. /\ commands \in Seq(Requests)
        /\ \A i \in DOMAIN commands : CameraOf[commands[i]] = cam
    BY DEF Batches
  <1>2. TypeOK'
    BY <1>1 DEF IInv, TypeOK, Running, Ended
  <1>3. WorkerSound(cam)'
    BY <1>1 DEF IInv, TypeOK, WorkerSound, Engaged, Running
  <1>4. \A other \in Cameras \ {cam} :
            /\ pc'[other] = pc[other] /\ queue'[other] = queue[other]
            /\ aborted'[other] = aborted[other] /\ verdict'[other] = verdict[other]
    BY DEF IInv, TypeOK
  <1> QED BY <1>2, <1>3, <1>4, MoveSound

LEMMA CollectSound ==
    ASSUME IInv, NEW cam \in Cameras, Collect(cam)
    PROVE  IInv'
  <1> USE DEF Collect
  <1>1. CASE pc[cam] = "failed" /\ Halted
    BY <1>1, HaltedSound DEF IInv
  <1>2. CASE /\ pc[cam] = "done"
             /\ pc' = [pc EXCEPT ![cam] = "idle"]
             /\ queue' = [queue EXCEPT ![cam] = << >>]
             /\ aborted' = [aborted EXCEPT ![cam] = FALSE]
             /\ returned' = [returned EXCEPT ![cam] = {}]
             /\ UNCHANGED <<up, mem, verdict>>
    <2>1. TypeOK'
      BY <1>2 DEF IInv, TypeOK
    <2>2. WorkerSound(cam)'
      BY <1>2 DEF IInv, TypeOK, WorkerSound, Engaged, Running
    <2>3. \A other \in Cameras \ {cam} :
            /\ pc'[other] = pc[other] /\ queue'[other] = queue[other]
            /\ aborted'[other] = aborted[other] /\ verdict'[other] = verdict[other]
      BY <1>2 DEF IInv, TypeOK
    <2> QED BY <1>2, <2>1, <2>2, <2>3, MoveSound
  <1> QED BY <1>1, <1>2

LEMMA DropSound ==
    ASSUME IInv, NEW cam \in Cameras, DropAborted(cam)
    PROVE  IInv'
  <1> USE DEF DropAborted
  <1>1. up
    BY DEF IInv, Zombie, Running
  <1>2. TypeOK'
    BY DEF IInv, TypeOK, Verdicts
  <1>3. WorkerSound(cam)'
    BY DEF IInv, TypeOK, WorkerSound, Engaged, Running
  <1>4. \A other \in Cameras \ {cam} :
            /\ pc'[other] = pc[other] /\ queue'[other] = queue[other]
            /\ aborted'[other] = aborted[other] /\ verdict'[other] = verdict[other]
    BY DEF IInv, TypeOK
  <1> QED BY <1>1, <1>2, <1>3, <1>4, MoveSound

LEMMA AbortSound ==
    ASSUME IInv, NEW S \in SUBSET Cameras, AbortWorkers(S)
    PROVE  IInv'
  <1> USE DEF AbortWorkers
  <1>1. TypeOK'
    BY DEF IInv, TypeOK
  <1>2. ASSUME NEW cam \in Cameras PROVE WorkerSound(cam)'
    <2>1. WorkerSound(cam) /\ now \in Nat /\ now' \in Nat /\ now <= now'
      BY DEF IInv, TypeOK
    <2>2. (aborted[cam] => aborted'[cam]) /\ (pc[cam] = "idle" => ~aborted'[cam])
      BY <1>2, <2>1 DEF WorkerSound
    <2>3. ASSUME pc[cam] \in Engaged
          PROVE  LET r == Current(cam)
                 IN  /\ transmitted'[r] = transmitted[r]
                     /\ mem'[IdOf[r]].state # "absent" => mem'[IdOf[r]].request = r
                     /\ ~aborted'[cam] => Unsettled(mem'[IdOf[r]])
                     /\ pc[cam] = "send" /\ ~(DedupUntil(r) <= now') =>
                          Spent(mem', r) /\ Spent(disk', r)
      BY <2>1, <2>2, <2>3 DEF WorkerSound, Bound, Progress, Lapsed
    <2> QED BY <1>2, <2>1, <2>2, <2>3, WorkerFrame
  <1>3. Sound(disk', now', transmitted') /\ Sound(mem', now', transmitted')
    BY DEF IInv
  <1> QED BY <1>1, <1>2, <1>3 DEF IInv, AtMostOnce


-----------------------------------------------------------------------------
(***************************************************************************)
(* The process and the clock.                                              *)
(***************************************************************************)
LEMMA TickSound ==
    ASSUME IInv, Tick
    PROVE  IInv'
  <1> USE DEF Tick, workerVars
  <1>1. now \in Nat /\ now' \in Nat /\ now <= now'
    BY DEF IInv, TypeOK
  <1>2. TypeOK'
    BY DEF IInv, TypeOK
  <1>3. Sound(disk', now', transmitted') /\ (up' => Sound(mem', now', transmitted'))
    BY <1>1, SoundLater DEF IInv
  <1>4. ASSUME NEW cam \in Cameras PROVE WorkerSound(cam)'
    <2>1. (aborted[cam] => aborted'[cam]) /\ (pc[cam] = "idle" => ~aborted'[cam])
      BY <1>4 DEF IInv, WorkerSound
    <2>2. ASSUME pc[cam] \in Engaged
          PROVE  LET r == Current(cam)
                 IN  /\ transmitted'[r] = transmitted[r]
                     /\ mem'[IdOf[r]].state # "absent" => mem'[IdOf[r]].request = r
                     /\ ~aborted'[cam] => Unsettled(mem'[IdOf[r]])
                     /\ pc[cam] = "send" /\ ~(DedupUntil(r) <= now') =>
                          Spent(mem', r) /\ Spent(disk', r)
      <3> DEFINE r == Current(cam)
      <3>1. /\ r \in Requests
            /\ Bound(mem[IdOf[r]], r)
            /\ ~aborted[cam] => Unsettled(mem[IdOf[r]])
            /\ Progress(cam)
        BY <1>4, <2>2, CurrentCommand
      <3>2. DedupUntil(r) \in Nat
        BY <3>1, LedgerAssumption DEF DedupUntil
      <3>3. ~(DedupUntil(r) <= now') => ~Lapsed(r)
        BY <1>1, <3>2 DEF Lapsed
      <3> QED BY <3>1, <3>3 DEF Bound, Progress
    <2> QED BY <1>1, <1>4, <2>1, <2>2, WorkerFrame
  <1> QED BY <1>2, <1>3, <1>4 DEF IInv, AtMostOnce

LEMMA HaltSound ==
    ASSUME IInv, Halt
    PROVE  IInv'
  BY HaltedSound DEF Halt, IInv

LEMMA OpenSound ==
    ASSUME IInv, Open
    PROVE  IInv'
  <1> USE DEF Open
  <1> DEFINE opened == Opened(disk, now)
  <1>1. Sound(opened, now, transmitted)
    BY OpenedSound DEF IInv, TypeOK
  <1>2. CASE up' = TRUE /\ mem' = opened /\ disk' = opened /\ UNCHANGED workerVars
    <2> USE <1>2 DEF workerVars
    <2>1. TypeOK'
      BY <1>1 DEF IInv, TypeOK, Sound
    <2>2. ASSUME NEW cam \in Cameras PROVE WorkerSound(cam)'
      BY <2>2 DEF IInv, WorkerSound, Engaged, Running
    <2> QED BY <1>1, <2>1, <2>2 DEF IInv, AtMostOnce
  <1>3. CASE SaveFails(opened)
    <2>1. Halted /\ disk' \in {disk, opened}
      BY <1>3 DEF SaveFails
    <2>2. Sound(disk', now, transmitted)
      BY <1>1, <2>1 DEF IInv
    <2> QED BY <2>1, <2>2, HaltedSound
  <1> QED BY <1>2, <1>3

-----------------------------------------------------------------------------
(***************************************************************************)
(* Steps of a worker.                                                      *)
(***************************************************************************)
LEMMA WorkerUp ==
    ASSUME IInv, NEW cam \in Cameras, pc[cam] # "idle"
    PROVE  up /\ Sound(mem, now, transmitted) /\ mem \in Ledgers
  BY DEF IInv, Sound

LEMMA FinishSound ==
    ASSUME IInv, NEW cam \in Cameras, Finish(cam)
    PROVE  IInv'
  <1> USE DEF Finish, Step
  <1>1. TypeOK'
    BY DEF IInv, TypeOK, Running, Ended
  <1>2. WorkerSound(cam)'
    BY DEF IInv, TypeOK, WorkerSound, Engaged, Running
  <1>3. \A other \in Cameras \ {cam} :
            /\ pc'[other] = pc[other] /\ queue'[other] = queue[other]
            /\ aborted'[other] = aborted[other] /\ verdict'[other] = verdict[other]
    BY DEF IInv, TypeOK
  <1> QED BY <1>1, <1>2, <1>3, MoveSound

\* The rest of a worker's queue.
LEMMA TailOwned ==
    ASSUME IInv, NEW cam \in Cameras, queue[cam] # << >>
    PROVE  /\ Current(cam) \in Requests /\ CameraOf[Current(cam)] = cam
           /\ Tail(queue[cam]) \in Seq(Requests)
           /\ \A i \in DOMAIN Tail(queue[cam]) : CameraOf[Tail(queue[cam])[i]] = cam
  <1>1. queue[cam] \in Seq(Requests) /\ \A i \in DOMAIN queue[cam] : CameraOf[queue[cam][i]] = cam
    BY DEF IInv, TypeOK, WorkerSound
  <1>2. Tail(queue[cam]) \in Seq(Requests) /\ Current(cam) = queue[cam][1]
          /\ 1 \in DOMAIN queue[cam] /\ Current(cam) \in Requests
    BY <1>1 DEF Current
  <1>3. ASSUME NEW i \in DOMAIN Tail(queue[cam])
        PROVE  Tail(queue[cam])[i] = queue[cam][i + 1] /\ i + 1 \in DOMAIN queue[cam]
    BY <1>1, <1>3
  <1> QED BY <1>1, <1>2, <1>3

LEMMA ReplaySound ==
    ASSUME IInv, NEW cam \in Cameras, Replay(cam)
    PROVE  IInv'
  <1> USE DEF Replay
  <1> DEFINE r == Current(cam)
             known == Replayed(mem, r)
  <1>1. /\ r \in Requests /\ CameraOf[r] = cam
        /\ Tail(queue[cam]) \in Seq(Requests)
        /\ \A i \in DOMAIN Tail(queue[cam]) : CameraOf[Tail(queue[cam])[i]] = cam
    BY TailOwned
  <1>2. WorkerSound(cam) /\ Sound(mem, now, transmitted) /\ mem \in Ledgers
    BY WorkerUp DEF IInv
  <1>3. \A other \in Cameras \ {cam} :
            /\ pc'[other] = pc[other] /\ queue'[other] = queue[other]
            /\ aborted'[other] = aborted[other] /\ verdict'[other] = verdict[other]
    BY DEF IInv, TypeOK, Return
  <1>4. CASE known = "error" /\ pc' = [pc EXCEPT ![cam] = "failed"] /\ UNCHANGED <<queue, returned>>
    <2>1. TypeOK'
      BY <1>4 DEF IInv, TypeOK, Ended
    <2>2. WorkerSound(cam)'
      BY <1>2, <1>4 DEF IInv, TypeOK, WorkerSound, Engaged, Running
    <2> QED BY <2>1, <2>2, <1>3, MoveSound
  <1>5. CASE known = "fresh" /\ pc' = [pc EXCEPT ![cam] = "deadline"] /\ UNCHANGED <<queue, returned>>
    <2>1. TypeOK'
      BY <1>5 DEF IInv, TypeOK, Running
    <2>2. mem[IdOf[r]].state \in States /\ IdOf[r] \in Ids
      BY <1>1, <1>2, LedgerAssumption, LedgerRecords
    <2>3. Holds(mem, r) /\ mem[IdOf[r]].state = "queued"
      BY <1>1, <1>2, <1>5, FreshIsQueued
    <2>4. ~mem[IdOf[r]].acked
      BY <1>2, <2>2, <2>3, VerdictsAreStates DEF Sound, AckedDecided
    <2>5. transmitted[r] \in Nat
      BY <1>1 DEF IInv, TypeOK
    <2>6. transmitted[r] = 0 \/ Lapsed(r)
      BY <1>1, <1>2, <2>3, <2>5 DEF Sound, Remembers, Spent, Lapsed
    <2>7. Current(cam)' = r /\ pc'[cam] = "deadline" /\ aborted' = aborted
      BY <1>5 DEF Current, IInv, TypeOK
    <2>8. Progress(cam)'
      BY <2>6, <2>7 DEF Progress, Lapsed
    <2>9. Bound(mem[IdOf[r]], r) /\ Unsettled(mem[IdOf[r]])
      BY <2>3, <2>4 DEF Bound, Unsettled, Holds
    <2>10. WorkerSound(cam)'
      BY <1>2, <1>5, <2>7, <2>8, <2>9 DEF WorkerSound, Bound, Unsettled
    <2> QED BY <2>1, <2>10, <1>3, MoveSound
  <1>6. CASE known \in Verdicts /\ UNCHANGED pc /\ Return(cam, known, FALSE)
    <2>1. TypeOK'
      <3> HIDE DEF known
      <3>1. [request |-> Current(cam), verdict |-> known, fresh |-> FALSE] \in Results
        BY <1>1, <1>6 DEF Results
      <3>2. returned' \in [Cameras -> SUBSET Results]
        BY <1>6, <3>1 DEF IInv, TypeOK, Return
      <3>3. queue' \in [Cameras -> Seq(Requests)]
        BY <1>1, <1>6 DEF IInv, TypeOK, Return
      <3> QED BY <1>6, <3>2, <3>3 DEF IInv, TypeOK
    <2>2. queue'[cam] = Tail(queue[cam])
      BY <1>6 DEF IInv, TypeOK, Return
    <2>3. WorkerSound(cam)'
      BY <1>1, <1>2, <1>6, <2>2 DEF WorkerSound, Engaged
    <2> QED BY <2>1, <2>3, <1>3, MoveSound
  <1> QED BY <1>4, <1>5, <1>6


LEMMA CheckDeadlineSound ==
    ASSUME IInv, NEW cam \in Cameras, CheckDeadline(cam)
    PROVE  IInv'
  <1> USE DEF CheckDeadline, Step
  <1> DEFINE r == Current(cam)
  <1>1. pc[cam] = "deadline" /\ pc[cam] \in Engaged
    BY DEF Engaged, Running
  <1>2. /\ r \in Requests
        /\ Bound(mem[IdOf[r]], r)
        /\ ~aborted[cam] => Unsettled(mem[IdOf[r]])
        /\ queue[cam] # << >>
        /\ transmitted[r] = 0 \/ Lapsed(r)
        /\ up
    BY <1>1, CurrentCommand DEF Progress
  <1>3. TypeOK'
    <2>1. pc' \in [Cameras -> Running \cup Ended \cup {"idle"}]
      BY DEF IInv, TypeOK, Running
    <2>2. verdict' \in [Cameras -> Verdicts]
      BY DEF IInv, TypeOK, Verdicts, Failed
    <2> QED BY <2>1, <2>2 DEF IInv, TypeOK
  <1>4. \A other \in Cameras \ {cam} :
            /\ pc'[other] = pc[other] /\ queue'[other] = queue[other]
            /\ aborted'[other] = aborted[other] /\ verdict'[other] = verdict[other]
    BY DEF IInv, TypeOK
  <1>5. Current(cam)' = r
    BY DEF Current
  <1>6. pc'[cam] = "complete" \/ (pc'[cam] = "begin" /\ ExpiresAt[r] > now)
    BY DEF IInv, TypeOK
  <1>7. pc'[cam] = "complete" => verdict'[cam] \in Failed
    <2>1. CASE /\ pc' = [pc EXCEPT ![cam] = "complete"]
               /\ verdict' = [verdict EXCEPT ![cam] = "expired_before_execution"]
      BY <2>1 DEF IInv, TypeOK, Failed
    <2>2. CASE verdict' \in {[verdict EXCEPT ![cam] = v] : v \in Failed \ {"expired_before_execution"}}
      BY <2>2 DEF IInv, TypeOK
    <2>3. CASE pc' = [pc EXCEPT ![cam] = "begin"]
      BY <2>3 DEF IInv, TypeOK
    <2> QED BY <2>1, <2>2, <2>3
  <1>8. ExpiresAt[r] > now => ~Lapsed(r)
    BY <1>2, LedgerAssumption DEF Lapsed, DedupUntil, IInv, TypeOK
  <1>9. Progress(cam)'
    <2>1. CASE pc'[cam] = "complete"
      BY <1>2, <1>5, <1>7, <2>1, VerdictsAreStates DEF Progress, Lapsed
    <2>2. CASE pc'[cam] = "begin" /\ ExpiresAt[r] > now
      BY <1>2, <1>5, <1>8, <2>2 DEF Progress
    <2> QED BY <1>6, <2>1, <2>2
  <1>10. WorkerSound(cam)'
    BY <1>2, <1>5, <1>6, <1>9 DEF IInv, WorkerSound, Bound, Unsettled
  <1> QED BY <1>2, <1>3, <1>4, <1>10, MoveSound

LEMMA AnswerSound ==
    ASSUME IInv, NEW cam \in Cameras, Answer(cam)
    PROVE  IInv'
  <1> USE DEF Answer, Step
  <1> DEFINE r == Current(cam)
  <1>1. pc[cam] = "reply" /\ pc[cam] \in Engaged
    BY DEF Engaged, Running
  <1>2. /\ Bound(mem[IdOf[r]], r)
        /\ ~aborted[cam] => Unsettled(mem[IdOf[r]])
        /\ queue[cam] # << >>
        /\ transmitted[r] > 0
        /\ up
    BY <1>1, CurrentCommand DEF Progress
  <1>3. TypeOK'
    BY DEF IInv, TypeOK, Running, Verdicts
  <1>4. \A other \in Cameras \ {cam} :
            /\ pc'[other] = pc[other] /\ queue'[other] = queue[other]
            /\ aborted'[other] = aborted[other] /\ verdict'[other] = verdict[other]
    BY DEF IInv, TypeOK
  <1>5. Current(cam)' = r /\ pc'[cam] = "complete" /\ verdict'[cam] \in {"succeeded", "unknown"}
    BY DEF Current, IInv, TypeOK
  <1>6. Progress(cam)'
    BY <1>2, <1>5 DEF Progress, Failed
  <1>7. WorkerSound(cam)'
    BY <1>2, <1>5, <1>6 DEF IInv, WorkerSound, Bound, Unsettled
  <1> QED BY <1>2, <1>3, <1>4, <1>7, MoveSound

\* A worker writes the ledger: the record of its command, and nothing else.
LEMMA WriteSound ==
    ASSUME IInv, NEW cam \in Cameras, pc[cam] \in Engaged, NEW v \in States, v # "absent",
           mem[IdOf[Current(cam)]].state # "absent",
           NEW saved, saved = [mem EXCEPT ![IdOf[Current(cam)]].state = v],
           Sound(saved, now, transmitted), mem' = saved, disk' \in {disk, saved},
           TypeOK', WorkerSound(cam)',
           \A other \in Cameras \ {cam} :
               /\ pc'[other] = pc[other] /\ queue'[other] = queue[other]
               /\ aborted'[other] = aborted[other] /\ verdict'[other] = verdict[other],
           UNCHANGED <<now, up, transmitted>>
    PROVE  IInv'
  <1> DEFINE id == IdOf[Current(cam)]
  <1>1. /\ Current(cam) \in Requests /\ id \in Ids /\ CameraOf[Current(cam)] = cam
        /\ mem \in Ledgers /\ up
    BY CurrentCommand
  <1>2. ASSUME NEW r \in Requests, CameraOf[r] # cam
        PROVE  /\ transmitted'[r] = transmitted[r]
               /\ mem'[IdOf[r]] = mem[IdOf[r]]
               /\ Spent(mem, r) /\ Spent(disk, r) => Spent(disk', r)
    <2>1. IdOf[r] # id
      BY <1>1, <1>2, LedgerAssumption
    <2>2. LET after == [mem EXCEPT ![id].state = v]
          IN  /\ IdOf[r] # id => after[IdOf[r]] = mem[IdOf[r]]
              /\ after[IdOf[r]].request = mem[IdOf[r]].request
              /\ after[IdOf[r]].acked = mem[IdOf[r]].acked
              /\ IdOf[r] # id \/ v \in {"pending", "succeeded", "unknown"} =>
                   (Spent(mem, r) => Spent(after, r))
      BY <1>1, ChangedRecordKeeps
    <2>3. saved[IdOf[r]] = mem[IdOf[r]] /\ (Spent(mem, r) => Spent(saved, r))
      BY <2>1, <2>2
    <2> QED BY <2>3
  <1>3. ASSUME NEW other \in Cameras, other # cam PROVE WorkerSound(other)'
    BY <1>2, <1>3, OthersSound
  <1>4. Sound(disk', now', transmitted') /\ Sound(mem', now', transmitted')
    BY DEF IInv
  <1>5. \A other \in Cameras : WorkerSound(other)'
    BY <1>3
  <1> QED BY <1>1, <1>4, <1>5 DEF IInv, AtMostOnce

LEMMA BeginSound ==
    ASSUME IInv, NEW cam \in Cameras, Begin(cam)
    PROVE  IInv'
  <1> USE DEF Begin
  <1> DEFINE r == Current(cam)
             id == IdOf[r]
             saved == [mem EXCEPT ![id].state = "pending"]
  <1>1. pc[cam] = "begin" /\ pc[cam] \in Engaged /\ up
    BY DEF Engaged, Running
  <1>2. /\ r \in Requests /\ id \in Ids
        /\ Bound(mem[id], r)
        /\ ~aborted[cam] => Unsettled(mem[id])
        /\ queue[cam] # << >>
        /\ transmitted[r] = 0
        /\ Sound(mem, now, transmitted) /\ mem \in Ledgers
    BY <1>1, CurrentCommand DEF Progress
  <1>3. now \in Nat /\ transmitted \in [Requests -> Nat]
    BY DEF IInv, TypeOK
  <1>4. \A other \in Cameras \ {cam} :
            /\ pc'[other] = pc[other] /\ queue'[other] = queue[other]
            /\ aborted'[other] = aborted[other] /\ verdict'[other] = verdict[other]
    BY DEF IInv, TypeOK
  <1>5. "pending" \in States /\ "pending" # "absent"
    BY DEF States
  <1>6. Current(cam)' = r
    BY DEF Current
  <1>7. CASE mem[id].state = "queued" /\ mem' = saved /\ disk' \in {disk, saved}
               /\ ((pc' = [pc EXCEPT ![cam] = "send"] /\ disk' = saved)
                    \/ pc' = [pc EXCEPT ![cam] = "failed"])
    <2>1. mem[id].state # "absent"
      BY <1>7
    <2>2. /\ saved \in Ledgers
          /\ saved[id] = [mem[id] EXCEPT !.state = "pending"]
          /\ \A other \in Ids : other # id => saved[other] = mem[other]
      BY <1>2, <1>5, <2>1, ChangedRecordIsLedger
    <2>3. Sound(Begun(mem, id), now, transmitted)
      BY <1>2, <1>3, <1>7, BegunSound
    <2>4. Sound(saved, now, transmitted)
      BY <2>3 DEF Begun
    <2>5. mem[id] \in Record /\ mem[id].request = r
      BY <1>2, <2>1, LedgerRecords DEF Bound
    <2>6. saved[id].request = r /\ saved[id].state = "pending" /\ saved[id].acked = mem[id].acked
      BY <2>2, <2>5 DEF Record
    <2>7. Spent(saved, r)
      BY <2>6 DEF Spent, Holds
    <2> HIDE DEF saved, r, id
    <2>8. TypeOK'
      <3>1. mem' \in Ledgers /\ disk' \in Ledgers
        BY <1>7, <2>2 DEF IInv, TypeOK
      <3>2. pc' \in [Cameras -> Running \cup Ended \cup {"idle"}]
        BY <1>7 DEF IInv, TypeOK, Running, Ended
      <3> QED BY <3>1, <3>2 DEF IInv, TypeOK
    <2>9. WorkerSound(cam)'
      <3>1. WorkerSound(cam)
        BY DEF IInv
      <3>2. CASE pc' = [pc EXCEPT ![cam] = "send"] /\ disk' = saved
        <4>1. pc'[cam] = "send"
          BY <3>2 DEF IInv, TypeOK
        <4>2. mem'[IdOf[Current(cam)']] = saved[id]
          BY <1>6, <1>7 DEF id
        <4>3. Progress(cam)'
          BY <1>2, <1>6, <1>7, <2>7, <3>2, <4>1 DEF Progress
        <4>4. Bound(mem'[IdOf[Current(cam)']], Current(cam)')
          BY <1>6, <2>6, <4>2 DEF Bound
        <4>5. ~aborted'[cam] => Unsettled(mem'[IdOf[Current(cam)']])
          BY <1>2, <2>6, <4>2 DEF Unsettled
        <4> QED BY <1>2, <3>1, <4>1, <4>3, <4>4, <4>5 DEF WorkerSound
      <3>3. CASE pc' = [pc EXCEPT ![cam] = "failed"]
        <4>1. pc'[cam] = "failed"
          BY <3>3 DEF IInv, TypeOK
        <4> QED BY <3>1, <4>1 DEF WorkerSound, Engaged, Running
      <3> QED BY <1>7, <3>2, <3>3
    <2>10. saved = [mem EXCEPT ![IdOf[Current(cam)]].state = "pending"]
             /\ mem[IdOf[Current(cam)]].state # "absent"
      BY <2>1 DEF saved, id, r
    <2> QED BY <1>1, <1>4, <1>5, <1>7, <2>4, <2>8, <2>9, <2>10, WriteSound
  <1>8. CASE pc' = [pc EXCEPT ![cam] = "failed"] /\ UNCHANGED <<mem, disk>>
    <2>1. TypeOK'
      BY <1>8 DEF IInv, TypeOK, Ended
    <2>2. WorkerSound(cam)'
      BY <1>8 DEF IInv, TypeOK, WorkerSound, Engaged, Running
    <2> QED BY <1>1, <1>4, <1>8, <2>1, <2>2, MoveSound
  <1> QED BY <1>7, <1>8 DEF Begun

LEMMA TransmitSound ==
    ASSUME IInv, NEW cam \in Cameras, Transmit(cam)
    PROVE  IInv'
  <1> USE DEF Transmit, Step
  <1> DEFINE r == Current(cam)
  <1>1. pc[cam] = "send" /\ pc[cam] \in Engaged /\ up
    BY DEF Engaged, Running
  <1>2. /\ r \in Requests /\ CameraOf[r] = cam
        /\ Bound(mem[IdOf[r]], r)
        /\ ~aborted[cam] => Unsettled(mem[IdOf[r]])
        /\ queue[cam] # << >>
        /\ transmitted[r] = 0
        /\ Lapsed(r) \/ (Spent(mem, r) /\ Spent(disk, r))
        /\ Sound(mem, now, transmitted)
    BY <1>1, CurrentCommand DEF Progress
  <1>3. \A other \in Cameras \ {cam} :
            /\ pc'[other] = pc[other] /\ queue'[other] = queue[other]
            /\ aborted'[other] = aborted[other] /\ verdict'[other] = verdict[other]
    BY DEF IInv, TypeOK
  <1>4. Current(cam)' = r
    BY DEF Current
  <1>5. CASE /\ pc' = [pc EXCEPT ![cam] = "reply"]
             /\ transmitted' = [transmitted EXCEPT ![r] = @ + 1]
             /\ UNCHANGED verdict
    <2>1. TypeOK'
      BY <1>2, <1>5 DEF IInv, TypeOK, Running
    <2>2. transmitted'[r] = 1 /\ \A q \in Requests : q # r => transmitted'[q] = transmitted[q]
      BY <1>2, <1>5 DEF IInv, TypeOK
    <2>3. Sound(mem', now', transmitted') /\ Sound(disk', now', transmitted')
      <3>1. now \in Nat /\ transmitted \in [Requests -> Nat] /\ Sound(disk, now, transmitted)
        BY DEF IInv, TypeOK
      <3> QED BY <1>2, <1>5, <3>1, SoundSent DEF Lapsed
    <2>4. WorkerSound(cam)'
      <3>1. pc'[cam] = "reply"
        BY <1>5 DEF IInv, TypeOK
      <3>2. Progress(cam)'
        BY <1>4, <2>2, <3>1 DEF Progress
      <3> QED BY <1>2, <1>4, <3>1, <3>2 DEF IInv, WorkerSound
    <2>5. ASSUME NEW other \in Cameras, other # cam PROVE WorkerSound(other)'
      <3>1. \A q \in Requests : CameraOf[q] # cam =>
               /\ transmitted'[q] = transmitted[q]
               /\ mem'[IdOf[q]] = mem[IdOf[q]]
               /\ Spent(mem, q) /\ Spent(disk, q) => Spent(disk', q)
        BY <1>2, <2>2
      <3> QED BY <1>3, <2>5, <3>1, OthersSound
    <2>6. \A other \in Cameras : WorkerSound(other)'
      BY <2>4, <2>5
    <2>7. AtMostOnce'
      BY <2>2 DEF IInv, AtMostOnce
    <2> QED BY <1>1, <2>1, <2>3, <2>6, <2>7 DEF IInv
  <1>6. CASE /\ pc' = [pc EXCEPT ![cam] = "complete"]
             /\ verdict' = [verdict EXCEPT ![cam] = "unknown"]
             /\ UNCHANGED transmitted
    <2>1. TypeOK'
      BY <1>6 DEF IInv, TypeOK, Running, Verdicts
    <2>2. pc'[cam] = "complete" /\ verdict'[cam] = "unknown"
      BY <1>6 DEF IInv, TypeOK
    <2>3. Progress(cam)'
      BY <1>4, <2>2 DEF Progress, Failed
    <2>4. WorkerSound(cam)'
      BY <1>2, <1>4, <2>2, <2>3 DEF IInv, WorkerSound
    <2> QED BY <1>1, <1>3, <1>6, <2>1, <2>4, MoveSound
  <1> QED BY <1>5, <1>6

LEMMA CompleteSound ==
    ASSUME IInv, NEW cam \in Cameras, Complete(cam)
    PROVE  IInv'
  <1> USE DEF Complete
  <1> DEFINE r == Current(cam)
             id == IdOf[r]
             v == verdict[cam]
             saved == [mem EXCEPT ![id].state = v]
  <1>1. pc[cam] = "complete" /\ pc[cam] \in Engaged /\ up
    BY DEF Engaged, Running
  <1>2. /\ r \in Requests /\ id \in Ids /\ queue[cam] # << >>
        /\ Bound(mem[id], r)
        /\ v \in Failed => transmitted[r] = 0 \/ Lapsed(r)
        /\ v = "succeeded" => transmitted[r] > 0
        /\ Sound(mem, now, transmitted) /\ mem \in Ledgers
    BY <1>1, CurrentCommand DEF Progress
  <1>3. now \in Nat /\ transmitted \in [Requests -> Nat] /\ v \in Verdicts
    BY DEF IInv, TypeOK
  <1>4. v \in States /\ v # "absent"
    BY <1>3, VerdictsAreStates
  <1>5. \A other \in Cameras \ {cam} :
            /\ pc'[other] = pc[other] /\ queue'[other] = queue[other]
            /\ aborted'[other] = aborted[other] /\ verdict'[other] = verdict[other]
    BY DEF IInv, TypeOK, Return
  <1>6. /\ Tail(queue[cam]) \in Seq(Requests)
        /\ \A i \in DOMAIN Tail(queue[cam]) : CameraOf[Tail(queue[cam])[i]] = cam
    BY <1>2, TailOwned
  <1>7. CASE mem[id].state # "absent" /\ mem' = saved /\ disk' \in {disk, saved}
               /\ \/ /\ pc' = [pc EXCEPT ![cam] = "replay"]
                     /\ Return(cam, v, v # "expired_before_execution")
                     /\ verdict' = [verdict EXCEPT ![cam] = "unknown"]
                  \/ pc' = [pc EXCEPT ![cam] = "failed"] /\ UNCHANGED <<queue, verdict, returned>>
    <2>1. saved \in Ledgers
      BY <1>2, <1>4, <1>7, ChangedRecordIsLedger
    <2>2. ASSUME NEW q \in Requests, mem[id].request = q, IdOf[q] = id
          PROVE  /\ v \notin {"pending", "succeeded", "unknown"} =>
                      transmitted[q] = 0 \/ DedupUntil(q) <= now
                 /\ v = "succeeded" => transmitted[q] > 0
      <3>1. q = r
        BY <1>2, <1>7, <2>2 DEF Bound
      <3>2. v \notin {"pending", "succeeded", "unknown"} => v \in Failed
        BY <1>3 DEF Verdicts
      <3> QED BY <1>2, <3>1, <3>2 DEF Lapsed
    <2>3. Sound(saved, now, transmitted)
      <3> HIDE DEF id, v
      <3> QED BY <1>2, <1>3, <1>4, <1>7, <2>2, ChangedRecordSound
    <2>4. queue'[cam] \in {queue[cam], Tail(queue[cam])}
      BY <1>7 DEF IInv, TypeOK, Return
    <2>5. pc'[cam] \in {"replay", "failed"}
      BY <1>7 DEF IInv, TypeOK
    <2>6. TypeOK'
      <3> HIDE DEF saved
      <3>1. mem' \in Ledgers /\ disk' \in Ledgers
        BY <1>7, <2>1 DEF IInv, TypeOK
      <3>2. pc' \in [Cameras -> Running \cup Ended \cup {"idle"}]
        BY <1>7 DEF IInv, TypeOK, Running, Ended
      <3>3. queue' \in [Cameras -> Seq(Requests)]
        BY <1>6, <1>7 DEF IInv, TypeOK, Return
      <3>4. verdict' \in [Cameras -> Verdicts]
        BY <1>7 DEF IInv, TypeOK, Verdicts
      <3> DEFINE result == [request |-> r, verdict |-> v, fresh |-> v # "expired_before_execution"]
      <3>5. result \in Results
        BY <1>2, <1>3 DEF Results
      <3>6. \/ returned' = returned
            \/ returned' = [returned EXCEPT ![cam] = @ \cup {result}]
        BY <1>7 DEF Return
      <3>7. returned' \in [Cameras -> SUBSET Results]
        <4> HIDE DEF result
        <4>1. returned \in [Cameras -> SUBSET Results]
          BY DEF IInv, TypeOK
        <4> HIDE DEF Complete
        <4> QED BY <3>5, <3>6, <4>1
      <3> QED BY <1>7, <3>1, <3>2, <3>3, <3>4, <3>7 DEF IInv, TypeOK
    <2>7. WorkerSound(cam)'
      BY <1>6, <2>4, <2>5 DEF IInv, WorkerSound, Engaged, Running
    <2> QED BY <1>1, <1>4, <1>5, <1>7, <2>3, <2>6, <2>7, WriteSound
  <1>8. CASE pc' = [pc EXCEPT ![cam] = "failed"] /\ UNCHANGED <<mem, disk, queue, verdict, returned>>
    <2>1. TypeOK'
      BY <1>8 DEF IInv, TypeOK, Ended
    <2>2. WorkerSound(cam)'
      BY <1>8 DEF IInv, TypeOK, WorkerSound, Engaged, Running
    <2> QED BY <1>1, <1>5, <1>8, <2>1, <2>2, MoveSound
  <1> QED BY <1>7, <1>8 DEF Completed

LEMMA WorkerStepSound ==
    ASSUME IInv, NEW cam \in Cameras, WorkerStep(cam)
    PROVE  IInv'
  BY FinishSound, ReplaySound, CheckDeadlineSound, BeginSound, TransmitSound,
     AnswerSound, CompleteSound, DropSound
     DEF WorkerStep

LEMMA LoopStepSound ==
    ASSUME IInv, LoopStep
    PROVE  IInv'
  BY AdmitSound, LaunchSound, AbortSound, CancelSound, AcknowledgeSound, CollectSound
     DEF LoopStep

LEMMA StutterSound ==
    ASSUME IInv, UNCHANGED vars
    PROVE  IInv'
  BY DEF vars, IInv, TypeOK, WorkerSound, Progress, Current, Lapsed, AtMostOnce

LEMMA StepSound ==
    ASSUME IInv, [Next]_vars
    PROVE  IInv'
  <1>1. CASE Tick
    BY <1>1, TickSound
  <1>2. CASE Open
    BY <1>2, OpenSound
  <1>3. CASE Halt
    BY <1>3, HaltSound
  <1>4. CASE LoopStep
    BY <1>4, LoopStepSound
  <1>5. CASE \E cam \in Cameras : WorkerStep(cam)
    BY <1>5, WorkerStepSound
  <1>6. CASE UNCHANGED vars
    BY <1>6, StutterSound
  <1> QED BY <1>1, <1>2, <1>3, <1>4, <1>5, <1>6 DEF Next

-----------------------------------------------------------------------------
(***************************************************************************)
(* The theorems.                                                           *)
(***************************************************************************)
\* Every step keeps the ledgers, on disk and in memory, and the workers sound:
\* whatever the loop calls, and wherever a worker is aborted, a write fails or the
\* process ends.
THEOREM InductiveInvariant == Spec => []IInv
  <1>1. IInv /\ [Next]_vars => IInv'
    BY StepSound
  <1> QED BY <1>1, InitSound, PTL DEF Spec

\* Every variable of the execution model keeps its type.
THEOREM TypeCorrect == Spec => []TypeOK
  <1>1. IInv => TypeOK
    BY DEF IInv
  <1> QED BY <1>1, InductiveInvariant, PTL

\* For any cameras, commands, deadlines and ledger size: a command is sent to its
\* camera at most once (begin and open of the ledger, execute_commands).
THEOREM SentAtMostOnce == Spec => []AtMostOnce
  <1>1. IInv => AtMostOnce
    BY DEF IInv
  <1> QED BY <1>1, InductiveInvariant, PTL

\* What was sent stays on disk as possibly executed until its deduplication window
\* has closed (begin persists before ptz).
THEOREM SentStaysRecorded == Spec => []IntentDurable
  <1>1. IInv => IntentDurable
    BY DEF IInv, Sound, Remembers, IntentDurable, Lapsed
  <1> QED BY <1>1, InductiveInvariant, PTL

\* The empty ledger of a process that is down holds no command.
LEMMA MemorySound == IInv => Sound(mem, now, transmitted) \/ \A r \in Requests : ~Holds(mem, r)
  BY LedgerAssumption DEF IInv, Holds, EmptyLedger, NoRecord

\* No record, in memory or on disk, says "not executed" of a command that was sent.
THEOREM FailedVerdictsHold == Spec => []FailedNeverExecuted
  <1>1. IInv => FailedNeverExecuted
    <2> SUFFICES ASSUME IInv, NEW r \in Requests, NEW ledger \in {mem, disk},
                        Holds(ledger, r), ledger[IdOf[r]].state \in Failed
                 PROVE  transmitted[r] = 0 \/ Lapsed(r)
      BY DEF FailedNeverExecuted
    <2>1. Sound(ledger, now, transmitted)
      BY MemorySound DEF IInv
    <2>2. ~Spent(ledger, r)
      BY DEF Spent, Failed
    <2>3. transmitted[r] \in Nat
      BY DEF IInv, TypeOK
    <2> QED BY <2>1, <2>2, <2>3 DEF Sound, Remembers, Lapsed
  <1> QED BY <1>1, InductiveInvariant, PTL

\* No record, in memory or on disk, claims the success of a command that was not
\* sent.
THEOREM SuccessesHold == Spec => []SucceededWasExecuted
  <1>1. IInv => SucceededWasExecuted
    <2> SUFFICES ASSUME IInv, NEW r \in Requests, NEW ledger \in {mem, disk},
                        Holds(ledger, r), ledger[IdOf[r]].state = "succeeded"
                 PROVE  transmitted[r] > 0
      BY DEF SucceededWasExecuted
    <2>1. Sound(ledger, now, transmitted)
      BY MemorySound DEF IInv
    <2> QED BY <2>1 DEF Sound, Truthful
  <1> QED BY <1>1, InductiveInvariant, PTL

-----------------------------------------------------------------------------
(***************************************************************************)
(* Decisions.  A ledger keeps what another one has decided if it differs   *)
(* only in what was undecided and in what has lapsed.                      *)
(***************************************************************************)
Refused(ledger, r) == Holds(ledger, r) /\ ledger[IdOf[r]].state \in Failed

Keeps(old, new, t) ==
    \A r \in Requests : ~(DedupUntil(r) <= t) =>
        /\ Spent(old, r) => Spent(new, r)
        /\ Refused(old, r) => Refused(new, r)

LEMMA DecidedOneWay ==
    ASSUME NEW ledger, NEW r
    PROVE  ~(Spent(ledger, r) /\ Refused(ledger, r))
  BY DEF Spent, Refused, Failed

LEMMA KeepsTransitive ==
    ASSUME NEW t, NEW old, NEW middle, NEW new, Keeps(old, middle, t), Keeps(middle, new, t)
    PROVE  Keeps(old, new, t)
  BY DEF Keeps

\* A record that is the same decides the same.
LEMMA SameRecordDecides ==
    ASSUME NEW old, NEW new, NEW r, new[IdOf[r]] = old[IdOf[r]]
    PROVE  (Spent(old, r) <=> Spent(new, r)) /\ (Refused(old, r) <=> Refused(new, r))
  BY DEF Spent, Refused, Holds

LEMMA PruneDecides ==
    ASSUME NEW t \in Nat, NEW ledger, NEW r \in Requests
    PROVE  LET after == Prune(ledger, t)
           IN  /\ ~(DedupUntil(r) <= t) /\ Holds(ledger, r) => after[IdOf[r]] = ledger[IdOf[r]]
               /\ after[IdOf[r]].state # "absent" => after[IdOf[r]] = ledger[IdOf[r]]
  BY LedgerAssumption DEF Prune, Prunable, NoRecord, Holds

LEMMA PruneKeepsDecisions ==
    ASSUME NEW t \in Nat, NEW ledger
    PROVE  Keeps(ledger, Prune(ledger, t), t)
  BY PruneDecides DEF Keeps, Spent, Refused, Holds

\* CommandLedger::admit adds records only where there are none.
LEMMA AdmittedKeepsDecisions ==
    ASSUME NEW t \in Nat, NEW ledger, NEW batch
    PROVE  Keeps(ledger, Admitted(ledger, batch, t), t)
  <1> DEFINE pruned == Prune(ledger, t)
             after == Admitted(ledger, batch, t)
  <1>1. ASSUME NEW r \in Requests
        PROVE  after[IdOf[r]] = pruned[IdOf[r]] \/ pruned[IdOf[r]].state = "absent"
    <2>1. IdOf[r] \in Ids
      BY LedgerAssumption
    <2> QED BY <2>1 DEF Admitted, Additions
  <1>2. Keeps(pruned, after, t)
    <2> HIDE DEF pruned, after
    <2> QED BY <1>1 DEF Keeps, Spent, Refused, Holds
  <1> QED BY <1>2, PruneKeepsDecisions, KeepsTransitive

\* CommandLedger::acknowledge changes no verdict.
LEMMA AcknowledgedKeepsDecisions ==
    ASSUME NEW t \in Nat, NEW ledger \in Ledgers, NEW ids
    PROVE  Keeps(ledger, Acknowledged(ledger, ids, t), t)
  <1> DEFINE marked == [id \in Ids |-> IF id \in ids \cap Present(ledger)
                                       THEN [ledger[id] EXCEPT !.acked = TRUE]
                                       ELSE ledger[id]]
  <1>1. ASSUME NEW r \in Requests
        PROVE  /\ marked[IdOf[r]].request = ledger[IdOf[r]].request
               /\ marked[IdOf[r]].state = ledger[IdOf[r]].state
    <2>1. IdOf[r] \in Ids /\ ledger[IdOf[r]] \in Record
      BY LedgerAssumption, LedgerRecords
    <2> QED BY <2>1 DEF Record
  <1>2. Acknowledged(ledger, ids, t) = Prune(marked, t)
    BY DEF Acknowledged
  <1> HIDE DEF marked
  <1>3. Keeps(ledger, marked, t)
    BY <1>1 DEF Keeps, Spent, Refused, Holds
  <1> QED BY <1>2, <1>3, PruneKeepsDecisions, KeepsTransitive

\* CommandLedger::open decides what was left open, and nothing else.
LEMMA OpenedKeepsDecisions ==
    ASSUME NEW t \in Nat, NEW ledger \in Ledgers
    PROVE  Keeps(ledger, Opened(ledger, t), t)
  <1> DEFINE recovered == Recover(ledger)
  <1>1. ASSUME NEW r \in Requests
        PROVE  /\ recovered[IdOf[r]].request = ledger[IdOf[r]].request
               /\ recovered[IdOf[r]].state =
                    IF ledger[IdOf[r]].state = "queued" THEN "device_unavailable"
                    ELSE IF ledger[IdOf[r]].state = "pending" THEN "unknown"
                    ELSE ledger[IdOf[r]].state
    <2> DEFINE id == IdOf[r]
    <2>1. id \in Ids /\ ledger[id] \in Record
      BY LedgerAssumption, LedgerRecords
    <2>2. recovered[id] =
            CASE ledger[id].state = "queued"  -> [ledger[id] EXCEPT !.state = "device_unavailable"]
              [] ledger[id].state = "pending" -> [ledger[id] EXCEPT !.state = "unknown"]
              [] OTHER -> ledger[id]
      BY <2>1 DEF Recover
    <2> HIDE DEF recovered, id
    <2>3. CASE ledger[id].state = "queued"
      <3>1. recovered[id] = [ledger[id] EXCEPT !.state = "device_unavailable"]
        BY <2>2, <2>3
      <3> QED BY <3>1, <2>1, <2>3 DEF Record, id
    <2>4. CASE ledger[id].state = "pending"
      <3>1. recovered[id] = [ledger[id] EXCEPT !.state = "unknown"]
        BY <2>2, <2>4
      <3> QED BY <3>1, <2>1, <2>4 DEF Record, id
    <2>5. CASE ledger[id].state \notin {"queued", "pending"}
      <3>1. recovered[id] = ledger[id]
        BY <2>2, <2>5
      <3> QED BY <3>1, <2>5 DEF id
    <2> QED BY <2>3, <2>4, <2>5
  <1> HIDE DEF recovered
  <1>2. Keeps(ledger, recovered, t)
    BY <1>1 DEF Keeps, Spent, Refused, Holds, Failed
  <1> QED BY <1>2, PruneKeepsDecisions, KeepsTransitive DEF Opened, recovered

LEMMA ChangedState ==
    ASSUME NEW record \in Record, NEW v
    PROVE  [record EXCEPT !.state = v].state = v
  BY DEF Record

\* A record is changed in the direction of what it has decided, if anything.
LEMMA ChangedKeepsDecisions ==
    ASSUME NEW t, NEW ledger \in Ledgers, NEW id \in Ids, NEW v \in States,
           ledger[id].state # "absent", v # "absent",
           \A r \in Requests : IdOf[r] = id /\ ~(DedupUntil(r) <= t) =>
               /\ Spent(ledger, r) => v \in {"pending", "succeeded", "unknown"}
               /\ Refused(ledger, r) => v \in Failed
    PROVE  Keeps(ledger, [ledger EXCEPT ![id].state = v], t)
  <1> DEFINE after == [ledger EXCEPT ![id].state = v]
  <1>3. after[id] = [ledger[id] EXCEPT !.state = v]
    BY DEF Ledgers
  <1>1. ASSUME NEW r \in Requests
        PROVE  /\ IdOf[r] # id => after[IdOf[r]] = ledger[IdOf[r]]
               /\ IdOf[r] = id => after[IdOf[r]].state = v
               /\ after[IdOf[r]].request = ledger[IdOf[r]].request
    <2>1. after[id].state = v
      <3>2. [ledger[id] EXCEPT !.state = v].state = v
        BY LedgerRecords, ChangedState
      <3> HIDE DEF after
      <3> QED BY <1>3, <3>2, Zenon
    <2>2. /\ IdOf[r] # id => after[IdOf[r]] = ledger[IdOf[r]]
          /\ after[IdOf[r]].request = ledger[IdOf[r]].request
      BY ChangedRecordKeeps
    <2> QED BY <2>1, <2>2
  <1> HIDE DEF after
  <1>2. Keeps(ledger, after, t)
    BY <1>1 DEF Keeps, Spent, Refused, Holds
  <1> QED BY <1>2 DEF after

-----------------------------------------------------------------------------
(***************************************************************************)
(* What CommandLedger::open accepts.                                       *)
(***************************************************************************)
LEMMA PresentFinite ==
    ASSUME NEW ledger \in Ledgers, Loadable(ledger)
    PROVE  IsFiniteSet(Present(ledger))
  <1> DEFINE f == [id \in Present(ledger) |-> ledger[id].request]
  <1>1. ASSUME NEW id \in Present(ledger)
        PROVE  ledger[id].request \in Requests /\ IdOf[ledger[id].request] = id
    BY LedgerRecords DEF Present, Loadable
  <1>2. f \in [Present(ledger) -> Requests]
    BY <1>1
  <1>3. \A a, b \in Present(ledger) : f[a] = f[b] => a = b
    BY <1>1
  <1>4. f \in Injection(Present(ledger), Requests)
    BY <1>2, <1>3 DEF Injection, IsInjective
  <1> QED BY <1>4, FS_Injection, LedgerAssumption

\* Fewer records, of the same commands.
LEMMA LoadableShrinks ==
    ASSUME NEW ledger \in Ledgers, Loadable(ledger), NEW new, new \in Ledgers, AckedDecided(new),
           \A id \in Ids : new[id].state # "absent" =>
               ledger[id].state # "absent" /\ new[id].request = ledger[id].request
    PROVE  Loadable(new)
  <1>1. Present(new) \subseteq Present(ledger)
    BY DEF Present
  <1>2. Cardinality(Present(new)) <= Cardinality(Present(ledger))
    BY <1>1, PresentFinite, FS_Subset
  <1>3. Cardinality(Present(new)) \in Nat /\ Cardinality(Present(ledger)) \in Nat
    BY <1>1, PresentFinite, FS_Subset, FS_CardinalityType
  <1>4. Cardinality(Present(new)) <= MaxRecords
    BY <1>2, <1>3, LedgerAssumption DEF Loadable
  <1>5. \A id \in Present(new) : IdOf[new[id].request] = id
    BY <1>1 DEF Loadable, Present
  <1>6. \A id \in Present(new) : new[id].acked => new[id].state \in Verdicts
    BY DEF AckedDecided, Present
  <1> QED BY <1>4, <1>5, <1>6 DEF Loadable

LEMMA EmptyLoadable == Loadable(EmptyLedger)
  <1>1. Present(EmptyLedger) = {}
    BY DEF Present, EmptyLedger, NoRecord
  <1>2. Cardinality(Present(EmptyLedger)) <= MaxRecords
    BY <1>1, FS_EmptySet, LedgerAssumption
  <1> QED BY <1>1, <1>2 DEF Loadable

LEMMA PrunedLoadable ==
    ASSUME NEW t \in Nat, NEW sent \in [Requests -> Nat], NEW ledger, Sound(ledger, t, sent),
           Loadable(ledger)
    PROVE  Loadable(Prune(ledger, t))
  <1>1. Prune(ledger, t) \in Ledgers /\ AckedDecided(Prune(ledger, t)) /\ ledger \in Ledgers
    BY PruneSound DEF Sound
  <1>2. \A id \in Ids : Prune(ledger, t)[id].state # "absent" => Prune(ledger, t)[id] = ledger[id]
    BY DEF Prune, NoRecord
  <1> QED BY <1>1, <1>2, LoadableShrinks

LEMMA AcknowledgedLoadable ==
    ASSUME NEW t \in Nat, NEW sent \in [Requests -> Nat], NEW ledger, Sound(ledger, t, sent),
           NEW ids \in SUBSET Ids, Acknowledgeable(ledger, ids), Loadable(ledger)
    PROVE  Loadable(Acknowledged(ledger, ids, t))
  <1> DEFINE marked == [id \in Ids |-> IF id \in ids \cap Present(ledger)
                                       THEN [ledger[id] EXCEPT !.acked = TRUE]
                                       ELSE ledger[id]]
             after == Acknowledged(ledger, ids, t)
  <1>1. after \in Ledgers /\ AckedDecided(after) /\ ledger \in Ledgers
    BY AcknowledgedSound DEF Sound
  <1>2. ASSUME NEW id \in Ids
        PROVE  marked[id].state = ledger[id].state /\ marked[id].request = ledger[id].request
    <2>1. ledger[id] \in Record
      BY <1>1, LedgerRecords
    <2> QED BY <2>1 DEF Record
  <1>3. after = Prune(marked, t)
    BY DEF Acknowledged
  <1> HIDE DEF marked, after
  <1>4. \A id \in Ids : after[id].state # "absent" => after[id] = marked[id]
    BY <1>3 DEF Prune, NoRecord
  <1>5. \A id \in Ids : after[id].state # "absent" =>
            ledger[id].state # "absent" /\ after[id].request = ledger[id].request
    BY <1>2, <1>4
  <1>6. Loadable(after)
    BY <1>1, <1>5, LoadableShrinks
  <1> QED BY <1>6 DEF after

LEMMA OpenedLoadable ==
    ASSUME NEW t \in Nat, NEW sent \in [Requests -> Nat], NEW ledger, Sound(ledger, t, sent),
           Loadable(ledger)
    PROVE  Loadable(Opened(ledger, t))
  <1>1. Opened(ledger, t) \in Ledgers /\ AckedDecided(Opened(ledger, t)) /\ ledger \in Ledgers
    BY OpenedSound DEF Sound
  <1>2. ASSUME NEW id \in Ids
        PROVE  /\ Recover(ledger)[id].request = ledger[id].request
               /\ Recover(ledger)[id].state # "absent" => ledger[id].state # "absent"
    <2>1. ledger[id] \in Record
      BY <1>1, LedgerRecords
    <2> QED BY <2>1 DEF Recover, Record
  <1>3. \A id \in Ids : Opened(ledger, t)[id].state # "absent"
                            => Opened(ledger, t)[id] = Recover(ledger)[id]
    BY DEF Opened, Prune, NoRecord
  <1> QED BY <1>1, <1>2, <1>3, LoadableShrinks

LEMMA ChangedLoadable ==
    ASSUME NEW ledger \in Ledgers, Loadable(ledger), NEW id \in Ids, NEW v \in States,
           ledger[id].state # "absent", v # "absent",
           AckedDecided([ledger EXCEPT ![id].state = v])
    PROVE  Loadable([ledger EXCEPT ![id].state = v])
  <1> DEFINE after == [ledger EXCEPT ![id].state = v]
  <1>1. /\ after \in Ledgers
        /\ after[id] = [ledger[id] EXCEPT !.state = v]
        /\ \A other \in Ids : other # id => after[other] = ledger[other]
    BY ChangedRecordIsLedger
  <1>2. after[id].request = ledger[id].request
    BY <1>1, LedgerRecords DEF Record
  <1>3. AckedDecided(after)
    OBVIOUS
  <1> HIDE DEF after
  <1>4. \A other \in Ids : after[other].state # "absent" =>
            ledger[other].state # "absent" /\ after[other].request = ledger[other].request
    BY <1>1, <1>2
  <1>5. Loadable(after)
    BY <1>1, <1>3, <1>4, LoadableShrinks
  <1> QED BY <1>5 DEF after

\* CommandLedger::admit checks the room before it adds.
LEMMA AdmittedLoadable ==
    ASSUME NEW t \in Nat, NEW sent \in [Requests -> Nat], NEW ledger, Sound(ledger, t, sent),
           NEW batch \in SUBSET Requests, Loadable(ledger), ~Overflows(ledger, batch, t)
    PROVE  Loadable(Admitted(ledger, batch, t))
  <1> DEFINE pruned == Prune(ledger, t)
             after == Admitted(ledger, batch, t)
             news == Additions(ledger, batch, t)
             added == {IdOf[r] : r \in news}
  <1>1. pruned \in Ledgers /\ Loadable(pruned)
    BY PruneSound, PrunedLoadable DEF Sound
  <1>2. AckedDecided(after)
    BY AdmittedSound DEF Sound
  <1>3. news \subseteq Requests
    BY DEF Additions
  <1>4. ASSUME NEW id \in Ids
        PROVE  /\ id \notin added => after[id] = pruned[id]
               /\ id \in added => IdOf[after[id].request] = id
    <2>1. CASE id \in added
      <3>1. \E r \in news : IdOf[r] = id
        BY <2>1
      <3> DEFINE chosen == CHOOSE r \in news : IdOf[r] = id
      <3>2. IdOf[chosen] = id
        BY <3>1
      <3>3. after[id] = [request |-> chosen, state |-> "queued", acked |-> FALSE]
        BY <3>1 DEF Admitted
      <3>4. after[id].request = chosen
        BY <3>3
      <3> QED BY <2>1, <3>2, <3>4
    <2>2. CASE id \notin added
      <3>1. ~\E r \in news : IdOf[r] = id
        BY <2>2
      <3> QED BY <2>2, <3>1 DEF Admitted
    <2> QED BY <2>1, <2>2
  <1>5. Present(after) \subseteq Present(pruned) \cup added
    <2> HIDE DEF pruned, after, added
    <2> QED BY <1>4 DEF Present
  <1>6. IsFiniteSet(news) /\ Cardinality(news) \in Nat
    BY <1>3, LedgerAssumption, FS_Subset, FS_CardinalityType
  <1>7. IsFiniteSet(added) /\ Cardinality(added) <= Cardinality(news) /\ Cardinality(added) \in Nat
    <2> DEFINE f == [r \in news |-> IdOf[r]]
    <2>1. f \in Surjection(news, added)
      BY DEF Surjection
    <2> HIDE DEF f, added, news
    <2>2. IsFiniteSet(added) /\ Cardinality(added) <= Cardinality(news)
      BY <1>6, <2>1, FS_Surjection
    <2> QED BY <2>2, FS_CardinalityType
  <1>8. IsFiniteSet(Present(pruned)) /\ Cardinality(Present(pruned)) \in Nat
    BY <1>1, PresentFinite, FS_CardinalityType
  <1>9. Cardinality(Present(after)) <= MaxRecords
    <2>1. Cardinality(Present(pruned)) + Cardinality(news) <= MaxRecords
      BY <1>6, <1>8, LedgerAssumption DEF Overflows
    <2> DEFINE all == Present(pruned) \cup added
               common == Present(pruned) \cap added
    <2> HIDE DEF pruned, added, news, after
    <2>2. IsFiniteSet(all) /\ Cardinality(all) \in Nat
             /\ Cardinality(all) = Cardinality(Present(pruned)) + Cardinality(added) - Cardinality(common)
      BY <1>7, <1>8, FS_Union, FS_CardinalityType
    <2>3. Cardinality(common) \in Nat
      BY <1>8, FS_Intersection, FS_CardinalityType
    <2>4. Cardinality(Present(after)) <= Cardinality(all) /\ Cardinality(Present(after)) \in Nat
      BY <1>5, <2>2, FS_Subset, FS_CardinalityType
    <2> HIDE DEF all, common
    <2> QED BY <1>6, <1>7, <1>8, <2>1, <2>2, <2>3, <2>4, LedgerAssumption
  <1>10. \A id \in Present(after) : IdOf[after[id].request] = id
    <2>1. \A id \in Present(pruned) : IdOf[pruned[id].request] = id
      BY <1>1 DEF Loadable
    <2> HIDE DEF pruned, after, added
    <2> QED BY <1>4, <1>5, <2>1 DEF Present
  <1>11. \A id \in Present(after) : after[id].acked => after[id].state \in Verdicts
    BY <1>2 DEF AckedDecided, Present
  <1> HIDE DEF after
  <1>12. Loadable(after)
    BY <1>9, <1>10, <1>11 DEF Loadable
  <1> QED BY <1>12 DEF after

-----------------------------------------------------------------------------
(***************************************************************************)
(* The inductive invariant.  While the process is up its memory may be     *)
(* ahead of the file (a write that failed was made there), never behind:   *)
(* what the file has decided, memory has decided the same way.  A worker   *)
(* stays on the side of the decision its command had when it last looked:  *)
(* undecided until it begins, possibly executed from then on.  And both    *)
(* ledgers would pass the checks of open.                                  *)
(***************************************************************************)
Sided(cam) ==
    LET r == Current(cam)
    IN  /\ pc[cam] = "deadline" => Lapsed(r) \/ ~Spent(mem, r)
        /\ pc[cam] \in {"send", "reply"} => Lapsed(r) \/ Spent(mem, r)
        /\ pc[cam] = "complete" => Lapsed(r) \/ (Spent(mem, r) <=> verdict[cam] \notin Failed)

DInv ==
    /\ up => Keeps(disk, mem, now)
    /\ \A cam \in Cameras : Sided(cam)
    /\ Loadable(disk)
    /\ Loadable(mem)

\* A step of the contract, or none.
ContractStep == [Contract!ContractNext]_(Contract!contractVars)

-----------------------------------------------------------------------------
(***************************************************************************)
(* Steps of the contract.                                                  *)
(***************************************************************************)
\* A write that keeps what the file has decided decides the rest of what it says.
LEMMA WriteDecides ==
    ASSUME Keeps(disk, disk', now), now' = now, transmitted' = transmitted
    PROVE  ContractStep
  <1> DEFINE outcome == [r \in Requests |-> Outcome(r)]
             spent == {r \in Requests : Outcome(r) = "open" /\ Outcome(r)' = "spent"}
             refused == {r \in Requests : Outcome(r) = "open" /\ Outcome(r)' = "refused"}
  <1>1. \A r \in Requests : Outcome(r) \in {"closed", "spent", "refused", "open"}
                         /\ Outcome(r)' \in {"closed", "spent", "refused", "open"}
    BY DEF Outcome
  <1>2. ASSUME NEW r \in Requests, Outcome(r) # "open"
        PROVE  Outcome(r)' = Outcome(r)
    BY <1>2, DecidedOneWay DEF Outcome, Lapsed, Keeps, Refused
  <1>3. ASSUME NEW r \in Requests, Outcome(r) = "open"
        PROVE  Outcome(r)' # "closed"
    BY <1>3 DEF Outcome, Lapsed
  <1>4. \A r \in Requests : Outcome(r)' = IF r \in spent THEN "spent"
                                          ELSE IF r \in refused THEN "refused" ELSE Outcome(r)
    BY <1>1, <1>2, <1>3
  <1>5. outcome' = [r \in Requests |-> IF r \in spent THEN "spent"
                                       ELSE IF r \in refused THEN "refused" ELSE outcome[r]]
    <2> HIDE DEF spent, refused
    <2> QED BY <1>4
  <1>6. spent \cap refused = {} /\ \A r \in spent \cup refused : outcome[r] = "open"
    OBVIOUS
  <1>7. spent \in SUBSET Requests /\ refused \in SUBSET Requests
    OBVIOUS
  <1>8. Contract!Decide(spent, refused)
    <2> HIDE DEF spent, refused
    <2> QED BY <1>5, <1>6 DEF Contract!Decide
  <1> HIDE DEF spent, refused
  <1> QED BY <1>7, <1>8 DEF ContractStep, Contract!ContractNext

\* Neither the file nor the clock nor a device is touched.
LEMMA NothingDecided ==
    ASSUME UNCHANGED <<now, disk, transmitted>>
    PROVE  ContractStep
  <1>1. Keeps(disk, disk', now)
    BY DEF Keeps
  <1> QED BY <1>1, WriteDecides

-----------------------------------------------------------------------------
(***************************************************************************)
(* Workers that do not move, and the end of the process.                   *)
(***************************************************************************)
LEMMA SidedFrame ==
    ASSUME IInv, NEW cam \in Cameras, Sided(cam), now' \in Nat, now <= now',
           pc'[cam] = pc[cam], queue'[cam] = queue[cam], verdict'[cam] = verdict[cam],
           pc[cam] \in Engaged =>
             LET r == Current(cam)
             IN  ~(DedupUntil(r) <= now') => (Spent(mem, r) <=> Spent(mem', r))
    PROVE  Sided(cam)'
  <1> DEFINE r == Current(cam)
  <1>1. Current(cam)' = r
    BY DEF Current
  <1>2. ASSUME pc[cam] \in Engaged
        PROVE  Lapsed(r) => DedupUntil(r) <= now'
    <2>1. r \in Requests
      BY <1>2, CurrentCommand
    <2>2. DedupUntil(r) \in Nat /\ now \in Nat
      BY <2>1, LedgerAssumption DEF DedupUntil, IInv, TypeOK
    <2> QED BY <2>2 DEF Lapsed
  <1>3. CASE pc[cam] \in Engaged
    <2> HIDE DEF r
    <2>1. ~(DedupUntil(r) <= now') => (Spent(mem, r) <=> Spent(mem', r))
      BY <1>3 DEF r
    <2>2. /\ pc[cam] = "deadline" => Lapsed(r) \/ ~Spent(mem, r)
          /\ pc[cam] \in {"send", "reply"} => Lapsed(r) \/ Spent(mem, r)
          /\ pc[cam] = "complete" => Lapsed(r) \/ (Spent(mem, r) <=> verdict[cam] \notin Failed)
      BY DEF Sided, r
    <2> QED BY <1>1, <1>2, <1>3, <2>1, <2>2 DEF Sided, Lapsed
  <1>4. CASE pc[cam] \notin Engaged
    BY <1>4 DEF Sided, Engaged, Running
  <1> QED BY <1>3, <1>4

\* One worker moves, or none.
LEMMA MoveStep ==
    ASSUME IInv, DInv, UNCHANGED <<now, up, mem, disk, transmitted>>,
           \A cam \in Cameras :
              \/ pc'[cam] = pc[cam] /\ queue'[cam] = queue[cam] /\ verdict'[cam] = verdict[cam]
              \/ Sided(cam)'
    PROVE  DInv' /\ ContractStep
  <1>1. now \in Nat /\ now' \in Nat /\ now <= now'
    BY DEF IInv, TypeOK
  <1>2. ASSUME NEW cam \in Cameras PROVE Sided(cam)'
    <2>1. Sided(cam)
      BY DEF DInv
    <2>2. CASE pc'[cam] = pc[cam] /\ queue'[cam] = queue[cam] /\ verdict'[cam] = verdict[cam]
      BY <1>1, <2>1, <2>2, SidedFrame
    <2> QED BY <2>2
  <1>3. DInv'
    BY <1>2 DEF DInv, Keeps
  <1> QED BY <1>3, NothingDecided

LEMMA HaltedStep ==
    ASSUME IInv, DInv, Halted, Keeps(disk, disk', now), Loadable(disk'),
           UNCHANGED <<now, transmitted>>
    PROVE  DInv' /\ ContractStep
  <1>1. Loadable(mem')
    BY EmptyLoadable DEF Halted
  <1>2. ASSUME NEW cam \in Cameras PROVE Sided(cam)'
    <2>1. pc'[cam] = "idle"
      BY DEF Halted
    <2> QED BY <2>1 DEF Sided
  <1>3. DInv'
    BY <1>1, <1>2 DEF DInv, Halted
  <1> QED BY <1>3, WriteDecides

LEMMA KeptFile == Keeps(disk, disk, now)
  BY DEF Keeps

\* The loop changes the ledger; no worker moves.
StartsNothing(old, new) == \A r \in Requests : Spent(new, r) => Spent(old, r)

LEMMA LoopWrites ==
    ASSUME IInv, DInv, up, NEW ledger, Keeps(mem, ledger, now), StartsNothing(mem, ledger),
           Loadable(ledger), mem' = ledger, disk' \in {disk, ledger},
           UNCHANGED <<now, up, workerVars, transmitted>>
    PROVE  DInv' /\ ContractStep
  <1>1. Keeps(disk, mem, now)
    BY DEF DInv
  <1>2. Keeps(disk, disk', now)
    BY <1>1, KeepsTransitive, KeptFile
  <1>3. Keeps(disk', mem', now')
    BY <1>1, KeepsTransitive DEF Keeps
  <1>4. now \in Nat /\ now' \in Nat /\ now <= now'
    BY DEF IInv, TypeOK
  <1>5. ASSUME NEW cam \in Cameras PROVE Sided(cam)'
    <2>1. Sided(cam)
      BY DEF DInv
    <2>2. ASSUME pc[cam] \in Engaged
          PROVE  LET r == Current(cam)
                 IN  ~(DedupUntil(r) <= now') => (Spent(mem, r) <=> Spent(mem', r))
      <3>1. Current(cam) \in Requests
        BY <2>2, CurrentCommand
      <3> QED BY <3>1 DEF Keeps, StartsNothing
    <2> QED BY <1>4, <2>1, <2>2, SidedFrame DEF workerVars
  <1>6. DInv'
    BY <1>3, <1>5 DEF DInv
  <1> QED BY <1>2, <1>6, WriteDecides

LEMMA LoopSavesStep ==
    ASSUME IInv, DInv, up, NEW ledger, Keeps(mem, ledger, now), StartsNothing(mem, ledger),
           Loadable(ledger), SaveByLoop(ledger), UNCHANGED <<now, transmitted>>
    PROVE  DInv' /\ ContractStep
  <1>1. CASE Saved(ledger)
    BY <1>1, LoopWrites DEF Saved
  <1>2. CASE SaveFails(ledger)
    <2>1. Halted /\ disk' \in {disk, ledger}
      BY <1>2 DEF SaveFails
    <2>2. Keeps(disk, ledger, now)
      BY KeepsTransitive DEF DInv
    <2>3. Keeps(disk, disk', now) /\ Loadable(disk')
      BY <2>1, <2>2, KeptFile DEF DInv
    <2> QED BY <2>1, <2>3, HaltedStep
  <1> QED BY <1>1, <1>2 DEF SaveByLoop

-----------------------------------------------------------------------------
(***************************************************************************)
(* The process, its storage and the calls of the run loop.                 *)
(***************************************************************************)
LEMMA LedgersReady ==
    ASSUME IInv
    PROVE  /\ now \in Nat /\ transmitted \in [Requests -> Nat]
           /\ disk \in Ledgers /\ mem \in Ledgers
           /\ Sound(disk, now, transmitted)
           /\ up => Sound(mem, now, transmitted)
  BY DEF IInv, TypeOK

LEMMA TickStep ==
    ASSUME IInv, IInv', DInv, Tick
    PROVE  DInv' /\ ContractStep
  <1> USE DEF Tick, workerVars
  <1>1. now \in Nat /\ now' \in Nat /\ now <= now'
    BY LedgersReady
  <1>2. ASSUME NEW r \in Requests
        PROVE  Lapsed(r) => Lapsed(r)'
    <2>1. DedupUntil(r) \in Nat
      BY LedgerAssumption DEF DedupUntil
    <2> QED BY <1>1, <2>1 DEF Lapsed
  <1>3. ASSUME NEW cam \in Cameras PROVE Sided(cam)'
    <2>1. Sided(cam)
      BY DEF DInv
    <2> QED BY <1>1, <2>1, SidedFrame
  <1>4. DInv'
    <2>1. up' => Keeps(disk', mem', now')
      BY <1>2 DEF DInv, Keeps, Lapsed
    <2> QED BY <1>3, <2>1 DEF DInv
  <1>5. ContractStep
    <2> DEFINE outcome == [r \in Requests |-> Outcome(r)]
               closed == {r \in Requests : Lapsed(r)'}
    <2>1. \A r \in Requests : Outcome(r)' = IF r \in closed THEN "closed" ELSE Outcome(r)
      BY <1>2 DEF Outcome
    <2>2. outcome' = [r \in Requests |-> IF r \in closed THEN "closed" ELSE outcome[r]]
      <3> HIDE DEF closed
      <3> QED BY <2>1
    <2>3. closed \in SUBSET Requests
      OBVIOUS
    <2>4. Contract!Close(closed)
      <3> HIDE DEF closed
      <3> QED BY <2>2 DEF Contract!Close
    <2> HIDE DEF closed
    <2> QED BY <2>3, <2>4 DEF ContractStep, Contract!ContractNext
  <1> QED BY <1>4, <1>5

LEMMA HaltStep ==
    ASSUME IInv, DInv, Halt
    PROVE  DInv' /\ ContractStep
  <1>1. Keeps(disk, disk', now) /\ Loadable(disk')
    BY KeptFile DEF Halt, DInv
  <1> QED BY <1>1, HaltedStep DEF Halt

LEMMA OpenStep ==
    ASSUME IInv, DInv, Open
    PROVE  DInv' /\ ContractStep
  <1> USE DEF Open
  <1> DEFINE opened == Opened(disk, now)
  <1>1. Keeps(disk, opened, now) /\ Loadable(opened)
    BY LedgersReady, OpenedKeepsDecisions, OpenedLoadable DEF DInv
  <1> HIDE DEF opened
  <1>2. CASE mem' = opened /\ disk' = opened /\ UNCHANGED workerVars
    <2>1. ASSUME NEW cam \in Cameras PROVE Sided(cam)'
      <3>1. pc'[cam] = "idle"
        BY <1>2 DEF workerVars, IInv
      <3> QED BY <3>1 DEF Sided
    <2>2. Keeps(disk', mem', now')
      BY <1>2 DEF Keeps
    <2>3. DInv'
      BY <1>1, <1>2, <2>1, <2>2 DEF DInv
    <2>4. Keeps(disk, disk', now)
      BY <1>1, <1>2
    <2> QED BY <2>3, <2>4, WriteDecides
  <1>3. CASE SaveFails(opened)
    <2>1. Halted /\ disk' \in {disk, opened}
      BY <1>3 DEF SaveFails
    <2>2. Keeps(disk, disk', now) /\ Loadable(disk')
      BY <1>1, <2>1, KeptFile DEF DInv
    <2> QED BY <2>1, <2>2, HaltedStep
  <1> QED BY <1>2, <1>3 DEF opened

LEMMA HaltedByCall ==
    ASSUME IInv, DInv, Halted, UNCHANGED <<now, disk, transmitted>>
    PROVE  DInv' /\ ContractStep
  <1>1. Keeps(disk, disk', now) /\ Loadable(disk')
    BY KeptFile DEF DInv
  <1> QED BY <1>1, HaltedStep

LEMMA AdmittedStartsNothing ==
    ASSUME NEW t \in Nat, NEW ledger, NEW batch
    PROVE  StartsNothing(ledger, Admitted(ledger, batch, t))
  <1> DEFINE after == Admitted(ledger, batch, t)
  <1> SUFFICES ASSUME NEW r \in Requests, Spent(after, r)
               PROVE  Spent(ledger, r)
    BY DEF StartsNothing
  <1>1. IdOf[r] \in Ids
    BY LedgerAssumption
  <1>2. after[IdOf[r]] = Prune(ledger, t)[IdOf[r]] \/ after[IdOf[r]].state = "queued"
    BY <1>1 DEF Admitted
  <1> HIDE DEF after
  <1>3. after[IdOf[r]] = Prune(ledger, t)[IdOf[r]] /\ after[IdOf[r]].state # "absent"
    BY <1>2 DEF Spent, Holds
  <1>4. after[IdOf[r]] = ledger[IdOf[r]]
    BY <1>3, PruneDecides
  <1> QED BY <1>4 DEF Spent, Holds

LEMMA AdmitStep ==
    ASSUME IInv, DInv, NEW batch \in SUBSET Requests, Admit(batch)
    PROVE  DInv' /\ ContractStep
  <1> USE DEF Admit
  <1> DEFINE after == Admitted(mem, batch, now)
  <1>1. /\ Keeps(mem, after, now) /\ StartsNothing(mem, after)
        /\ ~Overflows(mem, batch, now) => Loadable(after)
    BY LedgersReady, AdmittedKeepsDecisions, AdmittedStartsNothing, AdmittedLoadable DEF DInv
  <1>2. Additions(mem, batch, now) = {} => after = Prune(mem, now)
    BY DEF Admitted, Prune
  <1> HIDE DEF after
  <1>3. CASE ~Overflows(mem, batch, now) /\ SaveByLoop(after)
    BY <1>1, <1>3, LoopSavesStep
  <1>4. CASE ~Overflows(mem, batch, now) /\ mem' = after /\ UNCHANGED <<up, disk, workerVars>>
    BY <1>1, <1>4, LoopWrites
  <1>5. CASE Halted /\ UNCHANGED disk
    BY <1>5, HaltedByCall
  <1> QED BY <1>2, <1>3, <1>4, <1>5 DEF after

LEMMA CancelStep ==
    ASSUME IInv, DInv, NEW r \in Requests, Cancel(r)
    PROVE  DInv' /\ ContractStep
  <1> USE DEF Cancel
  <1> DEFINE id == IdOf[r]
             v == CancelVerdict(mem[id].state)
             saved == [mem EXCEPT ![id].state = v]
  <1>1. id \in Ids /\ mem \in Ledgers /\ Sound(mem, now, transmitted) /\ mem[id].state \in States
    BY LedgerAssumption, LedgersReady, LedgerRecords
  <1>2. CASE mem[id].state # "absent" /\ SaveByLoop(saved)
    <2>1. v \in Verdicts
      BY <1>1, <1>2 DEF CancelVerdict, States, Verdicts, Failed
    <2>2. v \in States /\ v # "absent"
      BY <2>1, VerdictsAreStates
    <2>3. /\ mem[id].state \in {"pending", "succeeded", "unknown"} =>
                v \in {"pending", "succeeded", "unknown"}
          /\ mem[id].state \in Failed => v \in Failed
          /\ v \in {"pending", "succeeded", "unknown"} =>
                mem[id].state \in {"pending", "succeeded", "unknown"}
      BY <1>1, <1>2 DEF CancelVerdict, States, Verdicts, Failed
    <2>4. Sound(saved, now, transmitted)
      BY <1>1, <1>2, LedgersReady, CanceledSound DEF Completed
    <2> HIDE DEF v, id
    <2>5. Keeps(mem, saved, now)
      BY <1>1, <1>2, <2>2, <2>3, ChangedKeepsDecisions DEF Spent, Refused, Holds
    <2>6. StartsNothing(mem, saved)
      <3> SUFFICES ASSUME NEW q \in Requests, Spent(saved, q)
                   PROVE  Spent(mem, q)
        BY DEF StartsNothing
      <3>1. /\ IdOf[q] # id => saved[IdOf[q]] = mem[IdOf[q]]
            /\ saved[IdOf[q]].request = mem[IdOf[q]].request
        BY <1>1, <1>2, <2>2, ChangedRecordKeeps
      <3>2. saved[id].state = v
        <4>1. saved[id] = [mem[id] EXCEPT !.state = v]
          BY <1>1 DEF Ledgers
        <4>2. [mem[id] EXCEPT !.state = v].state = v
          BY <1>1, LedgerRecords, ChangedState
        <4> HIDE DEF saved
        <4> QED BY <4>1, <4>2, Zenon
      <3> HIDE DEF saved
      <3> QED BY <1>2, <2>3, <3>1, <3>2 DEF Spent, Holds
    <2>7. Loadable(saved)
      BY <1>1, <1>2, <2>2, <2>4, ChangedLoadable DEF Sound, DInv
    <2> HIDE DEF saved
    <2> QED BY <1>2, <2>5, <2>6, <2>7, LoopSavesStep
  <1>3. CASE Halted /\ UNCHANGED disk
    BY <1>3, HaltedByCall
  <1> QED BY <1>2, <1>3 DEF Completed

LEMMA AcknowledgeStep ==
    ASSUME IInv, DInv, NEW ids \in SUBSET Ids, Acknowledge(ids)
    PROVE  DInv' /\ ContractStep
  <1> USE DEF Acknowledge
  <1> DEFINE after == Acknowledged(mem, ids, now)
  <1>1. CASE Acknowledgeable(mem, ids) /\ SaveByLoop(after)
    <2>1. Keeps(mem, after, now) /\ Loadable(after)
      BY <1>1, LedgersReady, AcknowledgedKeepsDecisions, AcknowledgedLoadable DEF DInv
    <2>2. StartsNothing(mem, after)
      <3> SUFFICES ASSUME NEW q \in Requests, Spent(after, q)
                   PROVE  Spent(mem, q)
        BY DEF StartsNothing
      <3> DEFINE marked == [id \in Ids |-> IF id \in ids \cap Present(mem)
                                           THEN [mem[id] EXCEPT !.acked = TRUE]
                                           ELSE mem[id]]
      <3>1. IdOf[q] \in Ids /\ mem[IdOf[q]] \in Record
        BY LedgersReady, LedgerAssumption, LedgerRecords
      <3>2. marked[IdOf[q]].state = mem[IdOf[q]].state /\ marked[IdOf[q]].request = mem[IdOf[q]].request
        BY <3>1 DEF Record
      <3>3. after = Prune(marked, now)
        BY DEF Acknowledged
      <3> HIDE DEF marked, after
      <3>4. after[IdOf[q]] = marked[IdOf[q]]
        BY <3>3, LedgersReady, PruneDecides DEF Spent, Holds
      <3> QED BY <3>2, <3>4 DEF Spent, Holds
    <2> HIDE DEF after
    <2> QED BY <1>1, <2>1, <2>2, LoopSavesStep
  <1>2. CASE UNCHANGED <<up, mem, disk, workerVars>>
    BY <1>2, MoveStep DEF workerVars
  <1>3. CASE Halted /\ UNCHANGED disk
    BY <1>3, HaltedByCall
  <1> QED BY <1>1, <1>2, <1>3

LEMMA LaunchStep ==
    ASSUME IInv, DInv, NEW cam \in Cameras, NEW q \in Batches(cam), Launch(cam, q)
    PROVE  DInv' /\ ContractStep
  <1>1. pc'[cam] = "replay"
    BY DEF Launch, IInv, TypeOK
  <1>2. Sided(cam)'
    BY <1>1 DEF Sided
  <1>3. \A other \in Cameras \ {cam} :
            pc'[other] = pc[other] /\ queue'[other] = queue[other] /\ verdict'[other] = verdict[other]
    BY DEF Launch, IInv, TypeOK
  <1> QED BY <1>2, <1>3, MoveStep DEF Launch

LEMMA AbortStep ==
    ASSUME IInv, DInv, NEW S, AbortWorkers(S)
    PROVE  DInv' /\ ContractStep
  BY MoveStep DEF AbortWorkers

LEMMA CollectStep ==
    ASSUME IInv, DInv, NEW cam \in Cameras, Collect(cam)
    PROVE  DInv' /\ ContractStep
  <1>1. CASE /\ pc' = [pc EXCEPT ![cam] = "idle"]
             /\ queue' = [queue EXCEPT ![cam] = << >>]
             /\ UNCHANGED <<up, mem, verdict>>
    <2>1. pc'[cam] = "idle"
      BY <1>1 DEF IInv, TypeOK
    <2>2. Sided(cam)'
      BY <2>1 DEF Sided
    <2>3. \A other \in Cameras \ {cam} :
              pc'[other] = pc[other] /\ queue'[other] = queue[other] /\ verdict'[other] = verdict[other]
      BY <1>1 DEF IInv, TypeOK
    <2> QED BY <1>1, <2>2, <2>3, MoveStep DEF Collect
  <1>2. CASE Halted
    BY <1>2, HaltedByCall DEF Collect
  <1> QED BY <1>1, <1>2 DEF Collect

-----------------------------------------------------------------------------
(***************************************************************************)
(* The steps of a worker.                                                  *)
(***************************************************************************)
\* The others stay where they are.
Alone(cam) ==
    \A other \in Cameras \ {cam} :
        pc'[other] = pc[other] /\ queue'[other] = queue[other] /\ verdict'[other] = verdict[other]

\* A worker moves to a place where it is on no side.
LEMMA UnsidedMove ==
    ASSUME IInv, DInv, NEW cam \in Cameras, Alone(cam),
           pc'[cam] \notin {"deadline", "send", "reply", "complete"},
           UNCHANGED <<now, up, mem, disk, transmitted>>
    PROVE  DInv' /\ ContractStep
  <1>1. Sided(cam)'
    BY DEF Sided
  <1> QED BY <1>1, MoveStep DEF Alone

LEMMA FinishStep ==
    ASSUME IInv, DInv, NEW cam \in Cameras, Finish(cam)
    PROVE  DInv' /\ ContractStep
  <1>1. pc'[cam] = "done" /\ Alone(cam)
    BY DEF Finish, Step, Alone, IInv, TypeOK
  <1> QED BY <1>1, UnsidedMove DEF Finish

LEMMA DropStep ==
    ASSUME IInv, DInv, NEW cam \in Cameras, DropAborted(cam)
    PROVE  DInv' /\ ContractStep
  <1>1. pc'[cam] = "idle" /\ Alone(cam)
    BY DEF DropAborted, Alone, IInv, TypeOK
  <1> QED BY <1>1, UnsidedMove DEF DropAborted

LEMMA ReplayStep ==
    ASSUME IInv, DInv, NEW cam \in Cameras, Replay(cam)
    PROVE  DInv' /\ ContractStep
  <1> USE DEF Replay
  <1> DEFINE r == Current(cam)
  <1>1. Alone(cam)
    BY DEF Alone, Return, IInv, TypeOK
  <1>2. CASE Replayed(mem, r) = "fresh" /\ pc' = [pc EXCEPT ![cam] = "deadline"] /\ UNCHANGED queue
    <2>1. r \in Requests /\ mem \in Ledgers
      BY DEF IInv, TypeOK, Current
    <2>2. ~Spent(mem, r)
      BY <1>2, <2>1, FreshIsQueued DEF Spent
    <2>3. pc'[cam] = "deadline" /\ Current(cam)' = r
      BY <1>2 DEF IInv, TypeOK, Current
    <2>4. ~Spent(mem', Current(cam)')
      BY <2>2, <2>3
    <2>5. Sided(cam)'
      BY <2>3, <2>4 DEF Sided
    <2> QED BY <1>1, <2>5, MoveStep DEF Alone
  <1>3. CASE pc'[cam] \in {"failed", "replay"}
    BY <1>1, <1>3, UnsidedMove
  <1>4. pc' = [pc EXCEPT ![cam] = "failed"] => pc'[cam] = "failed"
    BY DEF IInv, TypeOK
  <1> QED BY <1>2, <1>3, <1>4

LEMMA CheckDeadlineStep ==
    ASSUME IInv, DInv, NEW cam \in Cameras, CheckDeadline(cam)
    PROVE  DInv' /\ ContractStep
  <1> USE DEF CheckDeadline, Step
  <1> DEFINE r == Current(cam)
  <1>1. Alone(cam)
    BY DEF Alone, IInv, TypeOK
  <1>2. Current(cam)' = r
    BY DEF Current
  <1>3. CASE pc' = [pc EXCEPT ![cam] = "complete"] /\ \E v \in Failed : verdict' = [verdict EXCEPT ![cam] = v]
    <2>1. pc'[cam] = "complete" /\ verdict'[cam] \in Failed
      BY <1>3 DEF IInv, TypeOK
    <2>2. Lapsed(r) \/ ~Spent(mem, r)
      BY DEF DInv, Sided
    <2>3. DedupUntil(Current(cam)') <= now' \/ ~Spent(mem', Current(cam)')
      BY <1>2, <2>2 DEF Lapsed
    <2>4. Sided(cam)'
      BY <2>1, <2>3 DEF Sided, Lapsed
    <2> QED BY <1>1, <2>4, MoveStep DEF Alone
  <1>4. CASE pc' = [pc EXCEPT ![cam] = "begin"]
    <2>1. pc'[cam] = "begin"
      BY <1>4 DEF IInv, TypeOK
    <2> QED BY <1>1, <2>1, UnsidedMove
  <1>5. "expired_before_execution" \in Failed
    BY DEF Failed
  <1> QED BY <1>3, <1>4, <1>5

\* One worker changes the record of its command, in the direction of what that
\* has decided; the write may fail.
LEMMA WorkerWrites ==
    ASSUME IInv, IInv', DInv, NEW cam \in Cameras, NEW id \in Ids, NEW v \in States,
           pc[cam] \in Engaged, id = IdOf[Current(cam)],
           mem[id].state # "absent", v # "absent",
           Keeps(mem, [mem EXCEPT ![id].state = v], now),
           mem' = [mem EXCEPT ![id].state = v], disk' \in {disk, mem'},
           UNCHANGED <<now, up, transmitted>>, Alone(cam), Sided(cam)'
    PROVE  DInv' /\ ContractStep
  <1> DEFINE saved == [mem EXCEPT ![id].state = v]
  <1>1. up /\ mem \in Ledgers /\ now \in Nat
    BY CurrentCommand, LedgersReady
  <1>2. AckedDecided(saved)
    BY <1>1, LedgersReady DEF Sound, IInv
  <1>3. Loadable(saved)
    BY <1>1, <1>2, ChangedLoadable DEF DInv
  <1>4. Keeps(disk, mem, now)
    BY <1>1 DEF DInv
  <1>5. Keeps(disk, saved, now)
    BY <1>4, KeepsTransitive
  <1>6. ASSUME NEW other \in Cameras, other # cam PROVE Sided(other)'
    <2>1. Sided(other)
      BY DEF DInv
    <2>2. ASSUME pc[other] \in Engaged
          PROVE  LET q == Current(other)
                 IN  ~(DedupUntil(q) <= now') => (Spent(mem, q) <=> Spent(mem', q))
      <3> DEFINE q == Current(other)
      <3>1. q \in Requests /\ CameraOf[q] = other /\ Current(cam) \in Requests /\ CameraOf[Current(cam)] = cam
        BY <1>6, <2>2, CurrentCommand
      <3>2. IdOf[q] # id
        BY <1>6, <3>1, LedgerAssumption
      <3>3. saved[IdOf[q]] = mem[IdOf[q]]
        BY <1>1, <3>1, <3>2, ChangedRecordKeeps
      <3> HIDE DEF q, saved
      <3>4. Spent(mem, q) <=> Spent(saved, q)
        BY <3>3, SameRecordDecides
      <3> QED BY <3>4 DEF q, saved
    <2>3. pc'[other] = pc[other] /\ queue'[other] = queue[other] /\ verdict'[other] = verdict[other]
      BY <1>6 DEF Alone
    <2>4. now' \in Nat /\ now <= now'
      BY <1>1
    <2> QED BY <2>1, <2>2, <2>3, <2>4, SidedFrame, Zenon
  <1>7. mem' = saved /\ disk' \in {disk, saved}
    OBVIOUS
  <1> HIDE DEF saved
  <1>8. Keeps(disk', mem', now') /\ Keeps(disk, disk', now)
    BY <1>5, <1>7, KeptFile DEF Keeps
  <1>9. \A other \in Cameras : Sided(other)'
    BY <1>6
  <1>10. Loadable(disk') /\ Loadable(mem')
    BY <1>3, <1>7 DEF DInv
  <1>11. DInv'
    BY <1>8, <1>9, <1>10 DEF DInv
  <1> QED BY <1>8, <1>11, WriteDecides

LEMMA BeginStep ==
    ASSUME IInv, IInv', DInv, NEW cam \in Cameras, Begin(cam)
    PROVE  DInv' /\ ContractStep
  <1> USE DEF Begin
  <1> DEFINE r == Current(cam)
             id == IdOf[r]
             saved == [mem EXCEPT ![id].state = "pending"]
  <1>1. pc[cam] = "begin" /\ pc[cam] \in Engaged /\ "pending" \in States /\ "pending" # "absent"
    BY DEF Engaged, Running, States
  <1>2. /\ r \in Requests /\ id \in Ids /\ mem \in Ledgers
        /\ Bound(mem[id], r)
    BY <1>1, CurrentCommand
  <1>3. Alone(cam) /\ Current(cam)' = r
    BY DEF Alone, IInv, TypeOK, Current
  <1>4. CASE mem[id].state = "queued" /\ mem' = saved /\ disk' \in {disk, saved}
                 /\ (pc' = [pc EXCEPT ![cam] = "send"] \/ pc' = [pc EXCEPT ![cam] = "failed"])
    <2>1. mem[id].state # "absent" /\ mem[id].request = r
      BY <1>2, <1>4 DEF Bound
    <2>2. Keeps(mem, saved, now)
      <3>1. \A q \in Requests : IdOf[q] = id => ~Spent(mem, q) /\ ~Refused(mem, q)
        BY <1>4 DEF Spent, Refused, Holds, Failed
      <3> HIDE DEF id
      <3> QED BY <1>1, <1>2, <2>1, <3>1, ChangedKeepsDecisions
    <2>3. Spent(saved, r)
      <3>1. saved[id] = [mem[id] EXCEPT !.state = "pending"]
        BY <1>2 DEF Ledgers
      <3>2. mem[id] \in Record
        BY <1>2, LedgerRecords
      <3>3. [mem[id] EXCEPT !.state = "pending"].state = "pending"
               /\ [mem[id] EXCEPT !.state = "pending"].request = mem[id].request
        BY <3>2 DEF Record
      <3> HIDE DEF saved
      <3>4. saved[id].state = "pending" /\ saved[id].request = r
        BY <2>1, <3>1, <3>3, Zenon
      <3> QED BY <3>4 DEF Spent, Holds
    <2>4. Sided(cam)'
      <3>1. pc'[cam] \in {"send", "failed"}
        BY <1>4 DEF IInv, TypeOK
      <3>2. Spent(mem', Current(cam)')
        BY <1>3, <1>4, <2>3
      <3> QED BY <3>1, <3>2 DEF Sided
    <2> HIDE DEF id
    <2> QED BY <1>1, <1>2, <1>3, <1>4, <2>1, <2>2, <2>4, WorkerWrites DEF id
  <1>5. CASE pc' = [pc EXCEPT ![cam] = "failed"] /\ UNCHANGED <<mem, disk>>
    <2>1. pc'[cam] = "failed"
      BY <1>5 DEF IInv, TypeOK
    <2> QED BY <1>3, <1>5, <2>1, UnsidedMove
  <1> QED BY <1>4, <1>5 DEF Begun

\* A request leaves for the device only after the file says that it may.
LEMMA TransmitStep ==
    ASSUME IInv, DInv, NEW cam \in Cameras, Transmit(cam)
    PROVE  DInv' /\ ContractStep
  <1> USE DEF Transmit, Step
  <1> DEFINE r == Current(cam)
  <1>1. pc[cam] = "send" /\ pc[cam] \in Engaged
    BY DEF Engaged, Running
  <1>2. r \in Requests /\ Progress(cam)
    BY <1>1, CurrentCommand
  <1>3. Alone(cam) /\ Current(cam)' = r
    BY DEF Alone, IInv, TypeOK, Current
  <1>4. Lapsed(r) \/ Spent(mem, r)
    BY <1>1 DEF DInv, Sided
  <1>5. DedupUntil(Current(cam)') <= now' \/ Spent(mem', Current(cam)')
    BY <1>3, <1>4 DEF Lapsed
  <1>6. CASE /\ pc' = [pc EXCEPT ![cam] = "reply"]
             /\ transmitted' = [transmitted EXCEPT ![r] = @ + 1]
             /\ UNCHANGED verdict
    <2>1. pc'[cam] = "reply"
      BY <1>6 DEF IInv, TypeOK
    <2>2. Sided(cam)'
      BY <1>5, <2>1 DEF Sided, Lapsed
    <2>3. now \in Nat /\ now' \in Nat /\ now <= now'
      BY LedgersReady
    <2>4. ASSUME NEW other \in Cameras PROVE Sided(other)'
      <3>1. Sided(other)
        BY DEF DInv
      <3> QED BY <1>3, <2>2, <2>3, <3>1, SidedFrame DEF Alone
    <2>5. DInv'
      BY <2>4 DEF DInv, Keeps
    <2>6. transmitted[r] = 0 /\ (Lapsed(r) \/ Spent(disk, r))
      BY <1>1, <1>2 DEF Progress
    <2>7. transmitted' = [transmitted EXCEPT ![r] = 1]
      BY <1>6, <2>6, LedgersReady
    <2> DEFINE outcome == [q \in Requests |-> Outcome(q)]
    <2>8. outcome[r] \in {"spent", "closed"}
      BY <1>2, <2>6 DEF Outcome
    <2>9. outcome' = outcome
      BY DEF Outcome, Lapsed
    <2>10. Contract!Send(r)
      <3> HIDE DEF r
      <3> QED BY <2>6, <2>7, <2>8, <2>9 DEF Contract!Send
    <2> QED BY <1>2, <2>5, <2>10 DEF ContractStep, Contract!ContractNext
  <1>7. CASE /\ pc' = [pc EXCEPT ![cam] = "complete"]
             /\ verdict' = [verdict EXCEPT ![cam] = "unknown"]
             /\ UNCHANGED transmitted
    <2>1. pc'[cam] = "complete" /\ verdict'[cam] = "unknown" /\ "unknown" \notin Failed
      BY <1>7 DEF IInv, TypeOK, Failed
    <2>2. Sided(cam)'
      BY <1>5, <2>1 DEF Sided, Lapsed
    <2> QED BY <1>3, <1>7, <2>2, MoveStep DEF Alone
  <1> QED BY <1>6, <1>7

LEMMA AnswerStep ==
    ASSUME IInv, DInv, NEW cam \in Cameras, Answer(cam)
    PROVE  DInv' /\ ContractStep
  <1> USE DEF Answer, Step
  <1> DEFINE r == Current(cam)
  <1>1. Alone(cam) /\ Current(cam)' = r
    BY DEF Alone, IInv, TypeOK, Current
  <1>2. pc'[cam] = "complete" /\ verdict'[cam] \notin Failed
    BY DEF IInv, TypeOK, Failed
  <1>3. Lapsed(r) \/ Spent(mem, r)
    BY DEF DInv, Sided
  <1>4. DedupUntil(Current(cam)') <= now' \/ Spent(mem', Current(cam)')
    BY <1>1, <1>3 DEF Lapsed
  <1>5. Sided(cam)'
    BY <1>2, <1>4 DEF Sided, Lapsed
  <1> QED BY <1>1, <1>5, MoveStep DEF Alone

\* A verdict is recorded, late or not, on the side its command is on.
LEMMA CompleteStep ==
    ASSUME IInv, IInv', DInv, NEW cam \in Cameras, Complete(cam)
    PROVE  DInv' /\ ContractStep
  <1> USE DEF Complete
  <1> DEFINE r == Current(cam)
             id == IdOf[r]
             v == verdict[cam]
             saved == [mem EXCEPT ![id].state = v]
  <1>1. pc[cam] = "complete" /\ pc[cam] \in Engaged /\ v \in Verdicts /\ v \in States /\ v # "absent"
    BY VerdictsAreStates DEF Engaged, Running, IInv, TypeOK
  <1>2. /\ r \in Requests /\ id \in Ids /\ mem \in Ledgers
        /\ Bound(mem[id], r)
    BY <1>1, CurrentCommand
  <1>3. Alone(cam)
    BY DEF Alone, IInv, TypeOK, Return
  <1>4. CASE mem[id].state # "absent" /\ mem' = saved /\ disk' \in {disk, saved}
                 /\ (pc' = [pc EXCEPT ![cam] = "replay"] \/ pc' = [pc EXCEPT ![cam] = "failed"])
    <2>1. mem[id].request = r
      BY <1>2, <1>4 DEF Bound
    <2>2. Lapsed(r) \/ (Spent(mem, r) <=> v \notin Failed)
      BY <1>1 DEF DInv, Sided
    <2>3. \A q \in Requests : IdOf[q] = id /\ ~(DedupUntil(q) <= now) =>
             /\ Spent(mem, q) => v \in {"pending", "succeeded", "unknown"}
             /\ Refused(mem, q) => v \in Failed
      <3> SUFFICES ASSUME NEW q \in Requests, IdOf[q] = id, ~(DedupUntil(q) <= now),
                          Holds(mem, q)
                   PROVE  /\ Spent(mem, q) => v \in {"pending", "succeeded", "unknown"}
                          /\ Refused(mem, q) => v \in Failed
        BY DEF Spent, Refused
      <3>1. q = r
        BY <2>1 DEF Holds
      <3>2. v \notin Failed => v \in {"succeeded", "unknown"}
        BY <1>1 DEF Verdicts
      <3> QED BY <2>2, <3>1, <3>2, DecidedOneWay DEF Lapsed
    <2>4. Keeps(mem, saved, now)
      <3> HIDE DEF id, v
      <3> QED BY <1>1, <1>2, <1>4, <2>3, ChangedKeepsDecisions
    <2>5. Sided(cam)'
      <3>1. pc'[cam] \in {"replay", "failed"}
        BY <1>4 DEF IInv, TypeOK
      <3> QED BY <3>1 DEF Sided
    <2> HIDE DEF id, v
    <2> QED BY <1>1, <1>2, <1>3, <1>4, <2>4, <2>5, WorkerWrites DEF id
  <1>5. CASE pc' = [pc EXCEPT ![cam] = "failed"] /\ UNCHANGED <<mem, disk>>
    <2>1. pc'[cam] = "failed"
      BY <1>5 DEF IInv, TypeOK
    <2> QED BY <1>3, <1>5, <2>1, UnsidedMove
  <1> QED BY <1>4, <1>5 DEF Completed

-----------------------------------------------------------------------------
(***************************************************************************)
(* The theorems.                                                           *)
(***************************************************************************)
LEMMA InitDecided == Init => DInv /\ Contract!ContractInit
  <1> SUFFICES ASSUME Init PROVE DInv /\ Contract!ContractInit
    OBVIOUS
  <1> USE DEF Init
  <1>1. \A cam \in Cameras : Sided(cam)
    BY DEF Sided
  <1>2. DInv
    BY <1>1, EmptyLoadable DEF DInv
  <1>3. \A r \in Requests : Outcome(r) \in {"open", "spent", "refused", "closed"}
    BY DEF Outcome
  <1>4. Contract!ContractInit
    BY <1>3 DEF Contract!ContractInit, Contract!Outcomes
  <1> QED BY <1>2, <1>4

LEMMA DecidedSteps ==
    ASSUME IInv, IInv', DInv, [Next]_vars
    PROVE  DInv' /\ ContractStep
  <1>1. CASE LoopStep
    BY <1>1, AdmitStep, LaunchStep, AbortStep, CancelStep, AcknowledgeStep, CollectStep DEF LoopStep
  <1>2. CASE \E cam \in Cameras : WorkerStep(cam)
    BY <1>2, FinishStep, ReplayStep, CheckDeadlineStep, BeginStep, TransmitStep, AnswerStep,
       CompleteStep, DropStep DEF WorkerStep
  <1>3. CASE UNCHANGED vars
    BY <1>3, MoveStep DEF vars, workerVars
  <1> QED BY <1>1, <1>2, <1>3, TickStep, OpenStep, HaltStep DEF Next

\* Memory never falls behind the file in what is decided, and no worker acts
\* against what its command has decided.
THEOREM DecisionsHold == Spec => []DInv
  <1>1. IInv /\ IInv' /\ DInv /\ [Next]_vars => DInv'
    BY DecidedSteps
  <1>2. Init => DInv
    BY InitDecided
  <1> QED BY <1>1, <1>2, InductiveInvariant, PTL DEF Spec

\* No sequence of admissions, verdicts, acknowledgements, failed writes and crashes
\* leaves a ledger file that the next start refuses, for any size of the ledger.
THEOREM LedgerAlwaysLoadable == Spec => []LedgerLoadable
  <1>1. DInv => LedgerLoadable
    BY DEF DInv, LedgerLoadable
  <1> QED BY <1>1, DecisionsHold, PTL

\* The ledger and the workers implement the contract: every command is decided
\* once, durably, and the decision stands; it is sent only after that, once.
THEOREM ContractImplemented == Spec => ImplementsContract
  <1>1. Init => Contract!ContractInit
    BY InitDecided
  <1>2. IInv /\ IInv' /\ DInv /\ [Next]_vars => [Contract!ContractNext]_(Contract!contractVars)
    BY DecidedSteps DEF ContractStep
  <1> QED BY <1>1, <1>2, InductiveInvariant, DecisionsHold, PTL
          DEF Spec, ImplementsContract, Contract!ContractSpec
=============================================================================
