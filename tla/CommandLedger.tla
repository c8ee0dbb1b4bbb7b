---------------------------- MODULE CommandLedger ----------------------------
(***************************************************************************)
(* The durable command ledger of xcoc (src/src/command_ledger.rs): the     *)
(* data structure and what each of its methods computes.  A ledger is a    *)
(* total function on command ids; an id without a record maps to NoRecord. *)
(*                                                                         *)
(* A "request" stands for a whole DeviceCommand.  The code compares the    *)
(* camera and the SHA-256 digest of two commands with the same id; here    *)
(* that is equality of requests.  Two requests may share an id.            *)
(***************************************************************************)
EXTENDS Naturals, FiniteSets

CONSTANTS
    Cameras,     \* camera instances
    Requests,    \* immutable device commands the Server may send
    Ids,         \* command ids
    IdOf,        \* [Requests -> Ids]
    CameraOf,    \* [Requests -> Cameras]
    ExpiresAt,   \* [Requests -> Nat], execution deadline
    DedupGrace,  \* how long a record outlives its deadline (120 s in the code)
    MaxRecords,  \* MAX_RECORDS (2048 in the code)
    NoRequest    \* the request of an absent record

\* Command ids are chosen per camera instance: the Server never gives one id to
\* commands of two cameras.  It sends finitely many commands.
ASSUME LedgerAssumption ==
    /\ IdOf \in [Requests -> Ids]
    /\ CameraOf \in [Requests -> Cameras]
    /\ ExpiresAt \in [Requests -> Nat]
    /\ DedupGrace \in Nat
    /\ MaxRecords \in Nat
    /\ IsFiniteSet(Requests)
    /\ NoRequest \notin Requests
    /\ \A r, s \in Requests : IdOf[r] = IdOf[s] => CameraOf[r] = CameraOf[s]

(***************************************************************************)
(* Verdicts.  A Failed verdict claims the device was never told to act.    *)
(***************************************************************************)
Failed == {"invalid_command", "unsupported_capability",
           "expired_before_execution", "device_unavailable"}
Verdicts == Failed \cup {"succeeded", "unknown"}
States == Verdicts \cup {"absent", "queued", "pending"}

Record == [request : Requests \cup {NoRequest}, state : States, acked : BOOLEAN]
NoRecord == [request |-> NoRequest, state |-> "absent", acked |-> FALSE]
Ledgers == {ledger \in [Ids -> Record] :
              \A id \in Ids : ledger[id].state = "absent" <=> ledger[id].request = NoRequest}
EmptyLedger == [id \in Ids |-> NoRecord]

Present(ledger) == {id \in Ids : ledger[id].state # "absent"}

\* dedup_until
DedupUntil(r) == ExpiresAt[r] + DedupGrace

\* The record of r itself, not of another request with the same id.
Holds(ledger, r) == ledger[IdOf[r]].state # "absent" /\ ledger[IdOf[r]].request = r

\* The ledger knows that r may have been executed.
Spent(ledger, r) ==
    /\ Holds(ledger, r)
    /\ ledger[IdOf[r]].state \in {"pending", "succeeded", "unknown"}

(***************************************************************************)
(* prune: forget acknowledged records whose window has closed.             *)
(***************************************************************************)
Prunable(record, t) == record.acked /\ DedupUntil(record.request) <= t

\* Defective: forgets a record as soon as the window closes, acknowledged or not.
PruneByTime(ledger, t) ==
    [id \in Ids |->
        IF ledger[id].state # "absent" /\ DedupUntil(ledger[id].request) <= t
        THEN NoRecord ELSE ledger[id]]

\* Defective: forgets a record as soon as it is acknowledged.
PruneByAck(ledger, t) ==
    [id \in Ids |-> IF ledger[id].acked THEN NoRecord ELSE ledger[id]]

Prune(ledger, t) ==
    [id \in Ids |-> IF Prunable(ledger[id], t) THEN NoRecord ELSE ledger[id]]

(***************************************************************************)
(* open: what an interrupted run left is turned into a verdict.            *)
(***************************************************************************)
\* Defective: an interrupted action is taken up again.
RecoverByRetry(ledger) ==
    [id \in Ids |-> IF ledger[id].state = "pending"
                    THEN [ledger[id] EXCEPT !.state = "queued"] ELSE ledger[id]]

Recover(ledger) ==
    [id \in Ids |->
        CASE ledger[id].state = "queued"  -> [ledger[id] EXCEPT !.state = "device_unavailable"]
          [] ledger[id].state = "pending" -> [ledger[id] EXCEPT !.state = "unknown"]
          [] OTHER -> ledger[id]]

Opened(ledger, t) == Prune(Recover(ledger), t)

(***************************************************************************)
(* admit: add a queued record for every id that has none.  The batch is    *)
(* refused when an id is reused for another request, or when the ledger    *)
(* would overflow.                                                         *)
(***************************************************************************)
Reused(ledger, batch, t) ==
    \E r \in batch :
        \/ Prune(ledger, t)[IdOf[r]].state # "absent" /\ Prune(ledger, t)[IdOf[r]].request # r
        \/ \E s \in batch : s # r /\ IdOf[s] = IdOf[r]

Additions(ledger, batch, t) ==
    {r \in batch : Prune(ledger, t)[IdOf[r]].state = "absent"}

Admitted(ledger, batch, t) ==
    [id \in Ids |->
        IF \E r \in Additions(ledger, batch, t) : IdOf[r] = id
        THEN [request |-> CHOOSE r \in Additions(ledger, batch, t) : IdOf[r] = id,
              state   |-> "queued",
              acked   |-> FALSE]
        ELSE Prune(ledger, t)[id]]

Overflows(ledger, batch, t) ==
    Cardinality(Present(Prune(ledger, t))) + Cardinality(Additions(ledger, batch, t)) > MaxRecords

\* remaining
Remaining(ledger) ==
    IF Cardinality(Present(ledger)) >= MaxRecords THEN 0
    ELSE MaxRecords - Cardinality(Present(ledger))

(***************************************************************************)
(* replay: what is already known of a command.                             *)
(***************************************************************************)
Replayed(ledger, r) ==
    LET state == ledger[IdOf[r]].state
    IN  IF ~Holds(ledger, r) THEN "error"
        ELSE CASE state = "queued"  -> "fresh"
               [] state = "pending" -> "unknown"
               [] OTHER             -> state

\* begin: what is written before anything is sent.
Begun(ledger, id) == [ledger EXCEPT ![id].state = "pending"]

\* complete: the verdict replaces whatever the record says.
\* Defective: only the verdict of a command that was begun is recorded.
CompletedIfBegun(ledger, id, v) ==
    IF ledger[id].state = "pending" THEN [ledger EXCEPT ![id].state = v] ELSE ledger

Completed(ledger, id, v) == [ledger EXCEPT ![id].state = v]

\* cancel: the verdict of a command whose worker was aborted.
CancelVerdict(state) ==
    CASE state = "queued"  -> "device_unavailable"
      [] state = "pending" -> "unknown"
      [] OTHER             -> state

(***************************************************************************)
(* acknowledge: ids without a record are skipped; the others must hold a   *)
(* verdict.                                                                *)
(***************************************************************************)
\* Defective: any record can be acknowledged.
AcknowledgeableAlways(ledger, ids) == TRUE

Acknowledgeable(ledger, ids) ==
    \A id \in ids \cap Present(ledger) : ledger[id].state \in Verdicts

Acknowledged(ledger, ids, t) ==
    Prune([id \in Ids |-> IF id \in ids \cap Present(ledger)
                          THEN [ledger[id] EXCEPT !.acked = TRUE]
                          ELSE ledger[id]], t)

\* What open demands of the file before it takes it over.
Loadable(ledger) ==
    /\ Cardinality(Present(ledger)) <= MaxRecords
    /\ \A id \in Present(ledger) :
         /\ IdOf[ledger[id].request] = id
         /\ ledger[id].acked => ledger[id].state \in Verdicts

\* receipts: the verdicts the Server has not confirmed yet, and all verdicts.
Unconfirmed(ledger) == {id \in Ids : ledger[id].state \in Verdicts /\ ~ledger[id].acked}
Concluded(ledger) == {id \in Ids : ledger[id].state \in Verdicts}
=============================================================================
