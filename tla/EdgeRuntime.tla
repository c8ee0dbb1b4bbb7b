---------------------------- MODULE EdgeRuntime ------------------------------
(***************************************************************************)
(* The run loop of xcoc (run in src/src/main.rs): one pass is woken by the *)
(* timer, by a finished snapshot or by a finished worker, and goes through *)
(*                                                                         *)
(*   reload, cancel -> snapshots, send -> commands, admit -> launch        *)
(*                                                                         *)
(* The loop's own state is touched by the loop alone; what runs beside it  *)
(* are the snapshot tasks, the workers of CommandExecution, the operator   *)
(* who edits the configuration file, and the Server.  One action of the    *)
(* pass is what it does from one ledger section or poll of a task set to   *)
(* the next; "phase" says which comes next.                                *)
(*                                                                         *)
(* The recorders and publishers of the same pass are MediaSupervision.     *)
(***************************************************************************)
EXTENDS CommandExecution, SequencesExt

CONSTANTS
    MaxInflight,            \* MAX_INFLIGHT_COMMANDS
    MaxInflightPerCamera,   \* MAX_INFLIGHT_PER_CAMERA
    MaxCommandRecords,      \* MAX_COMMAND_RECORDS
    Versions,               \* contents an instance may have in the configuration
    MaxEdits,               \* bound on edits of the configuration
    MaxCrashes,             \* bound on kills of the process
    MaxPanics,              \* bound on panics of snapshot tasks
    RedeliverAnswered       \* whether the Server may resend a command it has a result for

\* An instance that is not in the configuration.
Unpaired == "unpaired"

\* A configuration has at most 256 instances, command ids are UUIDs.
ASSUME RuntimeAssumption ==
    /\ IsFiniteSet(Cameras) /\ IsFiniteSet(Ids)
    /\ {MaxInflight, MaxInflightPerCamera, MaxCommandRecords} \subseteq Nat
    /\ {MaxEdits, MaxCrashes, MaxPanics} \subseteq Nat
    /\ Unpaired \notin Versions
    /\ RedeliverAnswered \in BOOLEAN
    /\ MaxInflightPerCamera <= MaxBatch

VARIABLES
    config,         \* the configuration file
    rebuilt,        \* the file was removed and made anew since the runtime read it
    edits, crashes, panics,                  \* how many happened

    phase,          \* where the loop is in its pass; "down": no process
    ticked,         \* this pass was woken by the timer
    loaded,         \* state.instances
    revision,       \* snapshot_revisions
    toCancel,       \* canceled_commands still to be canceled
    incoming,       \* commands received in this pass

    sending,        \* snapshot_inflight
    reserved,       \* snapshot_command_reservations
    snapshots,      \* snapshot_tasks: running and finished

    inflight,       \* command_inflight_ids
    pending,        \* command_queues
    handles,        \* command_abort_handles
    workerRevision, \* the revision each worker was launched with
    results,        \* command_results
    completed,      \* completed_commands: a verdict and until when it counts

    answered        \* history: the verdicts the Server has received for each id

environmentVars == <<config, rebuilt, edits, crashes, panics>>
passVars == <<phase, ticked, loaded, revision, toCancel, incoming>>
snapshotVars == <<sending, reserved, snapshots>>
commandVars == <<inflight, pending, handles, workerRevision, results, completed>>
loopVars == <<passVars, snapshotVars, commandVars>>
runtimeVars == <<vars, environmentVars, loopVars, answered>>

Phases == {"select", "cancel", "snapshots", "send", "commands", "launch"}
NoVerdict == "none"
Paired == {cam \in Cameras : loaded[cam] # Unpaired}
IdsOf(cam) == {IdOf[r] : r \in {r \in Requests : CameraOf[r] = cam}}
Known(receipts) == {id \in Ids : receipts[id] # NoVerdict}
NotCompleted == [verdict |-> NoVerdict, until |-> 0]

\* A snapshot request and what became of it.
Snapshot == [camera : Cameras, revision : Nat, sent : SUBSET (Ids \X Verdicts),
             capacity : Nat, outcome : {"waiting", "ok", "error", "panicked"},
             commands : Seq(Requests)]

RuntimeTypeOK ==
    /\ config \in [Cameras -> Versions \cup {Unpaired}]
    /\ rebuilt \in BOOLEAN
    /\ edits \in 0..MaxEdits /\ crashes \in 0..MaxCrashes /\ panics \in 0..MaxPanics
    /\ phase \in Phases \cup {"down"} /\ (phase = "down" <=> ~up)
    /\ ticked \in BOOLEAN
    /\ loaded \in [Cameras -> Versions \cup {Unpaired}]
    /\ revision \in [Cameras -> Nat]
    /\ toCancel \subseteq Ids
    /\ incoming \in Seq(Requests)
    /\ sending \subseteq Cameras
    /\ reserved \in [Cameras -> Nat]
    /\ \A t \in snapshots : t \in Snapshot
    /\ inflight \subseteq Ids
    /\ pending \in [Cameras -> Seq(Requests)]
    /\ handles \subseteq Cameras
    /\ workerRevision \in [Cameras -> Nat]
    /\ results \in [Ids -> Verdicts \cup {NoVerdict}]
    /\ completed \in [Ids -> [verdict : Verdicts \cup {NoVerdict}, until : Nat]]
    /\ answered \in [Ids -> SUBSET Verdicts]

\* The loop's state when the process starts, from the configuration and ledger.
LoopStarts(where, instances, ledger) ==
    /\ phase' = where
    /\ ticked' = FALSE
    /\ loaded' = instances
    /\ revision' = [cam \in Cameras |-> 0]
    /\ toCancel' = {} /\ incoming' = << >>
    /\ sending' = {}
    /\ reserved' = [cam \in Cameras |-> 0]
    /\ snapshots' = {}
    /\ inflight' = {}
    /\ pending' = [cam \in Cameras |-> << >>]
    /\ handles' = {}
    /\ workerRevision' = [cam \in Cameras |-> 0]
    /\ results' = [id \in Ids |-> IF id \in Unconfirmed(ledger) THEN ledger[id].state ELSE NoVerdict]
    /\ completed' = [id \in Ids |->
                        IF id \in Concluded(ledger)
                        THEN [verdict |-> ledger[id].state, until |-> DedupUntil(ledger[id].request)]
                        ELSE NotCompleted]

LoopEnds == LoopStarts("down", [cam \in Cameras |-> Unpaired], EmptyLedger)

RuntimeInit ==
    /\ Init
    /\ config \in [Cameras -> Versions \cup {Unpaired}]
    /\ rebuilt = FALSE
    /\ edits = 0 /\ crashes = 0 /\ panics = 0
    /\ phase = "down" /\ ticked = FALSE
    /\ loaded = [cam \in Cameras |-> Unpaired]
    /\ revision = [cam \in Cameras |-> 0]
    /\ toCancel = {} /\ incoming = << >>
    /\ sending = {}
    /\ reserved = [cam \in Cameras |-> 0]
    /\ snapshots = {}
    /\ inflight = {}
    /\ pending = [cam \in Cameras |-> << >>]
    /\ handles = {}
    /\ workerRevision = [cam \in Cameras |-> 0]
    /\ results = [id \in Ids |-> NoVerdict]
    /\ completed = [id \in Ids |-> NotCompleted]
    /\ answered = [id \in Ids |-> {}]

-----------------------------------------------------------------------------
(***************************************************************************)
(* Start, kill, configuration.                                             *)
(***************************************************************************)
\* A configuration without instances cannot be loaded: load_state fails, and
\* unpairing the last instance removes the file.
Configured == \E cam \in Cameras : config[cam] # Unpaired

Boot ==
    /\ Configured
    /\ Open
    /\ IF up' THEN LoopStarts("select", config, mem') ELSE UNCHANGED loopVars
    /\ rebuilt' = FALSE
    /\ UNCHANGED <<config, edits, crashes, panics, answered>>

\* Without a configuration the program sleeps and looks again.
AwaitConfig ==
    /\ ~up
    /\ ~Configured
    /\ UNCHANGED runtimeVars

Kill ==
    /\ crashes < MaxCrashes
    /\ crashes' = crashes + 1
    /\ Halt
    /\ LoopEnds
    /\ UNCHANGED <<config, rebuilt, edits, panics, answered>>

\* setup, camera apply, camera remove, unpair: each replaces the file atomically.
\* A file made anew names another installation, which a running loop refuses.
EditConfig(cam, version) ==
    /\ edits < MaxEdits
    /\ edits' = edits + 1
    /\ version # config[cam]
    /\ config' = [config EXCEPT ![cam] = version]
    /\ rebuilt' = (rebuilt \/ ~Configured)
    /\ UNCHANGED <<vars, crashes, panics, loopVars, answered>>

Time == Tick /\ UNCHANGED <<environmentVars, loopVars, answered>>
Work(cam) == WorkerStep(cam) /\ UNCHANGED <<environmentVars, loopVars, answered>>

-----------------------------------------------------------------------------
(***************************************************************************)
(* The Server, and the network in between.  Only requests that wait for an *)
(* answer are concerned; an aborted one is gone (Reload).                  *)
(***************************************************************************)
Heard(t) == [id \in Ids |-> answered[id] \cup {v \in Verdicts : <<id, v>> \in t.sent}]

\* The commands the Server may put into its response to t, in some order.
Deliveries(t) ==
    LET due == {r \in Requests : /\ CameraOf[r] = t.camera
                                 /\ RedeliverAnswered \/ Heard(t)[IdOf[r]] = {}}
    IN  UNION {SetToSeqs(S) : S \in {S \in SUBSET due :
                    /\ Cardinality(S) <= t.capacity
                    /\ \A r, s \in S : IdOf[r] = IdOf[s] => r = s}}

TaskEnds(t, outcome, commands) ==
    snapshots' = (snapshots \ {t}) \cup {[t EXCEPT !.outcome = outcome, !.commands = commands]}

\* send_snapshot succeeds.  Assumption AbortSettles: a poll that was running
\* when its task was aborted ends before the answer to a later request arrives.
SnapshotServed(t) ==
    /\ t.outcome = "waiting"
    /\ ~Zombie(t.camera)
    /\ \E commands \in Deliveries(t) : TaskEnds(t, "ok", commands)
    /\ answered' = Heard(t)
    /\ UNCHANGED <<vars, environmentVars, passVars, sending, reserved, commandVars>>

\* send_snapshot fails: before the Server got the request, or after it did (lost
\* or invalid response, more commands than the capacity).
SnapshotLost(t) ==
    /\ t.outcome = "waiting"
    /\ TaskEnds(t, "error", << >>)
    /\ answered' \in {answered, Heard(t)}
    /\ UNCHANGED <<vars, environmentVars, passVars, sending, reserved, commandVars>>

SnapshotPanics(t) ==
    /\ panics < MaxPanics
    /\ panics' = panics + 1
    /\ t.outcome = "waiting"
    /\ TaskEnds(t, "panicked", << >>)
    /\ UNCHANGED <<vars, config, rebuilt, edits, crashes, passVars, sending, reserved, commandVars, answered>>

-----------------------------------------------------------------------------
(***************************************************************************)
(* The pass.                                                               *)
(***************************************************************************)
Finished == {t \in snapshots : t.outcome # "waiting"}
EndedWorkers == {cam \in Cameras : pc[cam] \in Ended}

\* tokio::select! in run: the timer, a finished snapshot or a finished worker.
Wake ==
    \/ ticked' = TRUE
    \/ ticked' = FALSE /\ (Finished # {} \/ EndedWorkers # {})

\* The commands in flight of changed instances (canceled_commands).
\* Defective: only those that wait in a queue.
CanceledQueued(changed) ==
    {id \in inflight : \E cam \in changed : \E i \in DOMAIN pending[cam] : IdOf[pending[cam][i]] = id}

Canceled(changed) == {id \in inflight : \E cam \in changed : id \in IdsOf(cam)}

\* The workers whose handle is used (command_abort_handles).
\* Defective: none of them.
NoWorkers(changed) == {}

Interrupted(changed) == changed \cap handles

\* reload_configuration and what run does with the changed instances.  Their
\* revision moves on, their tasks are aborted, what they had queued, reserved or
\* in flight is forgotten; a command in flight is canceled in the ledger, unless
\* its instance is gone.  Without an edit none of this has an effect.
Reload ==
    /\ phase = "select"
    /\ Wake
    /\ Configured /\ ~rebuilt
    /\ LET changed == {cam \in Cameras : config[cam] # loaded[cam]}
           canceled == Canceled(changed)
           paired(id) == \E cam \in Cameras : config[cam] # Unpaired /\ id \in IdsOf(cam)
       IN  /\ loaded' = config
           /\ revision' = [cam \in Cameras |-> revision[cam] + IF cam \in changed THEN 1 ELSE 0]
           /\ AbortWorkers(Interrupted(changed))
           /\ handles' = handles \ changed
           /\ pending' = [cam \in Cameras |-> IF cam \in changed THEN << >> ELSE pending[cam]]
           /\ sending' = sending \ changed
           /\ reserved' = [cam \in Cameras |-> IF cam \in changed THEN 0 ELSE reserved[cam]]
           /\ snapshots' = {t \in snapshots : t.camera \in changed => t.outcome # "waiting"}
           /\ inflight' = inflight \ canceled
           /\ toCancel' = {id \in canceled : paired(id)}
           /\ results' = [id \in Ids |-> IF paired(id) THEN results[id] ELSE NoVerdict]
    /\ phase' = IF toCancel' = {} THEN "snapshots" ELSE "cancel"
    /\ UNCHANGED <<environmentVars, incoming, workerRevision, completed, answered>>

ReloadFails ==
    /\ phase = "select"
    /\ ~Configured \/ rebuilt
    /\ Halt
    /\ LoopEnds
    /\ UNCHANGED <<environmentVars, answered>>

CancelOne(r) ==
    /\ phase = "cancel"
    /\ IdOf[r] \in toCancel
    /\ Cancel(r)
    /\ IF up'
       THEN /\ toCancel' = toCancel \ {IdOf[r]}
            /\ phase' = IF toCancel' = {} THEN "snapshots" ELSE "cancel"
            /\ results' = [results EXCEPT ![IdOf[r]] = mem'[IdOf[r]].state]
            /\ completed' = [completed EXCEPT ![IdOf[r]] =
                                [verdict |-> mem'[IdOf[r]].state, until |-> now + DedupGrace]]
            /\ UNCHANGED <<ticked, loaded, revision, incoming, snapshotVars,
                           inflight, pending, handles, workerRevision>>
       ELSE LoopEnds
    /\ UNCHANGED <<environmentVars, answered>>

\* A finished snapshot.  The result of an outdated revision is dropped; a
\* response confirms the results it was asked with and brings commands.
CollectSnapshot(t) ==
    /\ phase = "snapshots"
    /\ t \in Finished
    /\ t.outcome # "panicked"
    /\ \/ /\ revision[t.camera] # t.revision
          /\ snapshots' = snapshots \ {t}
          /\ UNCHANGED <<vars, passVars, sending, reserved, commandVars>>
       \/ /\ revision[t.camera] = t.revision
          /\ t.outcome = "error"
          /\ snapshots' = snapshots \ {t}
          /\ sending' = sending \ {t.camera}
          /\ reserved' = [reserved EXCEPT ![t.camera] = 0]
          /\ UNCHANGED <<vars, passVars, commandVars>>
       \/ /\ revision[t.camera] = t.revision
          /\ t.outcome = "ok"
          /\ LET ids == {p[1] : p \in t.sent}
             IN  /\ Acknowledge(ids)
                 /\ IF up'
                    THEN /\ results' = [id \in Ids |-> IF id \in ids THEN NoVerdict ELSE results[id]]
                         /\ incoming' = incoming \o t.commands
                         /\ snapshots' = snapshots \ {t}
                         /\ sending' = sending \ {t.camera}
                         /\ reserved' = [reserved EXCEPT ![t.camera] = 0]
                         /\ UNCHANGED <<phase, ticked, loaded, revision, toCancel,
                                        inflight, pending, handles, workerRevision, completed>>
                    ELSE LoopEnds
    /\ UNCHANGED <<environmentVars, answered>>

\* A snapshot task panicked: all snapshots are given up and every revision moves
\* on, that of the workers included.  (The code leaves what else has finished for
\* the next pass; it is outdated by now.)
CollectPanic(t) ==
    /\ phase = "snapshots"
    /\ t \in Finished
    /\ t.outcome = "panicked"
    /\ snapshots' = Finished \ {t}
    /\ sending' = {}
    /\ reserved' = [cam \in Cameras |-> 0]
    /\ revision' = [cam \in Cameras |-> revision[cam] + 1]
    /\ UNCHANGED <<vars, environmentVars, phase, ticked, loaded, toCancel, incoming, commandVars,
                   answered>>

-----------------------------------------------------------------------------
(***************************************************************************)
(* Capacity.                                                               *)
(***************************************************************************)
\* Defective: a plain difference.
MonusUnchecked(a, b) == a + (-1) * b

\* saturating_sub
Monus(a, b) == IF a > b THEN a - b ELSE 0
Receipts == Cardinality(Known(results))
                + Cardinality({id \in Ids : completed[id].verdict # NoVerdict})
\* One slot for each command promised to a snapshot that is under way.
Promised == {slot \in Cameras \X (1..MaxInflight) : slot[2] <= reserved[slot[1]]}
Taken == Cardinality(inflight) + Cardinality(Promised) + Len(incoming)

\* Defective: the capacity other snapshots were promised is not counted.
CapacityUnreserved(cam) ==
    LET taken == Cardinality(inflight) + Len(incoming)
    IN  Min({Monus(MaxInflight, taken),
             Monus(MaxInflightPerCamera, Cardinality(inflight \cap IdsOf(cam))),
             Monus(MaxCommandRecords, 2 * taken + Receipts) \div 2,
             Monus(Remaining(mem), taken)})

\* Defective: the commands that came in this pass are not counted yet.
CapacityBeforeIncoming(cam) ==
    LET taken == Cardinality(inflight) + Cardinality(Promised)
    IN  Min({Monus(MaxInflight, taken),
             Monus(MaxInflightPerCamera, Cardinality(inflight \cap IdsOf(cam))),
             Monus(MaxCommandRecords, 2 * taken + Receipts) \div 2,
             Monus(Remaining(mem), taken)})

\* available_command_capacity, and the ledger's own limit on top of it.  (The
\* limit of 100 for one response is more than any bound here.)
Capacity(cam) ==
    LET own == Cardinality(inflight \cap IdsOf(cam))
                   + Cardinality({i \in DOMAIN incoming : CameraOf[incoming[i]] = cam})
    IN  Min({Monus(MaxInflight, Taken),
             Monus(MaxInflightPerCamera, own),
             Monus(MaxCommandRecords, 2 * Taken + Receipts) \div 2,
             Monus(Remaining(mem), Taken)})

\* The instances the timer pass has still to send a snapshot for: those without one
\* under way.
Due == IF ticked THEN Paired \ sending ELSE {}
AfterSend(due) == IF due = {} THEN "commands" ELSE "send"

\* No finished snapshot is left.
SnapshotsCollected ==
    /\ phase = "snapshots"
    /\ Finished = {}
    /\ phase' = AfterSend(Due)
    /\ UNCHANGED <<vars, environmentVars, ticked, loaded, revision, toCancel, incoming,
                   snapshotVars, commandVars, answered>>

\* The next snapshot of the pass, with the results held for the instance
\* (pending_result_batch takes 100 at most, more than any bound here).  What
\* finishes from now on waits for the next pass.
SendSnapshot(cam) ==
    /\ phase = "send"
    /\ cam \in Due
    /\ sending' = sending \cup {cam}
    /\ reserved' = [reserved EXCEPT ![cam] = Capacity(cam)]
    /\ snapshots' = snapshots \cup
         {[camera |-> cam, revision |-> revision[cam],
           sent |-> {<<id, results[id]>> : id \in Known(results) \cap IdsOf(cam)},
           capacity |-> Capacity(cam), outcome |-> "waiting", commands |-> << >>]}
    /\ phase' = AfterSend(Due \ {cam})
    /\ UNCHANGED <<vars, environmentVars, ticked, loaded, revision, toCancel, incoming,
                   commandVars, answered>>

-----------------------------------------------------------------------------
(***************************************************************************)
(* Commands.                                                               *)
(***************************************************************************)
WorkerResults(cam) ==
    [id \in Ids |-> IF \E x \in returned[cam] : IdOf[x.request] = id
                    THEN (CHOOSE x \in returned[cam] : IdOf[x.request] = id).verdict
                    ELSE results[id]]

\* The revision launch_queued_command_tasks noted when it started the worker.
CurrentWorker(cam) == workerRevision[cam] = revision[cam]

\* A finished worker.  An error ends the run, whatever the worker's revision; the
\* output of an outdated revision is dropped.
CollectWorker(cam) ==
    /\ phase = "commands"
    /\ Collect(cam)
    /\ \/ /\ ~up'
          /\ LoopEnds
       \/ /\ up'
          /\ ~CurrentWorker(cam)
          /\ UNCHANGED loopVars
       \/ /\ up'
          /\ CurrentWorker(cam)
          /\ handles' = handles \ {cam}
          /\ inflight' = inflight \ {IdOf[x.request] : x \in returned[cam]}
          /\ results' = WorkerResults(cam)
          /\ completed' = [id \in Ids |->
                            IF \E x \in returned[cam] : IdOf[x.request] = id /\ x.fresh
                            THEN LET x == CHOOSE x \in returned[cam] : IdOf[x.request] = id
                                 IN  [verdict |-> x.verdict, until |-> DedupUntil(x.request)]
                            ELSE completed[id]]
          /\ UNCHANGED <<passVars, snapshotVars, pending, workerRevision>>
    /\ UNCHANGED <<environmentVars, answered>>

-----------------------------------------------------------------------------
(***************************************************************************)
(* enqueue_device_commands and admit.                                      *)
(***************************************************************************)
Batch == {incoming[i] : i \in DOMAIN incoming}
Live == {id \in Ids : completed[id].verdict # NoVerdict /\ completed[id].until > now}
Resent == {r \in Batch : IdOf[r] \in Live}
Fresh == {r \in Batch : IdOf[r] \notin Live \cup inflight}

\* SelectSeq, as a recursive function: the elements of s that are in S, in order.
Selected(s, S) ==
    LET picked[n \in 0..Len(s)] ==
            IF n = 0 THEN << >>
            ELSE IF s[n] \in S THEN Append(picked[n - 1], s[n]) ELSE picked[n - 1]
    IN  picked[Len(s)]

Ready(queues, busy) == {cam \in Cameras : queues[cam] # << >> /\ cam \notin busy}
AfterLaunch(queues, busy) == IF Ready(queues, busy) = {} THEN "select" ELSE "launch"

\* The whole batch is refused if it exceeds a limit.
EnqueueOverflows ==
    LET ids == inflight \cup {IdOf[r] : r \in Fresh}
    IN  \/ Cardinality(ids) > MaxInflight
        \/ \E cam \in Cameras : Cardinality(ids \cap IdsOf(cam)) > MaxInflightPerCamera
        \/ 2 * Cardinality(ids) + Cardinality(Live)
             + Cardinality(Known(results) \cup {IdOf[r] : r \in Resent}) > MaxCommandRecords

\* Commands with a known verdict are answered from it; the others are queued in
\* the order they came, then written to the ledger in one go.
EnqueueAndAdmit ==
    /\ phase = "commands"
    /\ EndedWorkers = {}
    /\ \/ /\ EnqueueOverflows
          /\ Halt
          /\ LoopEnds
       \/ /\ ~EnqueueOverflows
          /\ Admit(Batch)
          /\ IF up'
             THEN /\ incoming' = << >>
                  /\ completed' = [id \in Ids |-> IF id \in Live THEN completed[id] ELSE NotCompleted]
                  /\ results' = [id \in Ids |-> IF \E r \in Resent : IdOf[r] = id
                                                THEN completed[id].verdict ELSE results[id]]
                  /\ inflight' = inflight \cup {IdOf[r] : r \in Fresh}
                  /\ pending' = [cam \in Cameras |->
                        pending[cam] \o Selected(incoming, {r \in Fresh : CameraOf[r] = cam})]
                  /\ phase' = AfterLaunch(pending', handles)
                  /\ ticked' = FALSE
                  /\ UNCHANGED <<loaded, revision, toCancel, snapshotVars, handles, workerRevision>>
             ELSE LoopEnds
    /\ UNCHANGED <<environmentVars, answered>>

\* launch_queued_command_tasks: one worker at a time for each camera.
LaunchOne(cam) ==
    /\ phase = "launch"
    /\ cam \in Ready(pending, handles)
    /\ Launch(cam, pending[cam])
    /\ pending' = [pending EXCEPT ![cam] = << >>]
    /\ handles' = handles \cup {cam}
    /\ workerRevision' = [workerRevision EXCEPT ![cam] = revision[cam]]
    /\ phase' = AfterLaunch(pending', handles')
    /\ UNCHANGED <<environmentVars, ticked, loaded, revision, toCancel, incoming, snapshotVars,
                   inflight, results, completed, answered>>

-----------------------------------------------------------------------------
Network ==
    \E t \in snapshots : SnapshotServed(t) \/ SnapshotLost(t) \/ SnapshotPanics(t)

Pass ==
    \/ Reload
    \/ ReloadFails
    \/ \E r \in Requests : CancelOne(r)
    \/ \E t \in snapshots : CollectSnapshot(t) \/ CollectPanic(t)
    \/ SnapshotsCollected
    \/ \E cam \in Cameras : SendSnapshot(cam)
    \/ \E cam \in Cameras : CollectWorker(cam)
    \/ EnqueueAndAdmit
    \/ \E cam \in Cameras : LaunchOne(cam)

RuntimeNext ==
    \/ Boot
    \/ AwaitConfig
    \/ Kill
    \/ Time
    \/ \E cam \in Cameras : \E version \in Versions \cup {Unpaired} : EditConfig(cam, version)
    \/ \E cam \in Cameras : Work(cam)
    \/ Network
    \/ Pass

RuntimeSpec == RuntimeInit /\ [][RuntimeNext]_runtimeVars

(***************************************************************************)
(* Fairness: the loop and its workers are polled, the supervisor starts    *)
(* the process again, and a camera's requests do not fail for ever.        *)
(* Nothing is assumed of the clock, of crashes, edits or panics.           *)
(***************************************************************************)
RuntimeFairness ==
    /\ WF_runtimeVars(Boot)
    /\ WF_runtimeVars(Pass)
    /\ \A cam \in Cameras :
        /\ WF_runtimeVars(Work(cam))
        /\ SF_runtimeVars(\E t \in snapshots : t.camera = cam /\ SnapshotServed(t))

FairRuntimeSpec == RuntimeSpec /\ RuntimeFairness

-----------------------------------------------------------------------------
(***************************************************************************)
(* What the run loop promises.                                             *)
(***************************************************************************)
\* The loop makes its calls on the ledger and the workers only at moments at which
\* CommandExecution allows them: no command is canceled while its worker may go on
\* to act on it, and nothing is admitted or launched beside a worker that was
\* aborted and has not ended (the order of abort, cancel and admission in run).
LoopKeepsContract ==
    /\ phase = "cancel" => \A r \in Requests : IdOf[r] \in toCancel =>
            pc[CameraOf[r]] = "idle" \/ aborted[CameraOf[r]]
    /\ phase = "commands" /\ EndedWorkers = {} => \A r \in Batch : ~aborted[CameraOf[r]]
    /\ phase = "launch" => \A cam \in Ready(pending, handles) : pc[cam] = "idle"

\* A response within the capacity that was promised for it is never refused:
\* neither by enqueue_device_commands nor by the ledger, whose error would end
\* the run.  Reservations cover snapshots of several cameras under way at once,
\* workers finishing meanwhile and answers that come late.
CapacityHonoured == phase = "commands" /\ EndedWorkers = {} => ~EnqueueOverflows /\ ~Overflows(mem, Batch, now)

\* What was sent to a camera stays on disk as possibly executed until the Server
\* has received a result for it, through crashes, aborts, lost responses and edits
\* of the configuration.
EvidenceKept ==
    \A r \in Requests : transmitted[r] > 0 /\ answered[IdOf[r]] = {} => Spent(disk, r)

\* If the Server was told a command was not executed, it never was and never
\* will be.
FailedHeardNeverExecuted ==
    \A r \in Requests : answered[IdOf[r]] \cap Failed # {} => transmitted[r] = 0

\* Whenever the loop is at rest, every command in flight is waiting in a queue or
\* is in the hands of a worker whose output the loop will accept.  (A panic of a
\* snapshot task moves the workers' revisions on and breaks this: see README.)
InflightOwned ==
    phase = "select" /\ panics = 0 => \A id \in inflight : \E cam \in Cameras :
        /\ id \in IdsOf(cam)
        /\ \/ \E i \in DOMAIN pending[cam] : IdOf[pending[cam][i]] = id
           \/ /\ pc[cam] # "idle" /\ cam \in handles /\ ~aborted[cam]
              /\ workerRevision[cam] = revision[cam]
              /\ \/ \E i \in DOMAIN queue[cam] : IdOf[queue[cam][i]] = id
                 \/ \E x \in returned[cam] : IdOf[x.request] = id
                 \/ pc[cam] = "failed"

\* A verdict the loop holds for the Server, or has sent it, is the one the ledger
\* holds, as long as it holds one: docs/runtime-reference.md says that a command
\* delivered again reports only the durable result (collection of workers and
\* enqueue_device_commands in run; Complete, which writes late).
ReportsDurableResult ==
    \A id \in Present(mem) : \A v \in Verdicts :
        (results[id] = v \/ \E t \in snapshots : <<id, v>> \in t.sent) => mem[id].state = v

\* The Server's confirmation never hits a record without a verdict, which would
\* end the run.
ConfirmationsMatch ==
    Acknowledgeable(mem, Known(results) \cup UNION {{p[1] : p \in t.sent} : t \in snapshots})

\* A worker gave up on a command whose record is gone: its deduplication window has
\* closed, and the Server has confirmed a result that was known before.
OutlivedRecord ==
    \E cam \in Cameras : /\ pc[cam] = "failed"
                          /\ Lapsed(Current(cam)) /\ ~Holds(mem, Current(cam))

\* The program ends only when it is killed or left without the configuration it was
\* started with: no order of answers, finished workers, timers and edits makes a
\* pass fail, as long as the storage does not and no record is dropped while its
\* command, delivered again, waits for a worker.
RunsUntilStopped ==
    [][up /\ ~up' => crashes' > crashes \/ ~Configured \/ rebuilt \/ OutlivedRecord]_runtimeVars

\* Once a command has been written to the ledger, the Server receives a verdict on
\* it, or its camera is unpaired: no verdict is lost in an abort, a crash, a lost
\* response or a reload.
EventuallyAnswered ==
    \A r \in Requests :
        Holds(disk, r) ~> answered[IdOf[r]] # {} \/ config[CameraOf[r]] = Unpaired
=============================================================================
