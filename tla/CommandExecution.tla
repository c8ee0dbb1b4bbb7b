-------------------------- MODULE CommandExecution ---------------------------
(***************************************************************************)
(* Physical execution of device commands: the ledger of CommandLedger,     *)
(* shared under a mutex by the run loop and by one worker per camera       *)
(* (execute_commands in src/src/main.rs), with crashes, failing writes and *)
(* aborted workers.  A worker step is one section under the ledger's lock, *)
(* or one of the computations between two of them.                         *)
(*                                                                         *)
(* The run loop appears here only through its ledger calls (Admit, Cancel, *)
(* Acknowledge) and its task calls (Launch, AbortWorkers, Collect).  Which *)
(* of them it makes, and when, is EdgeRuntime's business.                  *)
(*                                                                         *)
(* Task::abort is asynchronous.  An aborted worker is dropped at an await, *)
(* but the poll that is running on another thread goes on: it may take     *)
(* ledger sections, even return.  It never receives the device's answer,   *)
(* which needs another poll.                                               *)
(***************************************************************************)
EXTENDS CommandLedger, Sequences

CONSTANTS
    MaxTime,        \* bound of the clock
    MaxBatch,       \* bound of a worker's queue
    StorageFaults   \* whether a write of the ledger may fail

ASSUME ExecutionAssumption ==
    /\ MaxTime \in Nat
    /\ MaxBatch \in Nat
    /\ StorageFaults \in BOOLEAN

VARIABLES
    now,          \* the wall clock, assumed not to step back
    up,           \* the runtime process is running
    mem,          \* CommandLedger.records
    disk,         \* the ledger file
    pc,           \* where each camera's worker is; "idle": there is none
    queue,        \* the commands the worker still has to handle, current one first
    aborted,      \* the worker's AbortHandle was used
    verdict,      \* the result the worker is about to record
    returned,     \* results and recently_completed of the worker
    transmitted   \* history: how often each command was sent to its device

workerVars == <<pc, queue, aborted, verdict, returned>>
vars == <<now, up, mem, disk, pc, queue, aborted, verdict, returned, transmitted>>

Running == {"replay", "deadline", "begin", "send", "reply", "complete"}
\* Past replay: the worker has found its current command queued.
Engaged == Running \ {"replay"}
Ended == {"done", "failed"}

\* A result of a worker; fresh ones also go to recently_completed.
Results == [request : Requests, verdict : Verdicts, fresh : BOOLEAN]

Current(cam) == Head(queue[cam])

\* Still inside a poll that began before the abort.
Zombie(cam) == aborted[cam] /\ pc[cam] \in Running

TypeOK ==
    /\ now \in Nat
    /\ up \in BOOLEAN
    /\ mem \in Ledgers
    /\ disk \in Ledgers
    /\ pc \in [Cameras -> Running \cup Ended \cup {"idle"}]
    /\ queue \in [Cameras -> Seq(Requests)]
    /\ aborted \in [Cameras -> BOOLEAN]
    /\ verdict \in [Cameras -> Verdicts]
    /\ returned \in [Cameras -> SUBSET Results]
    /\ transmitted \in [Requests -> Nat]

Init ==
    /\ now = 0
    /\ up = FALSE
    /\ mem = EmptyLedger
    /\ disk = EmptyLedger
    /\ pc = [cam \in Cameras |-> "idle"]
    /\ queue = [cam \in Cameras |-> << >>]
    /\ aborted = [cam \in Cameras |-> FALSE]
    /\ verdict = [cam \in Cameras |-> "unknown"]
    /\ returned = [cam \in Cameras |-> {}]
    /\ transmitted = [r \in Requests |-> 0]

-----------------------------------------------------------------------------
(***************************************************************************)
(* The process and its storage.                                            *)
(***************************************************************************)
Tick ==
    /\ now < MaxTime
    /\ now' = now + 1
    /\ UNCHANGED <<up, mem, disk, workerVars, transmitted>>

\* The process ends: run returns, or it crashes.  Memory and workers are gone.
Halted ==
    /\ up' = FALSE
    /\ mem' = EmptyLedger
    /\ pc' = [cam \in Cameras |-> "idle"]
    /\ queue' = [cam \in Cameras |-> << >>]
    /\ aborted' = [cam \in Cameras |-> FALSE]
    /\ verdict' = [cam \in Cameras |-> "unknown"]
    /\ returned' = [cam \in Cameras |-> {}]

Halt ==
    /\ up
    /\ Halted
    /\ UNCHANGED <<now, disk, transmitted>>

\* persist, as the run loop uses it.  A failed write leaves the old file, or,
\* when only the final directory sync failed, the new one; run then returns.
Saved(ledger) ==
    /\ mem' = ledger
    /\ disk' = ledger
    /\ UNCHANGED <<up, workerVars>>

SaveFails(ledger) ==
    /\ StorageFaults
    /\ disk' \in {disk, ledger}
    /\ Halted

SaveByLoop(ledger) == Saved(ledger) \/ SaveFails(ledger)

\* CommandLedger::open: the file is written only when something changed.
Open ==
    /\ ~up
    /\ \/ /\ up' = TRUE
          /\ mem' = Opened(disk, now)
          /\ disk' = Opened(disk, now)
          /\ UNCHANGED workerVars
       \/ Opened(disk, now) # disk /\ SaveFails(Opened(disk, now))
    /\ UNCHANGED <<now, transmitted>>

-----------------------------------------------------------------------------
(***************************************************************************)
(* Calls of the run loop.                                                  *)
(***************************************************************************)
\* CommandLedger::admit.  Assumption: a response to a request sent after an
\* abort arrives only when the aborted poll has ended.
Admit(batch) ==
    /\ up
    /\ \A r \in batch : ~aborted[CameraOf[r]]
    /\ \/ /\ ~Reused(mem, batch, now)
          /\ ~Overflows(mem, batch, now)
          /\ Additions(mem, batch, now) # {}
          /\ SaveByLoop(Admitted(mem, batch, now))
       \/ /\ ~Reused(mem, batch, now)
          /\ ~Overflows(mem, batch, now)
          /\ Additions(mem, batch, now) = {}
          /\ mem' = Prune(mem, now)
          /\ UNCHANGED <<up, disk, workerVars>>
       \/ /\ Reused(mem, batch, now) \/ Overflows(mem, batch, now)
          /\ Halted
          /\ UNCHANGED disk
    /\ UNCHANGED <<now, transmitted>>

\* launch_queued_command_tasks, for one camera.
Launch(cam, commands) ==
    /\ up
    /\ pc[cam] = "idle"
    /\ pc' = [pc EXCEPT ![cam] = "replay"]
    /\ queue' = [queue EXCEPT ![cam] = commands]
    /\ returned' = [returned EXCEPT ![cam] = {}]
    /\ UNCHANGED <<now, up, mem, disk, aborted, verdict, transmitted>>

\* AbortHandle::abort for the workers of the cameras S.
AbortWorkers(S) ==
    /\ up
    /\ aborted' = [cam \in Cameras |-> aborted[cam] \/ (cam \in S /\ pc[cam] # "idle")]
    /\ UNCHANGED <<now, up, mem, disk, pc, queue, verdict, returned, transmitted>>

\* CommandLedger::cancel, called for a command whose worker was aborted.
\* Defective: an aborted command is always reported as not executed.
CancelAsFailed(r) ==
    /\ up
    /\ pc[CameraOf[r]] = "idle" \/ aborted[CameraOf[r]]
    /\ mem[IdOf[r]].state # "absent"
    /\ SaveByLoop(Completed(mem, IdOf[r], "device_unavailable"))
    /\ UNCHANGED <<now, transmitted>>

Cancel(r) ==
    /\ up
    /\ pc[CameraOf[r]] = "idle" \/ aborted[CameraOf[r]]
    /\ \/ /\ mem[IdOf[r]].state # "absent"
          /\ SaveByLoop(Completed(mem, IdOf[r], CancelVerdict(mem[IdOf[r]].state)))
       \/ /\ mem[IdOf[r]].state = "absent"
          /\ Halted
          /\ UNCHANGED disk
    /\ UNCHANGED <<now, transmitted>>

\* CommandLedger::acknowledge
Acknowledge(ids) ==
    /\ up
    /\ \/ /\ Acknowledgeable(mem, ids)
          /\ Acknowledged(mem, ids, now) # mem
          /\ SaveByLoop(Acknowledged(mem, ids, now))
       \/ /\ Acknowledgeable(mem, ids)
          /\ Acknowledged(mem, ids, now) = mem
          /\ UNCHANGED <<up, mem, disk, workerVars>>
       \/ /\ ~Acknowledgeable(mem, ids)
          /\ Halted
          /\ UNCHANGED disk
    /\ UNCHANGED <<now, transmitted>>

\* The loop takes the output of a worker that ended; an error ends the run.
Collect(cam) ==
    /\ up
    /\ \/ /\ pc[cam] = "done"
          /\ pc' = [pc EXCEPT ![cam] = "idle"]
          /\ queue' = [queue EXCEPT ![cam] = << >>]
          /\ aborted' = [aborted EXCEPT ![cam] = FALSE]
          /\ returned' = [returned EXCEPT ![cam] = {}]
          /\ UNCHANGED <<up, mem, verdict>>
       \/ /\ pc[cam] = "failed"
          /\ Halted
    /\ UNCHANGED <<now, disk, transmitted>>

\* The runtime drops an aborted worker at an await; the join error is ignored.
DropAborted(cam) ==
    /\ Zombie(cam)
    /\ pc' = [pc EXCEPT ![cam] = "idle"]
    /\ queue' = [queue EXCEPT ![cam] = << >>]
    /\ aborted' = [aborted EXCEPT ![cam] = FALSE]
    /\ verdict' = [verdict EXCEPT ![cam] = "unknown"]
    /\ returned' = [returned EXCEPT ![cam] = {}]
    /\ UNCHANGED <<now, up, mem, disk, transmitted>>

-----------------------------------------------------------------------------
(***************************************************************************)
(* execute_commands.                                                       *)
(***************************************************************************)
Step(cam, from, to) ==
    /\ up
    /\ pc[cam] = from
    /\ pc' = [pc EXCEPT ![cam] = to]

\* The current command is finished: its result is kept, the next one is taken.
Return(cam, v, fresh) ==
    /\ queue' = [queue EXCEPT ![cam] = Tail(@)]
    /\ returned' = [returned EXCEPT ![cam] =
                        @ \cup {[request |-> Current(cam), verdict |-> v, fresh |-> fresh]}]

Finish(cam) ==
    /\ queue[cam] = << >>
    /\ Step(cam, "replay", "done")
    /\ UNCHANGED <<now, up, mem, disk, queue, aborted, verdict, returned, transmitted>>

\* Ledger section: is the command already decided?  (The worker's own
\* `completed` map cannot hold it: a queue has each id once.)
Replay(cam) ==
    /\ up
    /\ pc[cam] = "replay"
    /\ queue[cam] # << >>
    /\ LET known == Replayed(mem, Current(cam))
       IN  \/ /\ known = "error"
              /\ pc' = [pc EXCEPT ![cam] = "failed"]
              /\ UNCHANGED <<queue, returned>>
           \/ /\ known = "fresh"
              /\ pc' = [pc EXCEPT ![cam] = "deadline"]
              /\ UNCHANGED <<queue, returned>>
           \/ /\ known \in Verdicts
              /\ UNCHANGED pc
              /\ Return(cam, known, FALSE)
    /\ UNCHANGED <<now, up, mem, disk, aborted, verdict, transmitted>>

\* Deadline, then the camera as it was resolved when the worker was launched.
CheckDeadline(cam) ==
    /\ \/ /\ Step(cam, "deadline", "complete")
          /\ ExpiresAt[Current(cam)] <= now
          /\ verdict' = [verdict EXCEPT ![cam] = "expired_before_execution"]
       \/ /\ Step(cam, "deadline", "complete")
          /\ ExpiresAt[Current(cam)] > now
          /\ verdict' \in {[verdict EXCEPT ![cam] = v] : v \in Failed \ {"expired_before_execution"}}
       \/ /\ Step(cam, "deadline", "begin")
          /\ ExpiresAt[Current(cam)] > now
          /\ UNCHANGED verdict
    /\ UNCHANGED <<now, up, mem, disk, queue, aborted, returned, transmitted>>

\* Defective: the intent is kept in memory only.
BeginInMemory(cam) ==
    /\ Step(cam, "begin", "send")
    /\ mem[IdOf[Current(cam)]].state = "queued"
    /\ mem' = Begun(mem, IdOf[Current(cam)])
    /\ UNCHANGED <<now, up, disk, queue, aborted, verdict, returned, transmitted>>

\* Ledger section: the intent must be durable before anything is sent.
Begin(cam) ==
    /\ up
    /\ pc[cam] = "begin"
    /\ LET id == IdOf[Current(cam)]
           saved == Begun(mem, id)
       IN  \/ /\ mem[id].state = "queued"
              /\ pc' = [pc EXCEPT ![cam] = "send"]
              /\ mem' = saved
              /\ disk' = saved
           \/ /\ mem[id].state = "queued"
              /\ StorageFaults
              /\ pc' = [pc EXCEPT ![cam] = "failed"]
              /\ mem' = saved
              /\ disk' \in {disk, saved}
           \/ /\ mem[id].state # "queued"
              /\ pc' = [pc EXCEPT ![cam] = "failed"]
              /\ UNCHANGED <<mem, disk>>
    /\ UNCHANGED <<now, up, queue, aborted, verdict, returned, transmitted>>

\* device.ptz: the request leaves, or fails before it could.
Transmit(cam) ==
    /\ \/ /\ Step(cam, "send", "reply")
          /\ transmitted' = [transmitted EXCEPT ![Current(cam)] = @ + 1]
          /\ UNCHANGED verdict
       \/ /\ Step(cam, "send", "complete")
          /\ verdict' = [verdict EXCEPT ![cam] = "unknown"]
          /\ UNCHANGED transmitted
    /\ UNCHANGED <<now, up, mem, disk, queue, aborted, returned>>

\* device.ptz: a valid answer, or none (timeout, disconnection, bad SOAP).
Answer(cam) ==
    /\ ~aborted[cam]
    /\ Step(cam, "reply", "complete")
    /\ verdict' \in {[verdict EXCEPT ![cam] = v] : v \in {"succeeded", "unknown"}}
    /\ UNCHANGED <<now, up, mem, disk, queue, aborted, returned, transmitted>>

\* Ledger section: record the verdict, whatever the record says by now.
Complete(cam) ==
    /\ up
    /\ pc[cam] = "complete"
    /\ LET id == IdOf[Current(cam)]
           saved == Completed(mem, id, verdict[cam])
       IN  \/ /\ mem[id].state # "absent"
              /\ pc' = [pc EXCEPT ![cam] = "replay"]
              /\ Return(cam, verdict[cam], verdict[cam] # "expired_before_execution")
              /\ verdict' = [verdict EXCEPT ![cam] = "unknown"]
              /\ mem' = saved
              /\ disk' = saved
           \/ /\ mem[id].state # "absent"
              /\ StorageFaults
              /\ pc' = [pc EXCEPT ![cam] = "failed"]
              /\ mem' = saved
              /\ disk' \in {disk, saved}
              /\ UNCHANGED <<queue, verdict, returned>>
           \/ /\ mem[id].state = "absent"
              /\ pc' = [pc EXCEPT ![cam] = "failed"]
              /\ UNCHANGED <<mem, disk, queue, verdict, returned>>
    /\ UNCHANGED <<now, up, aborted, transmitted>>

WorkerStep(cam) ==
    \/ Finish(cam)
    \/ Replay(cam)
    \/ CheckDeadline(cam)
    \/ Begin(cam)
    \/ Transmit(cam)
    \/ Answer(cam)
    \/ Complete(cam)
    \/ DropAborted(cam)

-----------------------------------------------------------------------------
\* The commands of one camera, each id at most once (command_inflight_ids).
Batches(cam) ==
    {q \in UNION {[1..n -> {r \in Requests : CameraOf[r] = cam}] : n \in 1..MaxBatch} :
        \A i, j \in DOMAIN q : IdOf[q[i]] = IdOf[q[j]] => i = j}

LoopStep ==
    \/ \E batch \in SUBSET Requests : Admit(batch)
    \/ \E cam \in Cameras : \E q \in Batches(cam) : Launch(cam, q)
    \/ \E S \in SUBSET Cameras : AbortWorkers(S)
    \/ \E r \in Requests : Cancel(r)
    \/ \E ids \in SUBSET Ids : Acknowledge(ids)
    \/ \E cam \in Cameras : Collect(cam)

Next ==
    \/ Tick
    \/ Open
    \/ Halt
    \/ LoopStep
    \/ \E cam \in Cameras : WorkerStep(cam)

Spec == Init /\ [][Next]_vars

-----------------------------------------------------------------------------
(***************************************************************************)
(* What execution promises.                                                *)
(***************************************************************************)
\* The deduplication window of r has closed.
Lapsed(r) == DedupUntil(r) <= now

\* A command is sent to its camera at most once: across redelivery, abort and
\* re-admission, storage failure, crash and recovery (CommandLedger::begin and
\* open, execute_commands).
AtMostOnce == \A r \in Requests : transmitted[r] <= 1

\* Whatever was sent to a camera stays recorded on disk as possibly executed
\* until its deduplication window has closed (begin persists before ptz; open,
\* cancel and complete never take it back).
IntentDurable == \A r \in Requests : transmitted[r] > 0 => Lapsed(r) \/ Spent(disk, r)

\* A verdict that says "not executed" is never recorded, in memory or on disk,
\* for a command its camera was told to execute.
FailedNeverExecuted ==
    \A r \in Requests : \A ledger \in {mem, disk} :
        Holds(ledger, r) /\ ledger[IdOf[r]].state \in Failed
            => transmitted[r] = 0 \/ Lapsed(r)

\* A recorded success was sent: no success is invented by recovery,
\* cancellation or a worker that writes late.
SucceededWasExecuted ==
    \A r \in Requests : \A ledger \in {mem, disk} :
        Holds(ledger, r) /\ ledger[IdOf[r]].state = "succeeded" => transmitted[r] > 0

\* The file on disk always passes the checks of CommandLedger::open: no sequence
\* of calls, failed writes included, leaves a ledger that the next start refuses.
LedgerLoadable == Loadable(disk)

\* The contract's view of the ledger file.
Outcome(r) ==
    IF Lapsed(r) THEN "closed"
    ELSE IF Spent(disk, r) THEN "spent"
    ELSE IF Holds(disk, r) /\ disk[IdOf[r]].state \in Failed THEN "refused"
    ELSE "open"

Contract == INSTANCE CommandContract WITH
    outcome <- [r \in Requests |-> Outcome(r)], sent <- transmitted

\* The ledger file and the workers implement CommandContract: a durable decision
\* never turns from "not executed" into "executed" or back, not by a late write of
\* an aborted worker, a cancellation, a redelivery, a crash or its recovery, and a
\* command goes out only after it is decided for, once.
ImplementsContract == Contract!ContractSpec
=============================================================================
