# Verification of the Xcoc client

TLA+ models of `xcoc`, the client that connects local cameras to a Server
(`src/src`), the TLC configurations that check them, and the TLAPS proofs about
them. Line numbers below are of the files under `src/`; `PROJECT.json` maps every
definition to the lines it stands for.

1. [Inventory](#1-inventory) - the system, part by part
2. [Modules](#2-modules) - what is modelled and how it corresponds to the code
3. [Runs](#3-runs) - what is checked, on which instances, and why these suffice
4. [Fairness](#4-fairness)
5. [Proofs](#5-proofs)
6. [Disagreements found](#6-disagreements-found)
7. [Assumptions and what is not modelled](#7-assumptions-and-what-is-not-modelled)
8. [Plan](#8-plan)

## 1. Inventory

`xcoc run` is one process with one loop (`run`, `src/main.rs:1084`), a tokio
`select!` over a 2 s timer, finished snapshot requests and finished command
workers. Everything the loop owns is changed by the loop only; what makes it hard
is what runs beside it and the awaits inside a pass, each of which may be the last
thing that happens before the process ends.

| part | state | operations | interacts with |
|---|---|---|---|
| Command ledger `src/command_ledger.rs` | records by command id: digest of the request, camera, state (queued, pending, a verdict), deadline, acknowledged; one JSON file, replaced atomically | `open` (recovery), `admit`, `replay`, `begin`, `complete`, `cancel`, `acknowledge`, `receipts`, `remaining`, `prune` and `persist` inside them | shared by the loop and the workers behind one async mutex; each method is one critical section |
| Command workers `execute_commands`, `src/main.rs:2283` | queue of commands, the verdicts to return | per command: look up, check the deadline, `begin`, send PTZ, `complete`; ledger sections separated by awaits | launched, aborted and collected by the loop; send to a camera |
| Run loop: commands, snapshots, reload | revisions, snapshots in flight, capacity reservations, commands in flight, queues per camera, results to report, verdicts kept for 120 s | reload and cancel, collect and send snapshots, collect workers, admit, launch | all of the above; the Server; the configuration file |
| Media supervision (same pass) | a `RuntimeCamera` for each camera (resolved device, error and retry time, generation, resolving), grants, `children`, `MediaTasks` (workers being started and stopped), resolution tasks | reload, reap, collect and launch resolutions, reconcile recorders, reconcile publishers, shutdown | worker processes through a pipe each |
| Media worker process `src/media_worker.rs`, `native/media.c` | one FFmpeg job | reads a request, runs, finishes its file when told to stop or its pipe closes | supervisor |
| Server snapshot protocol `protocol/` | (remote) commands to deliver, verdicts received | answers a snapshot with commands and publish grants | the loop |
| Configuration and pairing CLI | the configuration file, its archives, the recording store | `setup`, `unpair`, `camera apply/remove`: read, ask, change, replace the whole file, without a lock | each other; a run holds a lock of its own and notices the new file at its next pass |
| Device adapters, ONVIF, PTZ `src/device.rs`, `src/onvif.rs` | none kept | ask a camera for its services, profiles and streams, select, probe; PTZ | workers, resolution tasks |
| ONVIF discovery | devices seen so far | collect UDP answers up to a limit and a time | CLI |
| Local capture relay `src/local_camera.rs` | capture process, broadcast channel of 64 chunks, 8 reader slots | read the capture, serve readers, drop laggards; ends with its last holder | recorder and publisher of one local camera; the loop that holds it |
| RTSP publisher `src/rtsp_publish.rs` | RTP sequence number, CSeq, session | connect (ANNOUNCE, SETUP, RECORD), packetize a frame, keepalive, close | mobile publisher; the Server, which may send control packets between its answers |
| Mobile publisher `src/mobile.rs`, `crates/mobile-ffi` | the publisher worker, `connected`, `needs_keyframe`, a bounded frame queue | `poll`, `frame`, `stop` from different threads | apps, Server |
| iOS and Android apps `clients/` | capture generation, service state | start, stop, background, permission and camera callbacks | mobile publisher |
| Windows service host `src/windows_service_host.rs` | state told to the service manager, stop channel | start, supervise a run and start it again after 10 s, stop | the run loop, in its process; the service manager |
| Windows ACLs, presets, packaging | - | pure I/O, tables, scripts | - |

What makes each of them correct, and hard:

- **Ledger and workers.** A PTZ command moves a real camera: it is sent at most once,
  and what the Server is told about it is true. The difficulty is a crash between
  writing `pending` and recording the verdict, a write that fails with the old or
  the new file on disk, an abort that does not stop a poll already running, an id
  delivered again while its record exists or after it was pruned.
- **Run loop.** No verdict is lost, no capacity is promised twice, no outdated task
  touches the state of a newer revision, and ordinary events do not end the run.
- **Media supervision.** One worker for each job; no worker is killed while it writes
  its file; a late resolution of an earlier configuration is ignored; publishing
  problems do not stop recording.
- **CLI.** A command changes its own row and nothing else, what it writes can be loaded,
  and the file of another version is never lost. Of two commands at once the later
  replaces what the earlier wrote: there is no lock, and nothing documented promises one.
- **Service and run.** A service that is stopped stops, wherever its run is, but not before
  its recorders have finished; a run does not go on serving what was unpaired.
- **Local capture.** A reader gets everything or is disconnected; a living capture is not
  taken away by a failing publisher; the camera is captured again although its device was
  still busy with the process being killed.
- **Resolution and search.** A resolved device has the streams its configuration calls for,
  all from one list of profiles; a search is complete or says that it is not.
- **Publisher, apps.** Bounded buffers, a key frame after every gap, pictures the Server can put
  together again whatever the number of their packets, nothing published after `stop`.

`PROJECT.json` lists under `hazards` each such situation at its line with the
properties that cover it, or the reason why none does yet.

## 2. Modules

```
CommandContract         what a command's sender may rely on                (abstract)
CommandLedger           the records, as pure operators
  CommandExecution      ledger in memory and on disk, workers, crashes     implements CommandContract
    EdgeRuntime         the loop: commands, snapshots, reload, Server, edits
PairingRegistry         what one operator may rely on                      (abstract)
  PairingState          the file and the commands that change it           implements PairingRegistry
    ServiceHost         the runs on that file, and the Windows service around one
MediaSupervision        the loop: cameras, recorders, publishers, shutdown
LocalCapture            one local camera: capture, relay, readers, retries
DeviceResolution        one conversation with a camera, and the selection of its streams
Discovery               the search for cameras
MobilePublisher         sessions and publisher of the phone library, as operators and task steps
  IosCapture            the iOS application on top of it
RtspPublisher           one connection of a publisher to the Server

CommandExecutionProofs  ledger and workers: lemmas on the ledger's operators, the inductive
                        invariant, the contract; the file can be opened
  EdgeRuntimeProofs       the loop uses them as allowed, and loses no command
    EvidenceProofs          what was sent stays on record, and what the Server was told is true
    CapacityProofs          what was promised to the Server is taken
MediaSupervisionProofs  workers, their cameras and their files
CameraProofs            the search for cameras, the resolution of one, the capture of a local one
IosCaptureProofs        the phone
ServiceHostProofs       the service and its run; the commands of operators
MC*.tla                 small instances for TLC
```

Every module is a state machine but CommandLedger and MobilePublisher, which are the
operators and steps of the machines below them.

A pass of the loop has a command half (EdgeRuntime) and a media half
(MediaSupervision). They are separate modules because they share nothing that the
properties see: the command half uses a camera's resolved device only to decide
whether its adapter supports the command, which EdgeRuntime leaves open, and both
start from the same reload, which each models for its own state. LocalCapture looks at the
media half from one local camera: what MediaSupervision calls a resolution is there the
opening or the checking of a relay. ServiceHost looks at a whole run from outside: it has
the rows it loaded.

### CommandLedger

A ledger is a function from ids to records; a missing record is `"absent"`. Every
method of `CommandLedger` is an operator from ledger to ledger: `Admitted`
(`admit`, with `Reused` and `Overflows` for its errors), `Replayed`, `Begun`,
`Completed`, `CancelVerdict`, `Acknowledged`, `Prune`, `Opened` (`open`: every
pending record becomes `unknown`, then prune). A request stands for its digest;
equality of digests is equality of requests.

### CommandExecution

`mem` is the ledger in memory, `disk` the file. A method that persists either saves
(`Saved`) or fails (`SaveFails`), and then memory already has the change while the
file has the old contents or the new (the rename succeeded and the directory sync
did not). Workers have a program counter per camera:

| `pc` | code |
|---|---|
| `replay` | ledger section of `replay`, `main.rs:2290` |
| `deadline` | the checks before `begin`, 2299-2329 |
| `begin` | ledger section of `begin`, 2331 |
| `send`, `reply` | `device.ptz` before and after the request leaves |
| `complete` | ledger section of `complete`, 2346 |
| `done`, `failed` | the task has returned, with results or an error |

`AbortWorkers` is `AbortHandle::abort`: the worker may be gone at once
(`DropAborted`) or, when it is inside a poll on another thread, go on up to its next
await - the model lets it take any further step that needs no await on the network.
`Halt` is the end of the process at any moment; `Open` the next start. The loop's
calls (`LoopStep`) are allowed at every moment at which the loop could make
them; that it makes them only then is `LoopKeepsContract` of EdgeRuntime.

It implements `CommandContract`, where a command is open, decided for ("spent": it may
have been executed), decided against ("refused"), or its window is closed. The mapping
`Outcome` reads the file, not the memory: begun or possibly executed on disk is spent, a
verdict of non-execution on disk is refused. That a decision never turns, whatever an
aborted worker writes late and whatever is recovered after a crash, is then
the statement that every step of the detailed machine is one of `Decide`, `Send` and `Close`
or leaves both alone.

### EdgeRuntime

One action for what a pass does from one ledger section or poll of a task set to the
next; `phase` says which comes next.

| action | code |
|---|---|
| `Wake`, `Reload`, `ReloadFails` | `select!` and the reload, 1156-1204 |
| `CancelOne` | one iteration of the cancellation loop, 1205-1221 |
| `CollectSnapshot`, `CollectPanic` | 1253-1310 |
| `SnapshotsCollected`, `SendSnapshot` with `Capacity` | 1253-1354, one camera after the other, and `available_command_capacity`, 1529-1549 |
| `CollectWorker` | 1364-1403 |
| `EnqueueAndAdmit` | 1404-1415, `enqueue_device_commands`, `admit` |
| `LaunchOne` | `launch_queued_command_tasks`, 1610-1651 |
| `SnapshotServed`, `SnapshotLost`, `SnapshotPanics` | a snapshot task and the Server behind it |
| `EditConfig`, `Boot`, `AwaitConfig`, `Kill`, `Time` | the operator, the process, the clock |

The Server is modelled from what its client relies on: it may deliver any commands
that are due, at most as many as the capacity it was told, each id once per
response; the response may be lost after it took the verdicts it was sent.

### MediaSupervision

`workers` maps slots to worker processes: the job (camera, record or publish), who
holds its `Child` handle, the source it was started with and its state. Ownership is
the point of this module, because a `Child` that is dropped is killed
(`kill_on_drop`, `media_worker.rs:113`):

| owner | code |
|---|---|
| `children` | the map of the loop |
| `starting`, `stopping` | tasks of `MediaTasks`, owned by the loop, awaited by the pass |
| `pass` | the future of the pass itself, dropped when the run ends; no correct action uses it |
| `orphan` | nobody: the runtime was killed; the worker sees its pipe close |

| action | code |
|---|---|
| `Tick` | `reload_configuration`: new `RuntimeCamera` for changed cameras, their workers stopped |
| `Reap` | after the stopped ones ended: abort resolutions, reset flags, `reap_children` |
| `Collect`, `LaunchDue` | `collect_resolved_cameras`, `launch_due_cameras`, then the stale recorders |
| `Grants` | snapshots collected by this pass, `publish_grants`, stale publishers |
| `Skip`, `Spawn`, `SpawnFails`, `Started` | one camera of either reconciliation, across the await of its start |
| `Reconciled`, `WakeForResults` | the end of a reconciliation; a pass that is not a timer pass |
| `EndRun`, `StopStarted`, `Over`, `Crash`, `Boot` | end of the run at any await, `finish_media_shutdown`, kill, restart |
| `Begins`, `StartBreaks`, `Exits`, `Finalizes` | a worker process and its pipe |
| `ResolutionEnds`, `ResolutionCancelled`, `RetryDue` | a resolution task; the 30 s after an error |

A generation is a number instead of a UUID; `source` of a camera is the generation
its device was resolved for, so that "a worker reads the configured source" can be
stated. `cut` records that a process was killed without its grace period.

### PairingState and ServiceHost

A row is a pairing: token and camera, each the number of the command it came with. `desk`
holds, for each operator, the command being run with what it read; `file` is replaced at once.

| action | code |
|---|---|
| `SetupBegins`, `EditBegins` | reading the file, `setup` 656-698, `camera_command` 970-1000 |
| `SetupPairs`, `PairingRefused`, `InputRefused`, `PreflightFails` | the Server's answer, 723-765; errors before anything is written |
| `SetupArchives`, `SetupSaves`, `SetupRestores` | `replace_incompatible_pairing_state`, 2649-2683, and the first save |
| `SetupSavesCamera`, `CameraRefused` | the second save of `setup --interactive`, from the same reading, 776-784 |
| `UnpairSaves`, `ApplySaves`, `RemoveSaves` | the change and the replacement; the last pairing removes the file |
| `SaveFails`, `Interrupted` | the old file stays, or the new one is there although an error was reported |

With one operator it implements `PairingRegistry`: a table of which every command changes one
row, to something newer. With several it does not, and the mapping is trivial then.

ServiceHost adds the runs: `run` says for the service and for a console where its run is
(waiting for a configuration, serving, finishing its recorders), `lock` who holds
`.xcoc-runtime`, `loaded` the file as the serving run read it last, `host` where
`supervise_runtime` is and `scm` what the service manager was told.

| action | code |
|---|---|
| `RunLocks`, `RunBoots`, `RunFindsNothing` | `acquire_run_lock` and the wait for a configuration, 1081-1122 |
| `RunReloads` | `reload_configuration`: the same installation or the end of the run, 1716-1778 |
| `RunStops`, `RunEnds` | the stop channel or a signal; `finish_media_shutdown` |
| `ServiceStarts`, `LoggingStarts`, `StopPending`, `ServiceEnds` | `serve`, `windows_service_host.rs:39-117` |
| `SuperviseTop`, `RunReturned`, `Retries` | `supervise_runtime`, 145-165 |
| `Records`, `StoreTouched` | the recording store, which `setup`, `camera` (not its lists of presets, devices and discovered cameras), `status` and the start of a run check before they load; a reload does not |

A console run ends when it finds nothing to load unless it was started with
`--wait-for-config`, as the Linux service is (`packaging/linux/xcoc.service:8`).

### LocalCapture

`captures` are ffmpeg processes with their relays: open, ended, or unused; `grabbed` says
that one has the physical device. A relay lives while somebody holds it (`Holder`: an `Arc`
in the loop's device, in a resolution task's or in a result's), which is what makes it hard: the
loop, tasks that were aborted, tasks that finished after all and results each may hold one, and
the device is busy until a capture that nobody holds has been killed (`CaptureReleased`).
`results` are the tasks that have finished, in the order in which the loop will take them. An
edit of another camera aborts this camera's task too, but leaves its generation: a task that is
within its last poll may still finish, before or after the next launch, and its result is then
as current as that of its successor (`Aborted`, `LateEnds`). Readers are connections with the number of the chunk they wait for.

| action | code |
|---|---|
| `Broadcasts`, `CaptureEnds`, `CaptureReleased` | `start_relay`, `CaptureRelay::drop`, `local_camera.rs:13-84` |
| `Accepts`, `Answered`, `Delivers`, `ReaderFails` | one connection of the relay, 57-81 |
| `OpensCapture`, `OpenFails`, `Probes`, `ProbeFails` | a resolution task, `main.rs:2155-2169` |
| `Aborted`, `LateEnds` | `abort_all` in a reload, 1181, and what an aborted task still returns, with a device or an error |
| `Launch` | `launch_due_cameras`: a living relay is checked again, not opened again, 2138-2154 |
| `Collect`, `Current` | `collect_resolved_cameras`, one finished task, and its look at the generation, 2173-2206 |
| `Tick`, `ReloadOther`, `ReloadThis`, `Reap`, `Collected`, `Reconcile` | the passes of the loop |

### DeviceResolution and Discovery

A resolution is a sequence of requests (`asking`): information, capabilities, profiles, one
stream after the other, then a probe of each. Between any two the camera's profiles may be
changed (`ProfileRemoved`), and any may fail. `Selected` is `select_profiles` with its
defaults for sizes that were not reported: `LastLargest` is what `max_by_key` returns, the last of
several, `FirstSmallest` what `min_by_key` does. `ResolvedDevice` states what the selection is for
without the order in which it searches. `Discovery` is one record: the cameras heard of,
those found, and the outcome.

### RtspPublisher

The client's half is `step` (calling, waiting for an answer, ready, sending, shutting down,
ended) with its request, CSeq and next sequence number; the Server's half reads `wire` in order,
answers or refuses, sends control packets, puts units together again as RFC 6184 says, and may
stop reading or break off. `Room` is what TCP and TLS take without a reader. What is written
carries `whole`: a write that runs out of time may leave the beginning of its item (`CutShort`), and
the Server takes what follows, which can only be TEARDOWN, for the rest of it (`BeginningRead`,
`RestRead`).

| action | code |
|---|---|
| `RequestWritten`, `AnswerRead`, `RequestFails` | `request` and `read_response`, `rtsp_publish.rs:157-276` |
| `FrameTaken`, `PacketWritten`, `FrameSent`, `PacketFails` | `frame`, `annex_b_units`, `Packetizer` |
| `ShutDown` | the end of `close` |
| `Dropped`, `Restarted` | `PublisherWorker::drop`; a poll that finds the task finished |

### MobilePublisher and IosCapture

`sessions` maps handles to the publisher of each session: the state of its task
(`connecting`, `connected`, `closing` between the last frame and the end of the teardown,
`finished`, `none`), the parameter sets it announced, the frames in its channel and
`needs_keyframe`. A frame is the encoder session it comes from and whether it is a
key frame. Two history fields say whether the frame before it went the same way.

The application is four threads: main, the queue `control`, the encoder's queue and the
encoder's callbacks. Each queue is a sequence of blocks; `Head` is the one that runs.

| action | code |
|---|---|
| `Press`, `PermissionAnswered`, `PressStop`, `EnterBackground`, `EnterForeground` | the user and the system |
| `Start`, `StartFailed`, `CaptureFailed`, `StopDone` | blocks on main, `CameraStore.swift:33-110` |
| `Open`, `Opened`, `HandOver` | the start block on `control`, between the looks at its generation |
| `Poll`, `PollEnds`, `CancelTimer` | `poll` before and after the Server's answer |
| `Finish`, `Close`, `Forget` | the block of `stop` behind the encoder's stop |
| `Configure`, `StartRunning`, `ConfigureFails` | `CameraEncoder.start` around `configureCapture` |
| `Encode`, `EncodeFails`, `SetForce` | `captureOutput`; the block that sets `forceKeyframe` |
| `StopCamera`, `CompleteFrames` | `CameraEncoder.stop` before and after the drain |
| `Encoded`, `Deliver` | the encoder's callback before and after it lets go of the lock |
| `PublisherTask` | the task on the library's runtime |

A start has one number for its generation in the store, its generation in the encoder,
its session and its encoder session; `encoding` is `CameraEncoder.running` by that number.
Samples and timer events are not kept in the queues: one may run between any two
blocks while the camera, or the timer, is on. As either may come at any time, this
gives the orders the queues can give, with far fewer states (an instance that queued
them was checked as well, with the same results).

## 3. Runs

The passing runs together fire every action of their specifications. TLC checks
deadlock in all of them but `installation`, where an operator may have run all the commands of
the bound and nothing else is installed.

| run | question | instance |
|---|---|---|
| `execution` | the file is decided once about every command, nothing is sent twice | one camera, two commands in one queue and a third that reuses an id with a later deadline, a ledger of two records, failing writes, any number of crashes, clock 0..4 |
| `runtime_queue` | evidence survives until the Server has heard, and reports equal the ledger | whole loop, one camera, two commands, failing writes, one crash, one panic |
| `runtime_cameras` | promised capacity is honoured, the run does not end by itself | two cameras with one command each, limits of 2 in flight, 2 per camera, 4 receipts and places; one command has expired when it comes, the other not, and both windows close |
| `runtime_edits` | the loop keeps the contract of ledger and workers, every admitted command is answered | one command, two edits (unpairing included), one crash; fairness |
| `media_workers` | one worker per job, none cut short, configured source, recording undisturbed; what a resolution selects; what a search finds | three parts: supervision of one camera with all settings, two edits, one crash, four slots; resolution and search, see below |
| `cameras` | recording resumes; local capture goes on, is left alone while it lives, and misses nothing | two parts, see below; fairness |
| `mobile` | nothing outlives a stop, the Server can decode and put together what it gets, stops and closes end | two parts, see below; fairness |
| `installation` | files that load, archives kept, one row per command; a service that stops | one operator with the service, or two operators; three commands, one stop, one crash; fairness |
| `late_verdict`, `repaired_camera`, `reload_ends_run`, `stalled_close` | section 6 | the smallest instances that show it |

`media_workers`, `cameras`, `mobile` and `installation` join machines that have no state in common: the MC
module has a variable `part` (or `crew`) that says at the start which of them a behaviour is
about, and only that one moves. Their states add up instead of multiplying, and nothing is
claimed of their composition.

The bounds, and why they are enough to reach what matters:

- *Two commands* in a queue are needed for a worker that fails with a command left
  over, and a third for one id used twice; more add no new kind of record. *One camera*
  is one worker, and workers of different cameras meet only in the ledger and in the
  capacity: `runtime_cameras` has two of them for that, with limits they exceed together.
- *Clock*: 0..1 passes a deadline, 0..2 also closes the window (`DedupGrace` = 1),
  0..4 lets a second command with a later deadline run after that.
- *Crashes*: not bounded in `CommandExecution`; at most one in the runtime runs. *Edits*: two
  are an unpairing and a pairing, or an edit during the clean-up after another.
- *Panics* of a snapshot task: one, in `runtime_queue`, which has no edits. They are left out of
  `runtime_edits`, where the command of the camera concerned would wait for an edit nobody need
  make (section 6, further observations).
- `StorageFaults` is off in runs about the loop itself: a failing write ends the run
  by design. It is on in `execution` and `runtime_queue`.
- `Slots` = 4 in `media_workers`: a recorder and a publisher that stop and two that start.
  *Resolutions*: 2, one aborted and one new of the same camera; the limit of 32 in the code is
  `MaxResolves`, assumed not below the number of cameras for `RecordersRun`.
- *Supervision in `cameras`*: one camera that is recorded, and edits of another, publishing
  failing at will. *Local capture*: two workers, a slot for each (the code has eight, for a
  recorder, publishers and a probe), and a relay that keeps one chunk, so that a reader lags
  at once; two captures, one dying or held by a late task and one new; three resolutions, because
  the result of an aborted one may let a third begin beside the second. One edit and one fault: with `CapturesReturn`,
  faults must stop. `CaptureUndisturbed` was also checked with three captures and two edits.
- *Resolution* (in `media_workers`): every list of up to two profiles with sizes that are known, missing or equal, with one
  token twice, lists of three without, and configurations that name none, one or both profiles.
  *Search*: three cameras and a limit of two.
- *Two starts* are a stop with a restart, or a double press while the permission is
  asked for. *A channel of one frame* overruns as soon as the task is slow; the one in the
  code has four. One frame in the encoder, one in the callback and the answer to a third
  on the queue are what it takes for an answer to overtake a request for a key frame.
  The invariants were also checked with three starts and two frames in the encoder.
- *A connection*: two pictures, the first number of the sequence chosen freely from 3, so that it
  wraps inside a unit, between units and between pictures; packets of 4 bytes, so that units of
  4, 5 and 8 bytes are one packet, two, and several; room for two packets that the Server has not read.
- *Installation*: three commands are a pairing, an unpairing and a second pairing, or any two
  against each other; `MaxRecordings` = 0 makes the first recorded segment fill the store; a file of at
  most two rows is full with both. The operator with the service works on one of them.

What the properties say (each is stated with a comment in its module):

- `AtMostOnce`, `FailedNeverExecuted`, `SucceededWasExecuted`, `LedgerLoadable`,
  `ImplementsContract` - the promises of ledger and workers.
- `EvidenceKept`, `FailedHeardNeverExecuted`, `ReportsDurableResult`,
  `EventuallyAnswered` - the same promises as the Server experiences them.
- `CapacityHonoured`, `InflightOwned`, `LoopKeepsContract`, `RunsUntilStopped`,
  `ConfirmationsMatch`, `RuntimeTypeOK` - what the loop's bookkeeping is for.
- `OneWorker`, `TrailersWritten`, `CurrentSource`, `RecorderUndisturbed`,
  `RecordersRun` - supervision.
- `CaptureUndisturbed`, `CapturesReturn`, `ReadersCatchUp` - local capture and its readers; `ResolvedDevice`,
  `SearchComplete` - resolution and search.
- `WrittenFileLoads`, `IncompatibleKept`, `ImplementsRegistry` - the commands of operators;
  `StoppedMeansFinished`, `StopCompletes`, `UnpairTakesEffect` - the service and its run.
- `NothingSurvivesStop`, `FramesReachOpenSession`, `FailureIsCurrent`, `StopFinishes`,
  `BackgroundReleases`, `FailureReleases` - the life cycle of a capture on iOS;
  `WireDecodable`, `KeyframeComes`, `PicturesRebuilt`, `ClosesUnlessStalled` - the stream it
  publishes.

`ReportsDurableResult` and `RunsUntilStopped` hold without edits (section 5) and
fail with one edit, `ConfirmationsMatch` fails with an unpairing, and `FailureRetried` is
`ClosesUnlessStalled` without its exception: these are the
runs of section 6. Each property has a mutant in `PROJECT.json`: a plausible mistake
in the code, written next to the definition it replaces, with which TLC finds the
property violated.

## 4. Fairness

Safety needs none. `EventuallyAnswered` is checked under `FairRuntimeSpec`:

- `WF(Boot)`: a supervisor (systemd, the service host) starts the runtime again.
- `WF(Pass)`, `WF(Work(cam))`: tokio polls the loop and each worker; every PTZ request
  has a timeout, so a worker waiting for an answer goes on without one.
- `SF` of a snapshot being served, for each camera: the Server is reached again and
  again, and not every one of these requests is lost. Nothing is assumed of commands
  being delivered again.

`RecordersRun` (RecorderRuns of MediaSupervision) is checked under `MediaFairness`:

- `WF` of `Boot`, `Pass`, `StopStarted`, `Over` and of each worker process, which
  ends when it is told to (or is killed after 12 s); `WF` of `RetryDue` and of each
  resolution (60 s at most).
- `SF(Tick)`: `select!` takes ready branches in random order, so finished snapshots do
  not keep the timer from being taken for ever.
- `SF` of a successful resolution, of a recorder's spawn and of its start: the
  camera is reachable and the disk can be written again and again. Nothing is assumed
  of publishers: all of them may fail every time.

`CapturesReturn` and `ReadersCatchUp` (CaptureReturns and ReadersReturn of LocalCapture) are checked
under `LocalFairness`: `WF` of the steps of a pass and of each
resolution task (60 s at most), `SF(Launch)` because a retry is due again and again, and `WF` of
what the system does by itself: a capture nobody holds is killed and its process goes away, and
one that could not take the device ends. For each reader, `WF(Serves(w))`: its request is answered
and its next chunk written within 5 s each, or it is disconnected (`local_camera.rs:64-76`). Nothing is
assumed of what ffmpeg delivers.

The liveness properties of the iOS part of `mobile` are checked under `Fairness` of IosCapture:
`WF` of the blocks of each queue and of the callback (the system runs what is queued), of the
publisher task and of samples while the camera
is on. An answer of the Server takes 12 s at most (`mobile.rs:117`), which is why `PollEnds`
is part of the fair `ControlStep`. Nothing is assumed of the user, of grants or of connections.
That the publisher task goes on rests on the 5 s limit of each of its reads and writes and,
in `close`, on a Server that reads: without that the task may stay in its shutdown
(`stalled_close`). No property of the iOS part depends on the task having ended.

`ClosesUnlessStalled` is checked under `RtspFairness`: the task is polled and its time limits
pass, and a Server that has not stopped reading reads what is there.

`StopCompletes` and `UnpairTakesEffect` are checked under `WF(ServiceStep)` and
`WF(RunStep("console"))`: a service and a run that were started go on by themselves, each with a
timer of 2 s or 10 s; that a serving run looks at its file is part of it. The operators, the service manager
and whoever works at the console need not do anything.

## 5. Proofs

Eight modules hold proofs. What is proved holds for every set of cameras, requests, ids,
instances, operators and readers, every assignment of ids, cameras and deadlines to requests,
every limit, window, clock and size of a queue, and any number of starts, edits and faults; the
runs of section 3 check the same formulas on small instances.

| module | theorem | says |
|---|---|---|
| CommandExecutionProofs | `InductiveInvariant` | `Spec => []IInv` |
| | `TypeCorrect`, `SentStaysRecorded` | `TypeOK`, `IntentDurable` |
| | `SentAtMostOnce` | `AtMostOnce` |
| | `FailedVerdictsHold`, `SuccessesHold` | `FailedNeverExecuted`, `SucceededWasExecuted` |
| | `DecisionsHold` | `Spec => []DInv` |
| | `LedgerAlwaysLoadable` | `LedgerLoadable` |
| | `ContractImplemented` | `Spec => ImplementsContract` |
| EdgeRuntimeProofs | `LoopInvariant`, `RuntimeTypesHold` | `RuntimeSpec => [](IInv /\ LInv)`, `RuntimeTypeOK` |
| | `LoopImplementsExecution` | `RuntimeSpec => Spec` |
| | `ProgramSendsAtMostOnce`, `ProgramImplementsContract` | `AtMostOnce`, `ImplementsContract` of the whole program |
| | `CallsKeepContract` | `LoopKeepsContract` |
| | `NoCommandLost` | `InflightOwned` |
| EvidenceProofs | `EvidenceOutlives` | `EvidenceKept` |
| | `ReportedFailuresHold` | `FailedHeardNeverExecuted`, if `OnceNamed` and `~RedeliverAnswered` |
| | `ReportsHold` | `ReportsDurableResult` and `ConfirmationsMatch` until the first edit, if `~RedeliverAnswered` |
| CapacityProofs | `CapacityHolds` | `CapacityHonoured`, if `Roomy` |
| | `RunEndsForCause` | `RunsUntilStopped` (an action property) without edits, if `Roomy`, `OnceNamed`, `~RedeliverAnswered` and `~StorageFaults` |
| MediaSupervisionProofs | `MediaInvariant` | `MediaSpec => []MInv` |
| | `WorkersAreDistinct`, `NoWorkerCut`, `SourcesAreCurrent` | `OneWorker`, `TrailersWritten`, `CurrentSource` |
| | `RecordersUndisturbed` | `RecorderUndisturbed` (an action property) |
| CameraProofs | `SearchFindsAll` | `SearchComplete` |
| | `TasksAgreeOnRelay` | `LocalSpec => [](OneGrabs /\ ProbedHave /\ OneRelay)` |
| | `ConversationHolds`, `DevicesAreResolved` | `DeviceSpec => []DeviceInv`, `ResolvedDevice` |
| | `LivingCaptureStays` | `CaptureUndisturbed` (an action property) |
| IosCaptureProofs | `PhoneInvariant`, `PhoneTypes` | `Spec => []PhoneInv`, `PhoneTypeOK` |
| | `NothingIsLeft` | `NothingSurvivesStop` |
| | `FramesFindTheirSession`, `QueuedFramesDecode` | `FramesReachOpenSession`, `WireDecodable` |
| | `FailuresAreCurrent` | `FailureIsCurrent` |
| ServiceHostProofs | `StopWaitsForRun` | `StoppedMeansFinished` |
| | `FilesLoad` | `WrittenFileLoads`, of any number of operators |
| | `OldFileSurvives` | `IncompatibleKept` (an action property) |
| | `RegistryImplemented` | `InstallationSpec => ImplementsRegistry` |

### Assumptions

`LedgerAssumption`, `ExecutionAssumption`, `RuntimeAssumption`, `MediaAssumption`,
`PairingAssumption`, `HostAssumption`, `DiscoveryAssumption`, `QueueSizeAssumption` and
`MaxStartsAssumption` type the constants; TLC evaluates them in the runs. `NoSourceAssumption` and
`HandlesAssumption` fix the numbering of the phone's model (section 2): the session and the encoder
session of a start have the number of the start, and "none" is no number. `ResolutionAssumption`
types configurations and lists of profiles, and says of sizes what `parse_profiles` ensures
(`onvif.rs:526`): a width or height that is reported is between 1 and `MaxSize` (32768), and the
product of two such is below `Largest` (`u32::MAX`), which stands for one that is missing.
Three parts say more than a type. Requests, cameras, ids, operators, instances and slots are
finite: the code counts them. A request's id determines its camera: an id under another
camera is another id (section 7). `MaxInflightPerCamera <= MaxBatch`: a worker takes whatever was admitted for
its camera. `AbortSettles` (section 7) is a guard of `Admit` and
`SnapshotServed`, so it is part of what the theorems are about.

`CapacityHolds` has the hypothesis `Roomy`, `2 * MaxRecords <= MaxCommandRecords`; in the code they
are 2048 (`command_ledger.rs:15`) and 4096 (`main.rs:1519`). It is needed: after a restart
each of the ledger's records may come back both as a result to report and as a verdict to keep, and
with fewer places the loop starts above its own limit. The run `runtime_cameras` has just as many
(`MaxRecords` = 2, `MaxCommandRecords` = 4), so that this limit is what a promise runs into.

`ReportedFailuresHold` has two hypotheses. `OnceNamed`: an id names one request only (ids are UUIDs
the Server draws). Otherwise the verdict of one request could be heard under the id of another that was
executed; the ledger's check of digests refuses this only while the first record exists.
`~RedeliverAnswered`: the Server does not deliver again a command whose result it has. If
it did so after the record was acknowledged and pruned, the client could only answer
`expired`, also of a command that had been executed. Both are how all the runs are configured.

`ReportsHold` needs only the second, for the same reason. That nothing was edited is part of what it states:
with an edit it is false (`late_verdict`, `repaired_camera`).

`RunEndsForCause` has both and `Roomy`, and two more. `~StorageFaults`: a failed write ends the run,
as it should. `MaxEdits = 0`: with an edit the statement is false (`reload_ends_run`). Crashes, panics
of snapshot tasks and the clock are free in all three.

### Ledger and workers

`AtMostOnce` is not inductive: that a worker about to send has not
sent before depends on what the ledger said when it looked, which may have changed
since. `IInv` strengthens it in two parts.

1. `Sound(ledger, now, transmitted)`, for the ledger on disk and, while the process is
   up, in memory: an acknowledged record has a verdict (`AckedDecided`); what was sent
   and whose window is open is recorded as possibly executed (`Remembers`); verdicts
   agree with what was sent (`Truthful`). Both ledgers need it separately because a
   failed write lets them differ, and because `Opened(disk, now)` becomes the
   memory of the next process.
2. `WorkerSound(cam)`: from its look-up to its `complete`, a worker's record is its own
   if it exists (`Bound`), has no verdict unless the worker was aborted - only then
   may the loop cancel it - (`Unsettled`), and the position of the worker agrees with
   whether its command was sent (`Progress`).

The first part of `CommandExecutionProofs` shows that each ledger operator keeps `Sound`
(`PruneSound`, admission, acknowledgement, completion, recovery), with what is needed of the
verdict. Then it has one lemma per action; those of the loop
reduce to `LoopSound` (a ledger change that respects engaged workers), those of
workers to `OthersSound` (a worker disturbs no other) and `WriteSound` (a worker's
two outcomes of a write).

*The contract.* `Outcome` reads the file, but what a worker does depends on the memory. `DInv` relates them:
memory keeps every decision of the file (`Keeps(disk, mem, now)`: it is the file or ahead of it),
a worker stands on the side of its command's decision (`Sided`), and both ledgers pass the checks of
`open` (`Loadable`), which is `LedgerLoadable`. A step that writes then either leaves the file or
replaces it by one that decides more: `Decide` for what it adds (`WriteDecides`), `Close` for windows
that pass, `Send` for a transmission, which `Sided` says is of a spent command.

### The loop

`CommandExecution` allows the loop's calls under guards; that EdgeRuntime keeps them is
`LoopImplementsExecution`, and everything above then holds of the program. It needs `LInv`, the agreement of
the loop's bookkeeping with the workers. A queue `pending[cam]` is a batch `Launch` accepts: commands of
that camera with different ids, all in flight (`PendingSound`). The loop waits for one snapshot of a camera at a
time, and what it receives is of different ids (`SnapshotSound`, `IncomingSound`). A worker whose output the loop
will accept was not aborted and holds ids that are in flight and in no queue; an aborted one that is still being
polled has nothing on its way to it (`WorkerKept`). What is to be cancelled belongs to no worker that is
not aborted (`CancelReady`). `LoopKeepsContract` follows.

- `InflightOwned` needs `OInv`: an id in flight is in its camera's queue or held by a worker whose
  output the loop will accept, because its revision is the one the worker was started with
  (`Owned`). Panics of snapshot tasks are excluded as in the property: they move all revisions on.
- `EvidenceKept` needs `EInv`. `IInv` speaks of records whose window is open; `EInv` says
  without a window that what was sent and not answered is spent on record (`Evident`), which lasts because only
  what the Server has an answer for is acknowledged and only that is pruned, and that a worker
  may rely on what it read before (`WorkerEvident`), whatever was acknowledged since.
- `FailedHeardNeverExecuted` relates what the Server has heard, or has on its way to it, to everything that may
  happen to the command afterwards. It needs three invariants on top of the others.
  `HInv`: the ledgers are honest. A record that is queued or has a verdict of non-execution is of a command
  that was not sent, a worker that has not yet begun has sent nothing, and the file lacks
  no record the memory has.
  `SInv`: a command that is on its way into the ledger (received, or in an answer that will be accepted) was not
  sent, or its record is there and not acknowledged, so that the ledger still has its verdict when it arrives.
  `BInv`: a command of which somebody says, or is about to say, that it was not executed (`Told`: the Server, a
  snapshot in flight, the loop's results and confirmed verdicts, a worker's output) is `Blocked`: it was not sent, its
  window has passed or the ledger records that it was not and will not be, and no worker stands where it
  could still send it. `Told` grows only by what the ledger or a
  worker has decided (`ToldGrows`), such a decision blocks (`RefusalBlocks`), and blocked it
  stays (`BlockedStays`), for which `SInv` and the contract's "a refusal never turns" are used.
- `ReportsDurableResult` and `ConfirmationsMatch` follow from `Settled`, which holds of a running process until the
  first edit. Nobody is aborted and nothing is to be cancelled (`Undisturbed`); a record that is
  pending is of a worker that is about to send, waits for an answer or is about to write (`PendingUnderWay`);
  any verdict somebody reports is the one on record, or the record was dropped, and then the Server
  has an answer (`ReportsAgree`); and what is on its way into the ledger is not acknowledged there, nor dropped while a
  verdict on it is under way (`SupplyUnconfirmed`). The last part is what excludes that a command is
  admitted anew while an old verdict on it is still around. It needs `SInv`, and of the
  steps only what they may do to one record (`RecordMoves`).
- `RunsUntilStopped` is the absence of errors, each of which needs something else: overflows (`CapacityHonoured`),
  an id used twice (`OnceNamed`, and that the ledger is `Loadable`), a confirmation of an undecided record
  (`ConfirmationsMatch`), `begin` of a record that is not queued and `complete` of one that is gone
  (`PendingUnderWay`, and that a worker's record stays unsettled), and `replay` of a command
  without a record. For the last, `WorkRecorded` says that what waits for a worker is on record
  unless its window has closed, which is all that can be shown (section 6, further observations).
- `CapacityHonoured` needs `CInv`: commands in flight, received and promised, the ones that are still to be
  cancelled, and the receipts of the ledger together stay within each of the three limits, and an answer that will be
  accepted holds no more than it was promised. What `Capacity` grants is subtracted from the same
  sums it is taken from, one snapshot after the other.

The lemmas these proofs share are about selections from a sequence (`Picks` and what it keeps,
by induction on the length, from the well-foundedness of `<`), ids of sequences, and cardinalities.

### Supervision

`MInv`: the workers this runtime holds have different jobs (`DistinctKeys`); at most one is being
started, by the pass, for the camera it is visiting (`OneStart`); where a worker may be held in which phase
(`HeldWhere`); a resolved device, a child and a worker being started are of the camera's current generation
(`SourceCurrent`, `WorkersCurrent`); recorders are asked for cameras to be recorded. `OneWorker` alone is not
inductive: a worker being started joins `children` later, and only `OneStart` says that nobody
has started the same job meanwhile. `RecorderUndisturbed` is a step property that
needs `MInv` for the recorder's owner and generation.

### Cameras

- *Search.* `SearchInv`: what was found is what was heard, each once, and the limit is met only with
  more than `MaxResults` heard. The list must be without repetition for its length to be the
  number of cameras (`DistinctLength`).
- *Resolution.* That the selection picks something is already a statement: a largest picture
  (`LastLargestIs`) and a smallest other one (`FirstSmallestIs`) exist in lists of any length, shown from the least number of
  a set (`FirstOfLeast`). That it picks the right one needs the bound on sizes: without it a
  picture of unknown size could count as smaller than a huge known one, or an empty one be taken for unknown
  (`Areas`). `DeviceInv` then says that the streams so far are those of the first profiles chosen,
  and that all of these come from the one list that was read, whatever the camera has become since.
- *Local capture.* `CaptureUndisturbed` says that a relay that lives and is in use is replaced only by an edit
  of its own camera. Several tasks of its present configuration may be under way, because an edit of
  another camera aborts a task without changing the generation, and each may return a device. It holds
  because they can only bring the relay that is in use: one capture at most has the physical device
  (`OneGrabs`), a relay that was probed has it until it ends (`ProbedHave`), and whatever is still to be
  collected gives way to the first relay that has it (`OneRelay`, for the device in use, results in their
  order and late tasks, pairwise: each may become the one in use before the next is collected). This rests on
  `PollsAreOver` (section 7). A result of an earlier generation is dropped by the code's own comparison.

### The phone

That nothing survives a stop is a statement about four threads that pass a stop on to each other. `PhoneInv` says where
everything of a capture may be at any moment:

- `StoreInv`, `StartsInv`: the store runs or stops or does neither; it owns the last start that began, and no more begin
  than were pressed (so that generations do not repeat).
- `StopInv`: a stop is at exactly one place: with the encoder, on the control queue, or on
  its way back to the store; once it is on its way back, the control queue is empty and there is no
  session. The orders that the queues keep (`Ordered`, with the pairs that never occur) are part of it:
  on the control queue a poll, then a start, then the two blocks of a stop.
- `ControlInv`, `HandleInv`: what waits on the control queue is of the last start; session, timer, encoder,
  samples and frames being delivered are all of the session in use.
- `EncoderInv`: the camera is off before, and frames are gone after, the drain: this order is what lets the
  session be closed behind it.
- `MainInv`: news of a failure is of the last start, and none is left when the next one begins.
- `SessionInv`, `WorkerInv`: only the session in use, or the one about to be, is open; a publisher that is not waiting for
  a key frame has lost nothing since the last one, and its frames are of its own encoder session.

None of these is inductive without the others. The generation checks in the blocks, which the code
makes one by one, are used at just the steps where they stand. What a block appended to or taken from a queue does to
such statements is stated once, in lemmas on queues.

### Service and operators

- `HInv`: a run of the service exists only inside `supervise_runtime`'s call, and while that is
  anywhere at all the service manager was told something else than "stopped".
- `PInv`: every content there is - at the path, in an archive, with a command that goes on to save it - is
  sane (an unpaired row is empty) and can be loaded. A file that loads is then kept by commands that
  race each other, because a command saves what it read, changed by one row.
- `SInv`, of one operator: what the command holds still agrees with the file (`Tidy`), and nothing in
  the file is newer than the command. `SoloStep` shows for every command that a step changes one
  row to something newer, or none (`OneRow`), and keeps the file of another version; the
  refinement of `PairingRegistry` and `IncompatibleKept` follow. Of several operators both are
  false or empty, as the properties say.

### Only model-checked

- Liveness (`EventuallyAnswered`, `RecordersRun`, `CapturesReturn`, `ReadersCatchUp`, `StopCompletes`, `UnpairTakesEffect`,
  the iOS and RTSP ones): fairness is `ENABLED`, which this prover cannot handle.
- `PicturesRebuilt` follows the bytes of a picture through the packets of its units and back: an induction
  over both, for which the library's theorems take the statement as a parameter, which the provers cannot instantiate.

## 6. Disagreements found

Four runs are expected to end in a violation; each states what the documentation
says and shows the code doing otherwise. Source lines and quotations are in
`PROJECT.json`, `findings`.

- `late_verdict`: after an edit of a camera the loop aborts its worker and cancels its
  command, keeping `cancel`'s verdict for the Server. A poll of the worker that
  is still running then overwrites the record with its own verdict. The Server may be
  told one thing while the ledger holds another. (It is never told "not
  executed" of a command that was: `FailedHeardNeverExecuted` holds.)
- `repaired_camera`: a camera is unpaired while its command is pending, so the command
  is not cancelled; it is paired again, the Server delivers the command again, `replay`
  answers `unknown` without recording that, and the Server's confirmation
  then hits a record without a verdict: `acknowledge` fails and ends the run.
- `reload_ends_run`: an edit at the moment when a worker is about to `begin`: the worker
  finds its command cancelled, and its error ends the whole run.
- `stalled_close`: after a failure a publisher task closes its connection. Requests and packets have
  a limit of 5 s, the shutdown of the TLS stream behind them has none. If the Server keeps the connection
  but does not read, the task never finishes, and a poll replaces only a finished task:
  the phone stops publishing until it is stopped by hand.

Further observations that no run claims, because no documentation speaks of them:
a panic of a snapshot task moves all revisions on, so that the results of running
command workers are discarded and their cameras start no worker until the next edit
(`InflightOwned` therefore excludes runs with a panic); a command whose window has closed (120 s after its
deadline) and that the Server delivers again, in answer to a snapshot sent before its result was known, is queued
although its record is there; the next snapshot confirms the result, which drops the record, and
the worker then finds none, which ends the run (`command_ledger.rs:236`; `RunsUntilStopped`
excludes it by `OutlivedRecord`, and `runtime_cameras` reaches it); with far more cameras than
the 32 resolutions allowed at once, unreachable ones at the front of the
configuration can keep the others waiting; the recorders of a run fill the recording store, which
nothing empties and whose limit of 100000 entries refuses the next start; an edit of one camera while
another is being resolved can leave that one with two resolutions of one generation, the result of the aborted one
clearing `resolving` for both, which costs a probe and, with a late error, 30 s of its workers; a picture that the phone
could not write in time may reach a Server that reads again with the text of TEARDOWN as its end, and the
Server then hears of no end but the connection's; of two commands that
change the configuration at once one is lost, and an archive renamed back by one may be
overwritten by the other.

## 7. Assumptions and what is not modelled

Assumptions of the command modules:

- The clock does not step back, and is read once where the code reads it twice
  in quick succession (`completed_commands` and `admit`).
- *AbortSettles*: a poll that was running when its task was aborted ends before the
  answer to a snapshot requested after the abort arrives. An aborted poll stops at its
  next await that is not ready, and between the two lie a TLS round trip and the loop's
  own passes; nothing in the code enforces it. It keeps an aborted worker from acting
  on a command admitted anew (guard of `SnapshotServed` and `Admit`).
- Ids are unique per camera; a response holds an id once; its `expires_at` parses.
- A failure to write the log is an error of the pass like a failed write of the ledger
  (`StorageFaults`). A panic of a worker ends the process like `Kill`.
- An edit that slips in between reading the configuration and stamping it is as if
  it had been made later.
- The bounds of 100 results per snapshot and 100 commands per response lie above
  every instance.

Left out of MediaSupervision: a second publish profile of a camera; the reuse of a
live capture relay by a new resolution (LocalCapture has it); errors of
`try_wait` and `wait` and a process that survives `SIGKILL`; panics of resolution tasks;
probe processes, which write nothing. What a crashed runtime left behind may still be
writing its trailer when the next one starts a recorder for the same camera: file names
are unique per worker, so `OneWorker` speaks of one runtime only. A wake-up other than
the timer that finds the file changed is the same as `Tick`.

Left out of MobilePublisher: pairing; the check that timestamps grow (the camera's clock
does) and the size limits of a frame (4 MiB is more than a 720p picture can take); what an
aborted task still writes until its next await. The frame being written counts as gone
from the channel, so the channel holds one less than in the code. Left out of IosCapture:
encoder output that is dropped or malformed; a session interrupted by the system; the
text of the status line. The scene phase and the application's state are one variable.

PairingState: inputs are valid or refused as a whole; the Server's answer to a pairing is a token
or an error; an interrupted command leaves its `.tmp` file, which no command reads. Tokens and
cameras are numbers of commands, so "newer" means brought by a later command.

ServiceHost: the loop itself is one step of the run; `configure_and_start`, which installs and starts
the service and polls its state (`windows_service_host.rs:167-215`), is the free choice of
`ServiceStarts`. An operator's command between a run's check of the fingerprint and its reading of the
file is as if it had come later.

LocalCapture: *PollsAreOver*: the last poll of an aborted task, if it ends with a device, is over before a
younger task has probed a capture successfully, and before another abort finds such a poll. Such a poll has nothing
left to wait for, while a probe starts a process and hears from it; nothing in the code enforces it, and
without it a device of a capture that has ended could replace a living one (TLC finds this). Panics of
resolution tasks are left out. `is_alive` is modelled by the state of the capture, and stays true while a task
that was aborted still kills its child, as in the code; a chunk is whatever one read of ffmpeg's output
returned; a worker that is disconnected has ended when `reap_children` looks.

DeviceResolution: a camera answers with a list of profiles or not at all; the policy on addresses,
credentials and the text of SOAP are not in it. Discovery: a response is foreign or not, and has an
endpoint and a number of addresses.

RtspPublisher: a Server that rebuilds a picture from a packet cut short takes it as it stands or drops it;
which bytes are missing is left open, and so is what it answers. What a task that is dropped has written in part is followed by
nothing but the end of the connection. The handshake, digests, SDP and timestamps are left out; the keepalive is sent between pictures
at any time.

Not modelled at all, with the reason in `PROJECT.json`: FFmpeg, the text of SOAP, JSON and TLS
(conversions and third-party code); Windows ACLs (calls without a protocol); presets and packaging.
Not modelled yet: the Android application (section 8).

## 8. Plan

1. *Done.* CommandLedger, CommandExecution, their inductive invariant and theorems;
   EdgeRuntime on top of them; CommandContract and the refinement, checked by TLC.
2. *Done.* MediaSupervision, LocalCapture, DeviceResolution, Discovery.
3. *Done.* PairingState, PairingRegistry and the refinement; ServiceHost.
4. *Done for iOS.* MobilePublisher, IosCapture, RtspPublisher.
5. *Done.* Proofs: `Spec => Contract!ContractSpec`, `LedgerLoadable`, `RuntimeSpec => Spec` and
   with it the theorems of section 5 for the whole loop, `InflightOwned`, `EvidenceKept`,
   `FailedHeardNeverExecuted`, `CapacityHonoured`, `ReportsDurableResult` and `RunsUntilStopped` without edits;
   `OneWorker`, `TrailersWritten`, `CurrentSource`,
   `RecorderUndisturbed` of MediaSupervision; `SearchComplete`, `ResolvedDevice` and `CaptureUndisturbed`; the safety
   invariants of IosCapture; the service's promise to its manager, the files of any number of
   operators, and `PairingRegistry` for any number of instances.
6. What remains for TLC alone is listed in section 5. In the model: `admit`'s second reading of the clock.
7. AndroidService on the library of MobilePublisher: a handler thread that is quit while camera
   callbacks are outstanding.

Runs are kept few: a module still to come shares a run with one whose instance allows it.
