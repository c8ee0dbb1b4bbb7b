-------------------------- MODULE MediaSupervision ---------------------------
(***************************************************************************)
(* The media half of xcoc's run loop (src/src/main.rs) and the worker      *)
(* processes it supervises (src/src/media_worker.rs): one recorder and one *)
(* publisher for each camera, started when the camera has been resolved,   *)
(* stopped gracefully, started again when they exit.  A timer pass goes    *)
(*                                                                         *)
(*   reload, stop -> reap, collect resolutions, launch due ones            *)
(*        -> recorders -> publishers                                       *)
(*                                                                         *)
(* and awaits the end of whatever it stops and the start of whatever it    *)
(* starts.  The end of the run may cut the pass short at each of these     *)
(* awaits, so it matters who owns a worker's process: a Child that is      *)
(* dropped is killed.                                                      *)
(*                                                                         *)
(* The commands of the same pass (EdgeRuntime) read the resolved device    *)
(* and nothing else of this state; this state depends on nothing of        *)
(* theirs.                                                                 *)
(***************************************************************************)
EXTENDS Naturals, FiniteSets, Sequences

CONSTANTS
    Order,          \* the cameras in the order of the configuration
    Chosen,         \* settings the operator uses for each camera
    Publishable,    \* cameras the Server may ask for
    Slots,          \* room for processes
    MaxResolves,    \* resolutions under way at most (32 in the code)
    MaxEdits,       \* bound on edits of the configuration
    MaxCrashes,     \* bound on kills of the runtime
    NoWorker        \* what a free slot holds

Cameras == {Order[i] : i \in DOMAIN Order}

\* An instance has no camera, a disabled one, or an enabled one that is stored on
\* the Server ("view") or here ("record").
Settings == {"none", "disabled", "view", "record"}
Enabled == {"view", "record"}

VARIABLES
    config, edits, crashes,     \* the configuration file; how much has happened

    phase,          \* where the loop is in its pass; "down": no process
    loaded,         \* state.instances
    changed,        \* the instances the last reload found changed
    granted,        \* publish_grants: cameras the Server wants published
    todo,           \* cameras the pass has still to start a worker for

    generation,     \* RuntimeCamera.generation
    source,         \* RuntimeCamera.resolved, by the generation it was resolved for
    failing,        \* RuntimeCamera.error; "wait" until retry_at, then "due"
    resolving,      \* RuntimeCamera.resolving
    resolutions,    \* resolve_tasks, running and finished: camera, generation, number,
                    \* aborted, and outcome

    workers,        \* worker processes, and who holds their Child
    cut             \* history: a worker was killed without its grace period

fileVars == <<config, edits, crashes>>
passVars == <<phase, loaded, changed, granted, todo>>
cameraVars == <<generation, source, failing, resolving>>
mediaVars == <<fileVars, passVars, cameraVars, resolutions, workers, cut>>

Loop == {"select", "reload", "collect", "recorders", "grants", "publishers"}
\* Generations count from 1.
NotResolved == 0
Keys == Cameras \X {"record", "publish"}

\* children and MediaTasks hold a Child for the run; the pass does while it runs;
\* nobody does after a crash.
Owners == {"children", "starting", "stopping", "pass", "orphan"}
Worker == [key : Keys, owner : Owners, source : Nat,
           state : {"starting", "running", "finalizing", "exited", "failed"}]

ASSUME MediaAssumption ==
    /\ Order \in Seq(Cameras)
    /\ Chosen \in [Cameras -> SUBSET Settings] /\ Publishable \subseteq Cameras
    /\ Slots \subseteq Nat /\ IsFiniteSet(Slots)
    /\ {MaxResolves, MaxEdits, MaxCrashes} \subseteq Nat
    /\ NoWorker \notin Worker

\* The loop's state when the runtime starts with these instances.
LoopStarts(where, instances) ==
    /\ phase' = where
    /\ loaded' = instances
    /\ changed' = {} /\ granted' = {} /\ todo' = {}
    /\ generation' = [cam \in Cameras |-> 1]
    /\ source' = [cam \in Cameras |-> NotResolved]
    /\ failing' = [cam \in Cameras |-> "no"]
    /\ resolving' = [cam \in Cameras |-> FALSE]
    /\ resolutions' = {}

MediaInit ==
    /\ config \in [Cameras -> Settings] /\ \A cam \in Cameras : config[cam] \in Chosen[cam]
    /\ edits = 0 /\ crashes = 0
    /\ phase = "down"
    /\ loaded = [cam \in Cameras |-> "none"]
    /\ changed = {} /\ granted = {} /\ todo = {}
    /\ generation = [cam \in Cameras |-> 1]
    /\ source = [cam \in Cameras |-> NotResolved]
    /\ failing = [cam \in Cameras |-> "no"]
    /\ resolving = [cam \in Cameras |-> FALSE]
    /\ resolutions = {}
    /\ workers = [s \in Slots |-> NoWorker]
    /\ cut = FALSE

-----------------------------------------------------------------------------
(***************************************************************************)
(* Worker processes.                                                       *)
(***************************************************************************)
Used == {s \in Slots : workers[s] # NoWorker}
Owned(owner) == {s \in Used : workers[s].owner = owner}
Live(s) == workers[s].state \notin {"exited", "failed"}
ChildOf(key) == \E s \in Owned("children") : workers[s].key = key
Free == CHOOSE s \in Slots : s \notin Used

\* stop_media_children: the workers S are told to stop by tasks the run owns.
\* Defective: the pass stops them itself and owns them meanwhile.
StopChildrenInPass(S) ==
    [s \in Slots |->
        IF s \notin S THEN workers[s]
        ELSE IF ~Live(s) THEN NoWorker
        ELSE [workers[s] EXCEPT !.owner = "pass", !.state = "finalizing"]]

StopChildren(S) ==
    [s \in Slots |->
        IF s \notin S THEN workers[s]
        ELSE IF ~Live(s) THEN NoWorker
        ELSE [workers[s] EXCEPT !.owner = "stopping", !.state = "finalizing"]]

\* What the pass stopped has ended; the pass awaits this before it goes on.
\* Defective: it does not.
StoppedAtOnce == TRUE

Stopped == Owned("stopping") \cup Owned("pass") = {}

\* The request reached the worker.
Begins(s) ==
    /\ workers[s].state = "starting"
    /\ workers' = [workers EXCEPT ![s].state = "running"]

\* The request could not be written in time, or the pipe broke: the start task
\* stops the worker before it reports the failure.
StartBreaks(s) ==
    /\ workers[s].state = "starting"
    /\ workers' = [workers EXCEPT ![s].state = "finalizing"]

\* The worker ends by itself; its Child stays where it is until somebody looks.
Exits(s) ==
    /\ workers[s].state = "running"
    /\ workers' = [workers EXCEPT ![s].state = "exited"]

\* A worker that was told to stop, by command or by the closed pipe, has written
\* its trailer; or its grace period is over and it is killed.
Finalizes(s) ==
    /\ workers[s].state = "finalizing"
    /\ workers' = [workers EXCEPT ![s] = IF @.owner = "starting"
                                         THEN [@ EXCEPT !.state = "failed"] ELSE NoWorker]

WorkerStep(s) ==
    /\ s \in Used
    /\ Begins(s) \/ StartBreaks(s) \/ Exits(s) \/ Finalizes(s)
    /\ UNCHANGED <<fileVars, passVars, cameraVars, resolutions, cut>>

\* A recorder of cam begins.
RecorderBegins(cam) ==
    \E s \in Owned("starting") :
        workers[s].key = <<cam, "record">> /\ Begins(s)
            /\ UNCHANGED <<fileVars, passVars, cameraVars, resolutions, cut>>

-----------------------------------------------------------------------------
(***************************************************************************)
(* Resolution of cameras.                                                  *)
(***************************************************************************)
\* RuntimeCamera::should_resolve
ShouldResolve(cam) ==
    /\ loaded[cam] \in Enabled
    /\ ~resolving[cam]
    /\ source[cam] = NotResolved \/ failing[cam] # "no"
    /\ failing[cam] # "wait"

\* retry_at has come.
RetryDue(cam) ==
    /\ failing[cam] = "wait"
    /\ failing' = [failing EXCEPT ![cam] = "due"]
    /\ UNCHANGED <<fileVars, passVars, generation, source, resolving, resolutions, workers, cut>>

\* The camera answers and its streams can be probed, or not (60 s at most).  An
\* aborted task that is being polled may still end this way.
ResolutionEnds(t, outcome) ==
    /\ t.outcome = "running"
    /\ resolutions' = (resolutions \ {t}) \cup {[t EXCEPT !.outcome = outcome]}
    /\ UNCHANGED <<fileVars, passVars, cameraVars, workers, cut>>

ResolutionCancelled(t) ==
    /\ t.aborted
    /\ t.outcome = "running"
    /\ resolutions' = resolutions \ {t}
    /\ UNCHANGED <<fileVars, passVars, cameraVars, workers, cut>>

ResolutionStep(t) ==
    \/ \E outcome \in {"ok", "error"} : ResolutionEnds(t, outcome)
    \/ ResolutionCancelled(t)

Resolved(cam) == \E t \in resolutions : t.camera = cam /\ ResolutionEnds(t, "ok")

-----------------------------------------------------------------------------
(***************************************************************************)
(* The runtime process and the configuration.                              *)
(***************************************************************************)
Boot ==
    /\ phase = "down"
    /\ LoopStarts("select", config)
    /\ UNCHANGED <<fileVars, workers, cut>>

EditConfig(cam, setting) ==
    /\ edits < MaxEdits
    /\ edits' = edits + 1
    /\ setting # config[cam]
    /\ config' = [config EXCEPT ![cam] = setting]
    /\ UNCHANGED <<crashes, passVars, cameraVars, resolutions, workers, cut>>

\* A termination signal, at any await of the pass, or an error of the pass, a
\* configuration that cannot be loaded among them.  The pass is dropped with what
\* it owns; finish_media_shutdown stops the children.
EndRun ==
    /\ phase \in Loop
    /\ phase' = "ending"
    /\ resolutions' = {}
    /\ workers' = [s \in Slots |->
                     IF s \in Owned("pass") THEN NoWorker ELSE StopChildren(Owned("children"))[s]]
    /\ cut' = (cut \/ Owned("pass") # {})
    /\ UNCHANGED <<fileVars, loaded, changed, granted, todo, cameraVars>>

\* A worker whose start was under way is stopped once it has started.
StopStarted(s) ==
    /\ phase = "ending"
    /\ s \in Owned("starting")
    /\ workers[s].state \in {"running", "exited", "failed"}
    /\ workers' = StopChildren({s})
    /\ UNCHANGED <<fileVars, passVars, cameraVars, resolutions, cut>>

Ended == Owned("starting") \cup Owned("stopping") = {}

\* run returns; whoever is still held is killed with its Child.
Over ==
    /\ phase = "ending"
    /\ Ended
    /\ LoopStarts("down", [cam \in Cameras |-> "none"])
    /\ workers' = [s \in Slots |-> IF s \in Used \ Owned("orphan") THEN NoWorker ELSE workers[s]]
    /\ cut' = (cut \/ \E s \in Used \ Owned("orphan") : Live(s))
    /\ UNCHANGED fileVars

\* The runtime is killed.  Its workers see their pipe close.
Crash ==
    /\ phase # "down"
    /\ crashes < MaxCrashes
    /\ crashes' = crashes + 1
    /\ LoopStarts("down", [cam \in Cameras |-> "none"])
    /\ workers' = [s \in Slots |->
                     CASE s \notin Used -> NoWorker
                       [] s \in Used /\ Live(s) ->
                            [workers[s] EXCEPT !.owner = "orphan", !.state = "finalizing"]
                       [] OTHER -> NoWorker]
    /\ UNCHANGED <<config, edits, cut>>

-----------------------------------------------------------------------------
(***************************************************************************)
(* The pass.                                                               *)
(***************************************************************************)
\* The timer (or another wake-up that finds the file changed): reload_configuration
\* gives changed cameras a new RuntimeCamera and stops their workers.
Tick ==
    /\ phase = "select"
    /\ phase' = "reload"
    /\ loaded' = config
    /\ changed' = {cam \in Cameras : config[cam] # loaded[cam]}
    /\ generation' = [cam \in Cameras |-> generation[cam] + IF cam \in changed' THEN 1 ELSE 0]
    /\ source' = [cam \in Cameras |-> IF cam \in changed' THEN NotResolved ELSE source[cam]]
    /\ failing' = [cam \in Cameras |-> IF cam \in changed' THEN "no" ELSE failing[cam]]
    /\ resolving' = [cam \in Cameras |-> cam \notin changed' /\ resolving[cam]]
    /\ workers' = StopChildren({s \in Owned("children") : workers[s].key[1] \in changed'})
    /\ UNCHANGED <<fileVars, granted, todo, resolutions, cut>>

\* A pass woken by a snapshot or a command leaves the cameras and recorders alone.
WakeForResults ==
    /\ phase = "select"
    /\ phase' = "grants"
    /\ UNCHANGED <<fileVars, loaded, changed, granted, todo, cameraVars, resolutions, workers, cut>>

\* Whether the flag of cam survives the reload.  Every resolution was aborted if
\* anything changed.  Defective: the flags are left as they are.
StillResolvingAnyway(cam) == resolving[cam]

StillResolving(cam) == changed = {} /\ resolving[cam]

\* What reload stopped has ended.  Resolutions are aborted if anything changed;
\* then reap_children: a worker that exited puts its camera in error.
Reap ==
    /\ phase = "reload"
    /\ Stopped
    /\ phase' = "collect"
    /\ granted' = granted \ changed
    /\ resolving' = [cam \in Cameras |-> StillResolving(cam)]
    /\ resolutions' = IF changed = {} THEN resolutions
                      ELSE {IF t.outcome = "running" THEN [t EXCEPT !.aborted = TRUE] ELSE t :
                            t \in resolutions}
    /\ LET dead == {s \in Owned("children") : ~Live(s)}
       IN  /\ workers' = [s \in Slots |-> IF s \in dead THEN NoWorker ELSE workers[s]]
           /\ failing' = [cam \in Cameras |->
                             IF \E s \in dead : workers[s].key[1] = cam THEN "wait" ELSE failing[cam]]
    /\ UNCHANGED <<fileVars, loaded, changed, todo, generation, source, cut>>

\* A result belongs to the RuntimeCamera it was started for.
\* Defective: to whichever the camera has now.
AcceptedAlways(t) == TRUE

Accepted(t) == t.generation = generation[t.camera]

\* collect_resolved_cameras, one finished resolution.
Collect(t) ==
    /\ phase = "collect"
    /\ t \in resolutions
    /\ t.outcome # "running"
    /\ resolutions' = resolutions \ {t}
    /\ IF ~Accepted(t)
       THEN UNCHANGED <<source, failing, resolving>>
       ELSE /\ resolving' = [resolving EXCEPT ![t.camera] = FALSE]
            /\ source' = [source EXCEPT ![t.camera] = IF t.outcome = "ok" THEN t.generation ELSE @]
            /\ failing' = [failing EXCEPT ![t.camera] = IF t.outcome = "ok" THEN "no" ELSE "wait"]
    /\ UNCHANGED <<fileVars, passVars, generation, workers, cut>>

\* The cameras launch_due_cameras starts a resolution for: in order, up to the limit.
Due ==
    LET waiting == SelectSeq(Order, ShouldResolve)
    IN  {waiting[i] : i \in {i \in DOMAIN waiting : Cardinality(resolutions) + i <= MaxResolves}}

NewResolution(cam) ==
    LET used == {t.number : t \in {t \in resolutions : t.camera = cam}}
        number == CHOOSE n \in 0..MaxResolves \ used : \A m \in 0..MaxResolves \ used : n <= m
    IN  [camera |-> cam, generation |-> generation[cam], number |-> number,
         aborted |-> FALSE, outcome |-> "running"]

Recorded == {cam \in Cameras : loaded[cam] = "record"}

\* launch_due_cameras, and the first half of reconcile_local_recorders: recorders
\* the configuration no longer asks for are stopped.
LaunchDue ==
    /\ phase = "collect"
    /\ \A t \in resolutions : t.outcome = "running"
    /\ phase' = "recorders"
    /\ todo' = Recorded
    /\ resolving' = [cam \in Cameras |-> resolving[cam] \/ cam \in Due]
    /\ resolutions' = resolutions \cup {NewResolution(cam) : cam \in Due}
    /\ workers' = StopChildren({s \in Owned("children") :
                     workers[s].key[2] = "record" /\ workers[s].key[1] \notin Recorded})
    /\ UNCHANGED <<fileVars, loaded, changed, granted, generation, source, failing, cut>>

\* The publishers nobody asks for any more.
\* Defective: every worker of such a camera.
UngrantedWorkers(grants) == {s \in Owned("children") : workers[s].key[1] \notin grants}

Ungranted(grants) ==
    {s \in Owned("children") : workers[s].key[2] = "publish" /\ workers[s].key[1] \notin grants}

\* The snapshots that came in with this pass bring grants; if any did, or the
\* configuration changed, reconcile_publishers first stops what is not granted.
Grants ==
    /\ phase = "grants"
    /\ \E heard \in SUBSET {cam \in Cameras : loaded[cam] # "none"} :
       \E grants \in SUBSET (heard \cap Publishable) :
          /\ granted' = (granted \ heard) \cup grants
          /\ IF heard = {} /\ changed = {}
             THEN /\ phase' = "select"
                  /\ UNCHANGED <<todo, workers>>
             ELSE /\ phase' = "publishers"
                  /\ todo' = granted'
                  /\ workers' = StopChildren(Ungranted(granted'))
    /\ changed' = {}
    /\ UNCHANGED <<fileVars, loaded, cameraVars, resolutions, cut>>

\* The worker the pass starts for a camera, in each half of it.
Wanted(cam) == <<cam, IF phase = "recorders" THEN "record" ELSE "publish">>

Startable(cam) == ~ChildOf(Wanted(cam)) /\ source[cam] # NotResolved /\ failing[cam] = "no"

\* reconcile_local_recorders and reconcile_publishers, for one camera: nothing is
\* started, a worker is, or it cannot even be spawned.
Visit(cam) ==
    /\ phase \in {"recorders", "publishers"}
    /\ Stopped
    /\ Owned("starting") = {}
    /\ cam \in todo
    /\ UNCHANGED <<fileVars, phase, loaded, changed, granted, generation, source, resolving,
                   resolutions, cut>>

Skip(cam) ==
    /\ Visit(cam)
    /\ ~Startable(cam)
    /\ todo' = todo \ {cam}
    /\ UNCHANGED <<failing, workers>>

Spawn(cam) ==
    /\ Visit(cam)
    /\ Startable(cam)
    /\ Used # Slots
    /\ workers' = [workers EXCEPT ![Free] = [key |-> Wanted(cam), owner |-> "starting",
                                             source |-> source[cam], state |-> "starting"]]
    /\ UNCHANGED <<failing, todo>>

SpawnFails(cam) ==
    /\ Visit(cam)
    /\ Startable(cam)
    /\ failing' = [failing EXCEPT ![cam] = "wait"]
    /\ todo' = todo \ {cam}
    /\ UNCHANGED workers

\* start_media_worker returns: the child is kept, or its camera put in error.
Started(s) ==
    /\ phase \in {"recorders", "publishers"}
    /\ s \in Owned("starting")
    /\ \/ /\ workers[s].state \in {"running", "exited"}
          /\ workers' = [workers EXCEPT ![s].owner = "children"]
          /\ UNCHANGED failing
       \/ /\ workers[s].state = "failed"
          /\ workers' = [workers EXCEPT ![s] = NoWorker]
          /\ failing' = [failing EXCEPT ![workers[s].key[1]] = "wait"]
    /\ todo' = todo \ {workers[s].key[1]}
    /\ UNCHANGED <<fileVars, phase, loaded, changed, granted, generation, source, resolving,
                   resolutions, cut>>

Reconciled ==
    /\ phase \in {"recorders", "publishers"}
    /\ Stopped
    /\ todo = {}
    /\ phase' = IF phase = "recorders" THEN "grants" ELSE "select"
    /\ UNCHANGED <<fileVars, loaded, changed, granted, todo, cameraVars, resolutions, workers, cut>>

Pass ==
    \/ Reap
    \/ \E t \in resolutions : Collect(t)
    \/ LaunchDue
    \/ Grants
    \/ \E cam \in Cameras : Skip(cam) \/ Spawn(cam) \/ SpawnFails(cam)
    \/ \E s \in Slots : Started(s)
    \/ Reconciled

MediaNext ==
    \/ Boot
    \/ \E cam \in Cameras : \E setting \in Chosen[cam] : EditConfig(cam, setting)
    \/ EndRun
    \/ \E s \in Slots : StopStarted(s)
    \/ Over
    \/ Crash
    \/ Tick
    \/ WakeForResults
    \/ Pass
    \/ \E s \in Slots : WorkerStep(s)
    \/ \E cam \in Cameras : RetryDue(cam)
    \/ \E t \in resolutions : ResolutionStep(t)

MediaSpec == MediaInit /\ [][MediaNext]_mediaVars

(***************************************************************************)
(* Fairness: the loop is polled and its timer is not passed over for ever  *)
(* (select! takes the ready branches in random order); the supervisor      *)
(* starts the runtime again; processes end when told to; timers run down.  *)
(* A camera is reachable and a recorder can be started: not every attempt  *)
(* fails.  Nothing is assumed of grants and publishers, which may fail     *)
(* every time.                                                             *)
(***************************************************************************)
MediaFairness ==
    /\ WF_mediaVars(Boot)
    /\ WF_mediaVars(Pass)
    /\ SF_mediaVars(Tick)
    /\ WF_mediaVars(\E s \in Slots : StopStarted(s))
    /\ WF_mediaVars(Over)
    /\ \A s \in Slots : WF_mediaVars(WorkerStep(s))
    /\ \A cam \in Cameras :
        /\ WF_mediaVars(RetryDue(cam))
        /\ WF_mediaVars(\E t \in resolutions : t.camera = cam /\ ResolutionStep(t))
        /\ SF_mediaVars(Resolved(cam))
        /\ SF_mediaVars(phase = "recorders" /\ Spawn(cam))
        /\ SF_mediaVars(RecorderBegins(cam))

FairMediaSpec == MediaSpec /\ MediaFairness

-----------------------------------------------------------------------------
(***************************************************************************)
(* What supervision promises.                                              *)
(***************************************************************************)
\* Of one runtime there are never two recorders of a camera, nor two publishers:
\* the next one is started only when the one before has ended, be it through
\* reload, revoked grants or failed starts.  (What a crashed runtime left behind
\* may still be writing its trailer.)
OneWorker ==
    \A s, t \in Used \ Owned("orphan") :
        Live(s) /\ Live(t) /\ workers[s].key = workers[t].key => s = t

\* No worker is killed before its grace period is over, whenever the run ends: not
\* while it starts, not while the pass awaits its end (docs/media-worker.md, and
\* the comment in stop_media_children).
TrailersWritten == ~cut

\* A worker that is kept or being started reads its camera as the configuration
\* in force describes it, though resolutions of an earlier one end late.
CurrentSource ==
    phase \in Loop \ {"reload"} => \A s \in Owned("children") \cup Owned("starting") :
        workers[s].source = generation[workers[s].key[1]]

\* A recorder at work is left alone until its camera's configuration changes or the
\* run ends: publishing that fails or is revoked does not interrupt it
\* (docs/configuration.md, and the comment in launch_due_cameras).
RecorderUndisturbed ==
    [][\A s \in Owned("children") :
        workers[s].state = "running" /\ workers[s].key[2] = "record" =>
            \/ workers'[s] # NoWorker /\ workers'[s].owner = "children"
            \/ workers[s].key[1] \in changed'
            \/ phase' \in {"ending", "down"}]_mediaVars

\* A camera that is to be recorded here gets a recorder that runs, again whenever
\* it exits, unless the configuration changes or the run ends: though publishing
\* may fail every time, and an edit of one camera aborts the resolution of all.
RecorderRuns ==
    \A cam \in Cameras :
        config[cam] = "record" ~>
            \/ \E s \in Owned("starting") \cup Owned("children") :
                    workers[s].key = <<cam, "record">> /\ workers[s].state = "running"
            \/ config[cam] # "record"
            \/ phase \in {"ending", "down"}
=============================================================================
