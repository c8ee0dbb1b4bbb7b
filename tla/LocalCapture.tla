----------------------------- MODULE LocalCapture -----------------------------
(***************************************************************************)
(* A camera attached to the computer.  One ffmpeg process captures it and   *)
(* a relay (start_relay in src/src/local_camera.rs) hands its output to the *)
(* media workers, each at its own pace: a reader that falls behind by more  *)
(* than the relay buffers is disconnected.  The relay lives as long as      *)
(* somebody holds it: the run loop's resolved device, or a resolution task  *)
(* that opened it or checks it again.  When the last holder lets go its     *)
(* process is killed, but not at once, and until then the device is busy.   *)
(*                                                                         *)
(* One camera; the passes of the run loop are those of MediaSupervision as  *)
(* far as they concern it.                                                  *)
(***************************************************************************)
EXTENDS Naturals, FiniteSets, Sequences

CONSTANTS
    MaxCaptures,    \* captures that can exist at once, processes being killed included
    Workers,        \* media workers that read the relay
    Slots,          \* readers the relay admits (8)
    MaxTasks,       \* resolutions under way at most (32)
    Buffered,       \* chunks the relay keeps for a slow reader (64)
    MaxChunks,      \* bound on chunks of one capture
    MaxEdits,       \* bound on edits of the configuration
    MaxFaults       \* bound on failing captures, probes and readers

VARIABLES
    configured,     \* the camera is in the configuration and enabled
    generation,     \* RuntimeCamera: generation, resolved, error, resolving
    held, failing, resolving,
    phase,          \* where the loop is in its pass
    tasks,          \* resolution tasks that have not finished
    results,        \* what finished tasks return, in the order in which they finished
    captures,       \* capture -> its process and relay
    readers,        \* worker -> its connection
    edits, faults

localVars == <<configured, generation, held, failing, resolving, phase, tasks,
               results, captures, readers, edits, faults>>
loopVars == <<configured, generation, held, failing, resolving, phase, edits>>
resolutionVars == <<tasks, results>>

Captures == 1..MaxCaptures
None == 0
NoCapture == [state |-> "unused", grabbed |-> FALSE, chunks |-> 0]
NoReader == [capture |-> None, step |-> "none", at |-> 0]
LocalInit ==
    /\ configured = TRUE /\ generation = 0
    /\ held = None /\ failing = FALSE /\ resolving = FALSE
    /\ phase = "launch"
    /\ tasks = {} /\ results = << >>
    /\ captures = [c \in Captures |-> NoCapture]
    /\ readers = [w \in Workers |-> NoReader]
    /\ edits = 0 /\ faults = 0

\* An Arc of the relay is in the runtime's device, in a task's or in a result's.
Holder(c) == \/ held = c
             \/ \E t \in tasks : t.capture = c
             \/ \E i \in DOMAIN results : results[i].capture = c
\* CaptureRelay::is_alive.
Alive(c) == c # None /\ captures[c].state = "open"
\* The process is there: the physical camera may be taken.
Running(c) == captures[c].state = "open"
Delivering(c) == Alive(c) /\ captures[c].grabbed
Fault == faults < MaxFaults /\ faults' = faults + 1

-------------------------------------------------------------------------------
(* The relay and its readers.                                              *)

\* The relay's connections end with it.
Disconnected(c) ==
    [w \in Workers |-> IF readers[w].capture = c THEN [readers[w] EXCEPT !.step = "left"]
                                                 ELSE readers[w]]

\* Output of ffmpeg is handed to all readers at once.
Broadcasts(c) ==
    /\ Running(c) /\ Holder(c) /\ captures[c].grabbed
    /\ captures[c].chunks < MaxChunks
    /\ captures' = [captures EXCEPT ![c].chunks = @ + 1]
    /\ UNCHANGED <<loopVars, resolutionVars, readers, faults>>

\* ffmpeg ends: it could not take the device, or the camera fails.
CaptureEnds(c) ==
    /\ Running(c) /\ Holder(c)
    /\ IF captures[c].grabbed THEN Fault ELSE faults' = faults
    /\ captures' = [captures EXCEPT ![c].state = "ended", ![c].grabbed = FALSE]
    /\ readers' = Disconnected(c)
    /\ UNCHANGED <<loopVars, resolutionVars>>

\* Nobody holds the relay: its task was aborted, and now its process is gone.
CaptureReleased(c) ==
    /\ captures[c].state # "unused" /\ ~Holder(c)
    /\ captures' = [captures EXCEPT ![c] = NoCapture]
    /\ readers' = Disconnected(c)
    /\ UNCHANGED <<loopVars, resolutionVars, faults>>

Connected(c) == {w \in Workers : readers[w].capture = c /\ readers[w].step \in {"asking", "reading"}}

\* A worker connects; without a free slot it is dropped.
Accepts(w, c) ==
    IF Alive(c) /\ Cardinality(Connected(c)) < Slots
    THEN [capture |-> c, step |-> "asking", at |-> captures[c].chunks]
    ELSE [NoReader EXCEPT !.step = "left"]

\* Its request is read and answered within five seconds, or not.
Answered(w) ==
    /\ readers[w].step = "asking" /\ Holder(readers[w].capture)
    /\ \/ readers' = [readers EXCEPT ![w].step = "reading"] /\ faults' = faults
       \/ readers' = [readers EXCEPT ![w].step = "left"] /\ Fault
    /\ UNCHANGED <<loopVars, resolutionVars, captures>>

Behind(w) == captures[readers[w].capture].chunks - readers[w].at

\* Defective: a worker that lags is neither served nor disconnected.
DeliversUnlessBehind(w) ==
    /\ readers[w].step = "reading" /\ Holder(readers[w].capture)
    /\ Behind(w) \in 1..Buffered
    /\ readers' = [readers EXCEPT ![w].at = @ + 1]
    /\ UNCHANGED <<loopVars, resolutionVars, captures, faults>>

\* The next chunk is written to the worker; one that lags is disconnected.
Delivers(w) ==
    /\ readers[w].step = "reading" /\ Holder(readers[w].capture)
    /\ Behind(w) > 0
    /\ readers' = IF Behind(w) <= Buffered
                  THEN [readers EXCEPT ![w].at = @ + 1]
                  ELSE [readers EXCEPT ![w].step = "left"]
    /\ UNCHANGED <<loopVars, resolutionVars, captures, faults>>

\* A worker does not take a chunk for five seconds, or ends by itself.
ReaderFails(w) ==
    /\ readers[w].step \in {"asking", "reading"}
    /\ Fault
    /\ readers' = [readers EXCEPT ![w].step = "left"]
    /\ UNCHANGED <<loopVars, resolutionVars, captures>>

-------------------------------------------------------------------------------
(* Resolution tasks (the task of launch_due_cameras).  One that finishes     *)
(* returns the device, with the relay, or an error.                        *)

Becomes(t, new) == tasks' = (tasks \ {t}) \cup {new} /\ results' = results
Result(t, c) == [generation |-> t.generation, capture |-> c]
Returns(t, c) == tasks' = tasks \ {t} /\ results' = Append(results, Result(t, c))

\* start_capture: another process may still have the device.
OpensCapture(t) ==
    /\ t \in tasks /\ t.state = "opening"
    /\ \E c \in Captures :
          /\ captures[c].state = "unused" /\ \A d \in 1..(c - 1) : captures[d].state # "unused"
          /\ captures' = [captures EXCEPT ![c] =
                [state |-> "open", grabbed |-> \A d \in Captures : ~captures[d].grabbed,
                 chunks |-> 0]]
          /\ Becomes(t, [t EXCEPT !.capture = c, !.state = "probing"])
    /\ UNCHANGED <<loopVars, readers, faults>>

OpenFails(t) ==
    /\ t \in tasks /\ t.state = "opening"
    /\ Fault
    /\ Returns(t, None)
    /\ UNCHANGED <<loopVars, captures, readers>>

\* An aborted task whose last poll ends with a device is not there any more.  A poll
\* is short: it is over before a younger task has started its processes and heard
\* from them, and before the polls that another abort finds.
PollsAreOver == \A t \in tasks : t.state = "late" => t.capture = None

\* probe_streams: a worker of its own reads the relay for a moment.
Probes(t) ==
    /\ t \in tasks /\ t.state = "probing"
    /\ Delivering(t.capture) /\ PollsAreOver
    /\ Returns(t, t.capture)
    /\ UNCHANGED <<loopVars, captures, readers, faults>>

\* A task that fails lets its capture go.
ProbeFails(t) ==
    /\ t \in tasks /\ t.state = "probing"
    /\ IF Alive(t.capture) THEN Fault ELSE faults' = faults
    /\ Returns(t, None)
    /\ UNCHANGED <<loopVars, captures, readers>>

\* A task that was aborted within a poll returns what the poll ends with, at any time,
\* also beside the task launched after it; or the poll does not finish it.
LateEnds(t) ==
    /\ t \in tasks /\ t.state = "late"
    /\ Returns(t, t.capture) \/ (tasks' = tasks \ {t} /\ results' = results)
    /\ UNCHANGED <<loopVars, captures, readers, faults>>

-------------------------------------------------------------------------------
(* The run loop.                                                           *)

\* A pass without a change of the configuration.
Tick ==
    /\ phase = "select"
    /\ phase' = "collect"
    /\ UNCHANGED <<configured, generation, held, failing, resolving, edits,
                   resolutionVars, captures, readers, faults>>

\* abort_all: finished tasks keep their result.  Of the others some are in a poll that
\* will end with the device they have probed, or with an error; the rest is gone.
Aborted ==
    \E passing \in SUBSET {t \in tasks : t.state = "probing" /\ Delivering(t.capture)} :
    \E erring \in SUBSET {t \in tasks \ passing : t.state # "late"} :
        /\ passing # {} => PollsAreOver
        /\ tasks' = {t \in tasks : t.state = "late"}
                    \cup {[t EXCEPT !.state = "late"] : t \in passing}
                    \cup {[t EXCEPT !.state = "late", !.capture = None] : t \in erring}
        /\ results' = results

\* A reload that changes another camera aborts the tasks of all: this camera's were of
\* the generation that stays.
ReloadOther ==
    /\ phase = "select" /\ edits < MaxEdits
    /\ edits' = edits + 1
    /\ resolving' = FALSE
    /\ Aborted
    /\ phase' = "collect"
    /\ UNCHANGED <<configured, generation, held, failing, captures, readers, faults>>

\* A reload that changes this camera, removes it or brings it back: the runtime
\* entry is made anew and its workers are stopped.
ReloadThis ==
    /\ phase = "select" /\ edits < MaxEdits
    /\ edits' = edits + 1
    /\ generation' = edits'
    /\ configured' \in BOOLEAN
    /\ held' = None /\ failing' = FALSE /\ resolving' = FALSE
    /\ Aborted
    /\ readers' = [w \in Workers |-> NoReader]
    /\ phase' = "collect"
    /\ UNCHANGED <<captures, faults>>

\* reap_children: a worker that left is removed, and the camera is retried.
Reap(w) ==
    /\ phase = "collect" /\ readers[w].step = "left"
    /\ readers' = [readers EXCEPT ![w] = NoReader]
    /\ failing' = TRUE
    /\ UNCHANGED <<configured, generation, held, resolving, phase, edits, resolutionVars,
                   captures, faults>>

Current(result) == configured /\ result.generation = generation

\* collect_resolved_cameras, one finished task: the first of them.
Collect ==
    /\ phase = "collect" /\ results # << >>
    /\ results' = Tail(results)
    /\ LET result == Head(results) IN
       IF Current(result)
       THEN /\ resolving' = FALSE
            /\ failing' = (result.capture = None)
            /\ held' = IF result.capture # None THEN result.capture ELSE held
       ELSE UNCHANGED <<resolving, failing, held>>
    /\ UNCHANGED <<configured, generation, phase, edits, tasks, captures, readers, faults>>

Collected ==
    /\ phase = "collect"
    /\ results = << >>
    /\ \A w \in Workers : readers[w].step # "left"
    /\ phase' = "launch"
    /\ UNCHANGED <<configured, generation, held, failing, resolving, edits,
                   resolutionVars, captures, readers, faults>>

ShouldResolve == configured /\ ~resolving /\ (held = None \/ failing)
HasRoom == Cardinality(tasks) + Len(results) < MaxTasks

Numbers == 1..MaxTasks
NewTask(c) ==
    [number |-> CHOOSE n \in Numbers : \A t \in tasks : t.number # n,
     generation |-> generation, capture |-> c,
     state |-> IF c # None THEN "probing" ELSE "opening"]

LaunchWith(c) ==
    /\ phase = "launch" /\ ShouldResolve /\ HasRoom
    /\ resolving' = TRUE
    /\ held' = c
    /\ tasks' = tasks \cup {NewTask(c)} /\ results' = results
    /\ phase' = "select"
    /\ UNCHANGED <<configured, generation, failing, edits, captures, readers, faults>>

\* Defective: a camera in error is opened again in any case.
LaunchAfresh == LaunchWith(None)

\* Defective: the relay is checked again although it has ended.
LaunchOnDead == LaunchWith(held)

\* launch_due_cameras: a relay that lives is checked again, not opened again.
Launch == LaunchWith(IF Alive(held) THEN held ELSE None)

\* reconcile_local_recorders and reconcile_publishers start the workers that
\* are missing; or the pass launches nothing: it is not due, or not yet.
Reconcile ==
    /\ phase = "launch" /\ (ShouldResolve => failing \/ ~HasRoom)
    /\ readers' = [w \in Workers |->
          IF configured /\ held # None /\ ~failing /\ readers[w] = NoReader
          THEN Accepts(w, held) ELSE readers[w]]
    /\ phase' = "select"
    /\ UNCHANGED <<configured, generation, held, failing, resolving, edits, resolutionVars,
                   captures, faults>>

-------------------------------------------------------------------------------
LoopStep == Tick \/ (\E w \in Workers : Reap(w)) \/ Collect \/ Collected \/ Reconcile

TaskStep(t) == OpensCapture(t) \/ OpenFails(t) \/ Probes(t) \/ ProbeFails(t) \/ LateEnds(t)

Serves(w) == Answered(w) \/ Delivers(w)

RelayStep ==
    \/ \E c \in Captures : Broadcasts(c) \/ CaptureEnds(c) \/ CaptureReleased(c)
    \/ \E w \in Workers : Serves(w) \/ ReaderFails(w)

LocalNext ==
    RelayStep \/ (\E t \in tasks : TaskStep(t)) \/ Launch \/ LoopStep \/ ReloadOther \/ ReloadThis

\* The loop ticks, a retry becomes due, tasks and writes to a reader end by their time
\* limits, and a process that was killed or lost its device is gone after a while.
LocalFairness ==
    /\ WF_localVars(LoopStep) /\ SF_localVars(Launch)
    /\ \A n \in Numbers : WF_localVars(\E t \in tasks : t.number = n /\ TaskStep(t))
    /\ \A w \in Workers : WF_localVars(Serves(w))
    /\ \A c \in Captures :
          /\ WF_localVars(CaptureReleased(c))
          /\ WF_localVars(CaptureEnds(c) /\ ~captures[c].grabbed)

LocalSpec == LocalInit /\ [][LocalNext]_localVars /\ LocalFairness

-------------------------------------------------------------------------------
(* Properties.                                                             *)

\* While the capture lives, only an edit of its camera takes it away: not a
\* failing publisher, a retry, an edit of another camera, or what a task that such an
\* edit aborted still returns ("a publishing failure must not reopen an occupied physical
\* camera or interrupt its independent local recorder").
CaptureUndisturbed ==
    [][Alive(held) /\ held' # held => generation' # generation]_localVars

\* A camera that stays configured is captured again and again after every
\* fault, also when the device was still busy with a process being killed.
CaptureReturns == <>[]configured => []<>Alive(held)

\* And each of its workers reads that capture again, up to the last chunk: whether it
\* lagged and was disconnected, failed, or lost its relay, and whatever the others do.
UpToDate(w) == readers[w].step = "reading" /\ readers[w].capture = held /\ Behind(w) = 0
ReadersReturn == <>[]configured => \A w \in Workers : []<>UpToDate(w)
===============================================================================
