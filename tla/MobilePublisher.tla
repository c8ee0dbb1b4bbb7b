--------------------------- MODULE MobilePublisher ---------------------------
(***************************************************************************)
(* The library the phone applications call (src/src/mobile.rs behind       *)
(* src/crates/mobile-ffi/src/lib.rs): sessions by handle, each with at     *)
(* most one publisher task that is fed through a bounded channel.          *)
(*                                                                         *)
(* Three threads meet here: the thread that controls the application       *)
(* (open, poll, stop, close), the encoder's callback (frame), and the task.*)
(* A poll holds no lock while it waits for the Server, so it is two steps  *)
(* of whoever calls it; the rest of each call is one, under the session's  *)
(* mutex.                                                                  *)
(*                                                                         *)
(* Dropping a worker aborts its task, which ends at its next await; a      *)
(* frame it is writing then may still get out.  The frame being written is *)
(* counted as gone from the channel, timestamps grow and no access unit of *)
(* a 720p picture is near the limit of 4 MiB, so nothing is skipped or     *)
(* refused for these reasons.                                              *)
(***************************************************************************)
EXTENDS Naturals, Sequences

CONSTANTS
    Handles,        \* the handles the registry gives out
    Sources,        \* encoder sessions: their parameter sets and frames
    NoSource,       \* parameter sets that are empty
    QueueSize       \* room of the channel (4 in the code)

ASSUME QueueSizeAssumption == QueueSize \in Nat \ {0}
ASSUME NoSourceAssumption == NoSource \notin Sources

VARIABLE sessions   \* the registry: a worker for each open session

Tasks == {"closed", "none", "connecting", "connected", "closing", "finished"}

\* history: follows says that this is a key frame, or that the frame before it, on
\* which it depends, went into the same channel.
Frame == [source: Sources, key: BOOLEAN, follows: BOOLEAN]

\* history: gap says that a frame was left out since the last key frame queued.
Worker ==
    [task: Tasks, announced: Sources \cup {NoSource}, frames: Seq(Frame),
     needsKeyframe: BOOLEAN, gap: BOOLEAN]

Started(sets) ==
    [task |-> "connecting", announced |-> sets, frames |-> <<>>,
     needsKeyframe |-> TRUE, gap |-> TRUE]

NoPublisher == [Started(NoSource) EXCEPT !.task = "none"]

Closed == [NoPublisher EXCEPT !.task = "closed"]
IsOpen(h) == sessions[h].task # "closed"

PublisherInit == sessions = [h \in Handles |-> Closed]

-----------------------------------------------------------------------------
(* The calls of the controlling thread.                                    *)

OpenSession(h) == sessions' = [sessions EXCEPT ![h] = NoPublisher]

StopPublisher(h) == sessions' = [sessions EXCEPT ![h] = NoPublisher]

CloseSession(h) == sessions' = [sessions EXCEPT ![h] = Closed]

\* What a poll does with the Server's answer: it keeps a worker that has not
\* finished, whatever parameter sets this poll brings.
Reconciled(worker, granted, sets) ==
    IF ~granted THEN NoPublisher
    ELSE IF worker.task \in {"none", "finished"} THEN Started(sets)
    ELSE worker

PollAnswered(h, granted, sets) ==
    sessions' = [sessions EXCEPT ![h] = Reconciled(@, granted, sets)]

-----------------------------------------------------------------------------
(* A frame of the encoder.                                                 *)

Wanted(worker, key) ==
    /\ worker.task = "connected"
    /\ worker.needsKeyframe => key

Fits(worker) == Len(worker.frames) < QueueSize

Accepts(worker, key) == Wanted(worker, key) /\ Fits(worker)

OverrunSilently(worker) == [worker EXCEPT !.gap = TRUE]

Overrun(worker) == [worker EXCEPT !.needsKeyframe = TRUE, !.gap = TRUE]

Queued(worker, source, key) ==
    [worker EXCEPT
        !.frames = Append(@, [source |-> source, key |-> key, follows |-> key \/ ~worker.gap]),
        !.needsKeyframe = @ /\ ~key,
        !.gap = @ /\ ~key]

Offered(worker, source, key) ==
    IF Accepts(worker, key) THEN Queued(worker, source, key)
    ELSE IF Wanted(worker, key) THEN Overrun(worker)
    ELSE [worker EXCEPT !.gap = TRUE]

-----------------------------------------------------------------------------
(* The publisher task.                                                     *)

Connects(h) ==
    /\ sessions[h].task = "connecting"
    /\ sessions[h].announced # NoSource
    /\ sessions' = [sessions EXCEPT ![h].task = "connected"]

ConnectFails(h) ==
    /\ sessions[h].task = "connecting"
    /\ sessions' = [sessions EXCEPT ![h].task = "finished"]

Writes(h) ==
    /\ sessions[h].task = "connected"
    /\ sessions[h].frames # <<>>
    /\ sessions' = [sessions EXCEPT ![h].frames = Tail(@)]

\* The loop is left with an error; what is still in the channel is never read.
WriteFails(h) ==
    /\ sessions[h].task = "connected"
    /\ sessions[h].frames # <<>>
    /\ sessions' = [sessions EXCEPT ![h].task = "closing", ![h].frames = <<>>]

TornDown(h) ==
    /\ sessions[h].task = "closing"
    /\ sessions' = [sessions EXCEPT ![h].task = "finished"]

TaskStep(h) ==
    /\ IsOpen(h)
    /\ \/ Connects(h)
       \/ ConnectFails(h)
       \/ Writes(h)
       \/ WriteFails(h)
       \/ TornDown(h)
=============================================================================
