----------------------------- MODULE IosCapture ------------------------------
(***************************************************************************)
(* The iOS application (src/clients/ios/XcocCamera): CameraStore on the    *)
(* main thread and its queue "control", CameraEncoder on its queue "xcoc.  *)
(* camera" and in the callbacks of the video encoder, and the library of   *)
(* MobilePublisher below both.                                             *)
(*                                                                         *)
(* A queue is a sequence of blocks, run one after the other; a block that  *)
(* can be overtaken in the middle by another thread stays at the head      *)
(* under a new name until it ends.  Two CaptureGeneration objects tell     *)
(* late blocks from current ones: `owner` (CameraStore.lifecycle) and      *)
(* `captureGen` (CameraEncoder.lifecycle); a start gets the next number    *)
(* for both, and its session that number as its handle.                    *)
(*                                                                         *)
(* Left out: pairing, the text of the status line, and encoder output that *)
(* is malformed.                                                           *)
(***************************************************************************)
EXTENDS MobilePublisher

CONSTANTS
    MaxStarts,      \* bound on presses of the start button
    PipelineSize    \* bound on frames inside the video encoder

ASSUME MaxStartsAssumption == MaxStarts \in Nat /\ PipelineSize \in Nat \ {0}

Generations == 1 .. MaxStarts
Nil == 0

\* A start's session has the start's number as its handle, and so have the frames and
\* the parameter sets of its encoder session.
ASSUME HandlesAssumption == Handles = Generations /\ Sources = Generations

VARIABLES
    running, stopping,      \* the flags of CameraStore, main thread only
    foreground,             \* the application is active
    presses, asking,        \* starts pressed; permission requests open
    main, control, encoder, \* the three queues
    owner, begun,           \* the current generation of the store; the last one
    handle, sets, timer,    \* CameraStore: session, sps and pps, generation polled for
    captureGen,             \* the current generation of the encoder
    capturing,              \* the camera is on
    encoding,               \* CameraEncoder.running, by generation
    compressor,             \* the encoder session, by generation
    force,                  \* forceKeyframe
    pipeline, delivering    \* frames in the encoder session; the callback's frame

userVars == <<foreground, presses, asking>>
storeVars == <<running, stopping, owner, begun>>
controlVars == <<handle, sets, timer>>
encoderVars == <<capturing, encoding, compressor, force>>
frameVars == <<pipeline, delivering>>
queueVars == <<main, control, encoder>>
vars == <<userVars, storeVars, controlVars, captureGen, encoderVars, frameVars,
          queueVars, sessions>>

\* A block: what it does, and the generation or parameter sets it captured.
Block(do, gen) == [do |-> do, gen |-> gen]

At(queue, do) == queue # <<>> /\ Head(queue).do = do
Becomes(queue, do) == <<Block(do, Head(queue).gen)>> \o Tail(queue)
Queues(queue, do) == \E i \in DOMAIN queue : queue[i].do = do

\* The block at the head has begun.
Underway(queue) ==
    \E do \in {"opened", "hand over", "polling", "last poll", "forget",
               "configured", "complete frames"} : At(queue, do)

Init ==
    /\ PublisherInit
    /\ running = FALSE /\ stopping = FALSE /\ foreground = TRUE
    /\ presses = 0 /\ asking = 0 /\ owner = Nil /\ begun = Nil
    /\ main = <<>> /\ control = <<>> /\ encoder = <<>>
    /\ handle = Nil /\ sets = NoSource /\ timer = Nil
    /\ captureGen = Nil /\ capturing = FALSE /\ encoding = Nil /\ compressor = Nil
    /\ force = TRUE /\ pipeline = <<>> /\ delivering = <<>>

-----------------------------------------------------------------------------
(* The user and the system, on the main thread.                            *)

\* stop() of the store.  The blocks it queues run after what is queued there now.
StopEffects ==
    /\ running' = FALSE /\ stopping' = TRUE
    /\ owner' = Nil /\ captureGen' = Nil
    /\ control' = Append(control, Block("cancel timer", Nil))
    /\ encoder' = Append(encoder, Block("stop", Nil))
    /\ UNCHANGED begun

StopIfRunning ==
    IF running THEN StopEffects
    ELSE UNCHANGED <<storeVars, captureGen, control, encoder>>

Press ==
    /\ presses < MaxStarts /\ foreground /\ ~running /\ ~stopping
    /\ presses' = presses + 1 /\ asking' = asking + 1
    /\ UNCHANGED <<foreground, storeVars, controlVars, captureGen, encoderVars, frameVars,
                   queueVars, sessions>>

PermissionAnswered ==
    /\ asking > 0
    /\ asking' = asking - 1
    /\ \/ main' = Append(main, Block("start", Nil))
       \/ UNCHANGED main
    /\ UNCHANGED <<foreground, presses, storeVars, controlVars, captureGen, encoderVars,
                   frameVars, control, encoder, sessions>>

PressStop ==
    /\ running /\ foreground
    /\ StopEffects
    /\ UNCHANGED <<userVars, controlVars, encoderVars, frameVars, main, sessions>>

EnterBackground ==
    /\ foreground
    /\ foreground' = FALSE
    /\ StopIfRunning
    /\ UNCHANGED <<presses, asking, controlVars, encoderVars, frameVars, main, sessions>>

EnterForeground ==
    /\ ~foreground
    /\ foreground' = TRUE
    /\ UNCHANGED <<presses, asking, storeVars, controlVars, captureGen, encoderVars,
                   frameVars, queueVars, sessions>>

-----------------------------------------------------------------------------
(* Blocks on the main queue.                                               *)

MayStartInBackground == ~running /\ ~stopping

MayStartWhileStopping == ~running /\ foreground

MayStart == ~running /\ ~stopping /\ foreground

Start ==
    /\ At(main, "start")
    /\ IF MayStart
       THEN /\ running' = TRUE
            /\ begun' = begun + 1 /\ owner' = begun + 1
            /\ control' = Append(control, Block("start", begun + 1))
       ELSE UNCHANGED <<running, begun, owner, control>>
    /\ main' = Tail(main)
    /\ UNCHANGED <<userVars, stopping, controlVars, captureGen, encoderVars, frameVars,
                   encoder, sessions>>

\* The session could not be opened.
StartFailed ==
    /\ At(main, "start failed")
    /\ IF owner = Head(main).gen
       THEN owner' = Nil /\ running' = FALSE
       ELSE UNCHANGED <<owner, running>>
    /\ main' = Tail(main)
    /\ UNCHANGED <<userVars, stopping, begun, controlVars, captureGen, encoderVars,
                   frameVars, control, encoder, sessions>>

\* onFailure of the encoder; the generation is history, the code does not keep it.
CaptureFailed ==
    /\ At(main, "failed")
    /\ StopIfRunning
    /\ main' = Tail(main)
    /\ UNCHANGED <<userVars, controlVars, encoderVars, frameVars, sessions>>

StopDone ==
    /\ At(main, "stopped")
    /\ stopping' = FALSE
    /\ main' = Tail(main)
    /\ UNCHANGED <<userVars, running, owner, begun, controlVars, captureGen, encoderVars,
                   frameVars, control, encoder, sessions>>

MainStep == Start \/ StartFailed \/ CaptureFailed \/ StopDone

-----------------------------------------------------------------------------
(* Blocks on the control queue.  A start opens a session, looks at its     *)
(* generation once more, and hands over to the encoder and the timer.      *)

Open ==
    /\ At(control, "start")
    /\ LET gen == Head(control).gen
       IN  \/ /\ owner # gen
              /\ control' = Tail(control)
              /\ UNCHANGED <<main, sessions>>
           \/ /\ owner = gen
              /\ OpenSession(gen)
              /\ control' = Becomes(control, "opened")
              /\ UNCHANGED main
           \/ /\ owner = gen      \* the keychain or the library refuses
              /\ control' = Tail(control)
              /\ main' = Append(main, Block("start failed", gen))
              /\ UNCHANGED sessions
    /\ UNCHANGED <<userVars, storeVars, controlVars, captureGen, encoderVars, frameVars,
                   encoder>>

Opened ==
    /\ At(control, "opened")
    /\ LET gen == Head(control).gen
       IN  IF owner = gen
           THEN control' = Becomes(control, "hand over") /\ UNCHANGED sessions
           ELSE control' = Tail(control) /\ CloseSession(gen)
    /\ UNCHANGED <<userVars, storeVars, controlVars, captureGen, encoderVars, frameVars,
                   main, encoder>>

\* encoder.start begins a generation of its own, even if stop() came first.
HandOver ==
    /\ At(control, "hand over")
    /\ LET gen == Head(control).gen
       IN  /\ handle' = gen /\ sets' = NoSource /\ timer' = gen
           /\ captureGen' = gen
           /\ encoder' = Append(encoder, Block("start", gen))
    /\ control' = Tail(control)
    /\ UNCHANGED <<userVars, storeVars, encoderVars, frameVars, main, sessions>>

CancelTimer ==
    /\ At(control, "cancel timer")
    /\ timer' = Nil
    /\ control' = Tail(control)
    /\ UNCHANGED <<userVars, storeVars, handle, sets, captureGen, encoderVars, frameVars,
                   main, encoder, sessions>>

\* The timer's handler runs between two blocks of the queue.  Its request takes
\* along the parameter sets of now; without them it says that the camera is not
\* active.
Poll ==
    /\ timer # Nil /\ owner = timer /\ handle # Nil
    /\ ~Underway(control)
    /\ control' = <<Block("polling", sets)>> \o control
    /\ UNCHANGED <<userVars, storeVars, controlVars, captureGen, encoderVars, frameVars,
                   main, encoder, sessions>>

PollEnds ==
    /\ At(control, "polling")
    /\ \/ UNCHANGED sessions
       \/ \E grant \in BOOLEAN :
            PollAnswered(handle, grant /\ Head(control).gen # NoSource, Head(control).gen)
    /\ control' = Tail(control)
    /\ UNCHANGED <<userVars, storeVars, controlVars, captureGen, encoderVars, frameVars,
                   main, encoder>>

FinishOnlyOpen ==
    /\ At(control, "finish")
    /\ handle # Nil
    /\ StopPublisher(handle)
    /\ control' = Becomes(control, "last poll")
    /\ UNCHANGED <<userVars, storeVars, controlVars, captureGen, encoderVars, frameVars,
                   main, encoder>>

\* What stop() does once the encoder has stopped.  A last poll tells the Server
\* that the camera is off; then the session is closed.
Finish ==
    /\ At(control, "finish")
    /\ IF handle # Nil
       THEN /\ StopPublisher(handle)
            /\ control' = Becomes(control, "last poll")
            /\ UNCHANGED main
       ELSE /\ control' = Tail(control)
            /\ main' = Append(main, Block("stopped", Nil))
            /\ UNCHANGED sessions
    /\ UNCHANGED <<userVars, storeVars, controlVars, captureGen, encoderVars, frameVars,
                   encoder>>

Close ==
    /\ At(control, "last poll")
    /\ CloseSession(handle)
    /\ control' = Becomes(control, "forget")
    /\ UNCHANGED <<userVars, storeVars, controlVars, captureGen, encoderVars, frameVars,
                   main, encoder>>

Forget ==
    /\ At(control, "forget")
    /\ handle' = Nil
    /\ control' = Tail(control)
    /\ main' = Append(main, Block("stopped", Nil))
    /\ UNCHANGED <<userVars, storeVars, sets, timer, captureGen, encoderVars, frameVars,
                   encoder, sessions>>

ControlStep ==
    \/ Open \/ Opened \/ HandOver \/ CancelTimer \/ PollEnds
    \/ Finish \/ Close \/ Forget

-----------------------------------------------------------------------------
(* Blocks on the encoder's queue, the camera's samples among them.         *)

CurrentCapture(gen) == captureGen = gen

Current(gen) == captureGen = gen /\ owner = gen

Configure ==
    /\ At(encoder, "start")
    /\ encoder' = IF encoding = Nil /\ Current(Head(encoder).gen)
                  THEN Becomes(encoder, "configured") ELSE Tail(encoder)
    /\ UNCHANGED <<userVars, storeVars, controlVars, captureGen, encoderVars, frameVars,
                   main, control, sessions>>

StartRunning ==
    /\ At(encoder, "configured")
    /\ LET gen == Head(encoder).gen
       IN  IF Current(gen) THEN encoding' = gen /\ capturing' = TRUE
           ELSE UNCHANGED <<encoding, capturing>>
    /\ encoder' = Tail(encoder)
    /\ UNCHANGED <<userVars, storeVars, controlVars, captureGen, compressor, force,
                   frameVars, main, control, sessions>>

ConfigureFails ==
    /\ At(encoder, "configured")
    /\ LET gen == Head(encoder).gen
       IN  main' = IF Current(gen) THEN Append(main, Block("failed", gen)) ELSE main
    /\ encoding' = Nil
    /\ encoder' = Tail(encoder)
    /\ UNCHANGED <<userVars, storeVars, controlVars, captureGen, capturing, compressor,
                   force, frameVars, control, sessions>>

\* The camera's samples come to the same queue: one is taken between any two
\* blocks while the camera is on.  (The answers to earlier frames have been taken:
\* those that are still in the queue were given after this sample came.)
Sample ==
    /\ capturing /\ encoding # Nil
    /\ ~Underway(encoder) /\ ~Queues(encoder, "accepted") /\ ~Queues(encoder, "refused")

\* The first frame of an encoder session is a key frame, and so is one that is
\* forced; the encoder may choose others.
Encode ==
    /\ Sample
    /\ Len(pipeline) < PipelineSize
    /\ compressor' = IF compressor = Nil THEN encoding ELSE compressor
    /\ \E key \in BOOLEAN :
         /\ (compressor = Nil \/ force) => key
         /\ pipeline' = Append(pipeline, [source |-> compressor', key |-> key])
    /\ UNCHANGED <<userVars, storeVars, controlVars, captureGen, capturing, encoding, force,
                   delivering, queueVars, sessions>>

EncodeFailsSilently ==
    /\ Sample
    /\ encoding' = Nil
    /\ UNCHANGED <<userVars, storeVars, controlVars, captureGen, capturing, compressor,
                   force, frameVars, queueVars, sessions>>

\* The encoder session cannot be created, or refuses the picture.
EncodeFails ==
    /\ Sample
    /\ main' = Append(main, Block("failed", encoding))
    /\ encoding' = Nil
    /\ UNCHANGED <<userVars, storeVars, controlVars, captureGen, capturing, compressor,
                   force, frameVars, control, encoder, sessions>>

SetForceOnce ==
    /\ At(encoder, "accepted") \/ At(encoder, "refused")
    /\ force' = FALSE
    /\ encoder' = Tail(encoder)
    /\ UNCHANGED <<userVars, storeVars, controlVars, captureGen, capturing, encoding,
                   compressor, frameVars, main, control, sessions>>

SetForce ==
    /\ \/ At(encoder, "accepted") /\ force' = FALSE
       \/ At(encoder, "refused") /\ force' = TRUE
    /\ encoder' = Tail(encoder)
    /\ UNCHANGED <<userVars, storeVars, controlVars, captureGen, capturing, encoding,
                   compressor, frameVars, main, control, sessions>>

StopCamera ==
    /\ At(encoder, "stop")
    /\ encoding' = Nil /\ capturing' = FALSE
    /\ encoder' = Becomes(encoder, "complete frames")
    /\ UNCHANGED <<userVars, storeVars, controlVars, captureGen, compressor, force,
                   frameVars, main, control, sessions>>

DrainedAtOnce == TRUE

\* Completing the frames waits for the callbacks.
Drained == pipeline = <<>> /\ delivering = <<>>

CompleteFrames ==
    /\ At(encoder, "complete frames")
    /\ Drained
    /\ compressor' = Nil /\ force' = TRUE
    /\ control' = Append(control, Block("finish", Nil))
    /\ encoder' = Tail(encoder)
    /\ UNCHANGED <<userVars, storeVars, controlVars, captureGen, capturing, encoding,
                   frameVars, main, sessions>>

EncoderStep ==
    \/ Configure \/ StartRunning \/ ConfigureFails \/ SetForce \/ StopCamera \/ CompleteFrames

-----------------------------------------------------------------------------
(* The video encoder's callback: it notes the parameter sets, reads the    *)
(* handle, lets go of the lock and gives the frame to the library.         *)

Encoded ==
    /\ pipeline # <<>> /\ delivering = <<>>
    /\ sets' = Head(pipeline).source
    /\ delivering' = <<[frame |-> Head(pipeline), handle |-> handle]>>
    /\ pipeline' = Tail(pipeline)
    /\ UNCHANGED <<userVars, storeVars, handle, timer, captureGen, encoderVars, queueVars,
                   sessions>>

Deliver ==
    /\ delivering # <<>>
    /\ LET frame == delivering[1].frame
           to == delivering[1].handle
           open == to # Nil /\ IsOpen(to)
       IN  /\ sessions' = IF open
                          THEN [sessions EXCEPT ![to] = Offered(@, frame.source, frame.key)]
                          ELSE sessions
           /\ encoder' = Append(encoder,
                  Block(IF open /\ Accepts(sessions[to], frame.key) THEN "accepted"
                        ELSE "refused", Nil))
    /\ delivering' = <<>>
    /\ UNCHANGED <<userVars, storeVars, controlVars, captureGen, encoderVars, pipeline,
                   main, control>>

PublisherTask ==
    /\ \E h \in Handles : TaskStep(h)
    /\ UNCHANGED <<userVars, storeVars, controlVars, captureGen, encoderVars, frameVars,
                   queueVars>>

-----------------------------------------------------------------------------
UserStep == Press \/ PermissionAnswered \/ PressStop \/ EnterBackground \/ EnterForeground

Next ==
    \/ UserStep \/ MainStep \/ ControlStep \/ Poll
    \/ EncoderStep \/ Encode \/ EncodeFails \/ Encoded \/ Deliver \/ PublisherTask

Spec == Init /\ [][Next]_vars

\* Every queue is served, the Server's answers and the writes have time limits,
\* and a camera that is on delivers pictures.
Fairness ==
    /\ WF_vars(MainStep) /\ WF_vars(ControlStep) /\ WF_vars(EncoderStep)
    /\ WF_vars(Encode) /\ WF_vars(Encoded) /\ WF_vars(Deliver)
    /\ WF_vars(PublisherTask)

FairSpec == Spec /\ Fairness

-----------------------------------------------------------------------------
(***************************************************************************)
(* What the application promises.                                          *)
(***************************************************************************)
\* Once the store says that it has stopped, nothing of any start is left or can
\* come back: no camera, no frame, no timer, no publisher.  stop() says "no camera
\* frames survive stop", and that a late encoder.start is rejected.
NothingSurvivesStop ==
    ~running /\ ~stopping =>
        /\ ~capturing /\ encoding = Nil /\ pipeline = <<>> /\ delivering = <<>>
        /\ timer = Nil /\ handle = Nil
        /\ \A h \in Handles : sessions[h].task \in {"closed", "none"}

\* A frame is never given to a session that has been closed: stop() says that the
\* encoder stops before the handle is destroyed, though its callbacks run on
\* threads of their own.
FramesReachOpenSession ==
    \A i \in DOMAIN delivering :
        delivering[i].handle # Nil => IsOpen(delivering[i].handle)

\* Every frame that a publisher queues can be decoded: it is a key frame, or the one
\* before it went into the same channel, so that after any loss the next is a key
\* frame (docs/mobile.md: an overrun asks for the next IDR to recover); and it comes
\* from the encoder session whose parameter sets were announced, although a poll
\* takes the sets, the callback writes them, and the start of the next capture clears
\* them on three threads.
WireDecodable ==
    \A h \in Handles : \A i \in DOMAIN sessions[h].frames :
        LET frame == sessions[h].frames[i] IN
        /\ frame.key \/ frame.follows
        /\ frame.source = sessions[h].announced

\* The failure of one capture, which carries no generation, never stops a later
\* one: it reaches the main thread before stop() is over.
FailureIsCurrent ==
    \A i \in DOMAIN main :
        main[i].do = "failed" /\ running => main[i].gen = owner

\* A stop comes to its end, and the user may start again, whatever the start it
\* interrupts had done and though polls, callbacks and the drain of the encoder
\* stand in its way.
StopFinishes == stopping ~> ~stopping

\* The camera does not stay on in the background (docs/platforms/ios.md), not even
\* if the permission is given there.
BackgroundReleases == ~foreground ~> ~capturing

\* An encoder that has failed does not keep the camera on.
FailureReleases == (capturing /\ encoding = Nil) ~> ~capturing

\* A publisher that waits for a key frame gets one or ends: requests that are
\* overtaken by the answers to earlier frames are made again.
KeyframeComes ==
    \A h \in Handles :
        LET Waits == sessions[h].task = "connected" /\ sessions[h].needsKeyframe
        IN  Waits ~> ~Waits
=============================================================================
