----------------------- MODULE MediaSupervisionProofs --------------------------
(***************************************************************************)
(* Proofs about MediaSupervision: a camera never has two recorders nor two *)
(* publishers, no worker is killed before its grace period is over, each   *)
(* one reads its camera as the configuration in force describes it, and a  *)
(* recorder at work is left alone.                                         *)
(***************************************************************************)
EXTENDS MediaSupervision, TLAPS

(***************************************************************************)
(* The inductive invariant.  The workers this runtime holds have different *)
(* keys.  At most one is being started, by the pass, for the camera it is  *)
(* visiting.  The pass itself owns none, an ending run has no children     *)
(* left and a process that is down holds nothing.  A resolved device, a    *)
(* child and a worker being started are of the camera's current            *)
(* generation, and recorders are of cameras that are to be recorded.       *)
(***************************************************************************)
Held == Used \ Owned("orphan")

MediaTypeOK ==
    /\ phase \in Loop \cup {"ending", "down"}
    /\ config \in [Cameras -> Settings] /\ loaded \in [Cameras -> Settings]
    /\ todo \in SUBSET Cameras /\ granted \in SUBSET Cameras
    /\ generation \in [Cameras -> Nat] /\ source \in [Cameras -> Nat]
    /\ workers \in [Slots -> Worker \cup {NoWorker}]
    /\ cut \in BOOLEAN

DistinctKeys == \A s, t \in Held : workers[s].key = workers[t].key => s = t

SourceCurrent == \A cam \in Cameras : source[cam] \in {NotResolved, generation[cam]}

OneStart ==
    \A s \in Owned("starting") :
        /\ phase \in {"recorders", "publishers", "ending"}
        /\ \A t \in Owned("starting") : s = t
        /\ phase # "ending" => /\ workers[s].key = Wanted(workers[s].key[1])
                               /\ workers[s].key[1] \in todo

HeldWhere ==
    /\ Owned("pass") = {}
    /\ phase = "ending" => Owned("children") = {}
    /\ phase = "down" => Held = {}

WorkersCurrent ==
    phase \in Loop => \A s \in Owned("children") \cup Owned("starting") :
        /\ workers[s].source = generation[workers[s].key[1]]
        /\ workers[s].key[2] = "record" => workers[s].key[1] \in Recorded

RecordersAsked == phase = "recorders" => todo \subseteq Recorded

MInv ==
    /\ MediaTypeOK
    /\ DistinctKeys
    /\ SourceCurrent
    /\ OneStart
    /\ HeldWhere
    /\ WorkersCurrent
    /\ RecordersAsked
    /\ TrailersWritten

-----------------------------------------------------------------------------
(***************************************************************************)
(* Workers and slots.                                                      *)
(***************************************************************************)
WorkerStates == {"starting", "running", "finalizing", "exited", "failed"}

LEMMA WorkerFields ==
    ASSUME NEW w \in Worker
    PROVE  /\ w.key \in Keys /\ w.key[1] \in Cameras /\ w.key[2] \in {"record", "publish"}
           /\ w.owner \in Owners /\ w.source \in Nat /\ w.state \in WorkerStates
           /\ w # NoWorker
  BY MediaAssumption DEF Worker, Keys, WorkerStates

LEMMA WorkerState ==
    ASSUME NEW w \in Worker, NEW x \in WorkerStates
    PROVE  LET n == [w EXCEPT !.state = x]
           IN  /\ n \in Worker
               /\ n.key = w.key /\ n.source = w.source /\ n.owner = w.owner /\ n.state = x
  BY DEF Worker, WorkerStates

LEMMA WorkerOwner ==
    ASSUME NEW w \in Worker, NEW o \in Owners
    PROVE  LET n == [w EXCEPT !.owner = o]
           IN  /\ n \in Worker
               /\ n.key = w.key /\ n.source = w.source /\ n.owner = o /\ n.state = w.state
  BY DEF Worker

LEMMA WorkerStop ==
    ASSUME NEW w \in Worker, NEW o \in Owners
    PROVE  LET n == [w EXCEPT !.owner = o, !.state = "finalizing"]
           IN  /\ n \in Worker
               /\ n.key = w.key /\ n.source = w.source /\ n.owner = o /\ n.state = "finalizing"
  <1>1. [w EXCEPT !.owner = o, !.state = "finalizing"]
            = [[w EXCEPT !.owner = o] EXCEPT !.state = "finalizing"]
    BY DEF Worker
  <1>2. "finalizing" \in WorkerStates
    BY DEF WorkerStates
  <1> DEFINE m == [w EXCEPT !.owner = o]
  <1>3. m \in Worker /\ m.key = w.key /\ m.source = w.source /\ m.owner = o
    BY WorkerOwner
  <1> HIDE DEF m
  <1>4. LET n == [m EXCEPT !.state = "finalizing"]
        IN  /\ n \in Worker
            /\ n.key = w.key /\ n.source = w.source /\ n.owner = o /\ n.state = "finalizing"
    BY <1>2, <1>3, WorkerState
  <1> QED BY <1>1, <1>4 DEF m

LEMMA SlotOfMInv ==
    ASSUME MInv, NEW s \in Slots
    PROVE  /\ workers[s] \in Worker \cup {NoWorker}
           /\ s \in Used <=> workers[s] \in Worker
           /\ s \in Used <=> workers[s] # NoWorker
  BY MediaAssumption DEF MInv, MediaTypeOK, Used

\* The worker in s, if it stays, is the same one, and its Child changes hands only
\* to be stopped or abandoned.
Same(s) ==
    workers'[s] # NoWorker =>
        /\ workers[s] # NoWorker
        /\ workers'[s].key = workers[s].key
        /\ workers'[s].source = workers[s].source
        /\ \/ workers'[s].owner = workers[s].owner
           \/ workers'[s].owner = "orphan"
           \/ workers'[s].owner = "stopping" /\ workers[s].owner \in {"children", "starting"}

LEMMA UnchangedSame ==
    ASSUME NEW s, workers'[s] = workers[s]
    PROVE  Same(s)
  BY DEF Same

\* stop_media_children.
LEMMA StopChildrenSame ==
    ASSUME MInv, NEW S \in SUBSET (Owned("children") \cup Owned("starting")),
           workers' = StopChildren(S)
    PROVE  /\ workers' \in [Slots -> Worker \cup {NoWorker}]
           /\ \A s \in Slots : Same(s)
           /\ \A s \in Slots \ S : workers'[s] = workers[s]
           /\ \A s \in S : workers'[s] = NoWorker \/ workers'[s].owner = "stopping"
  <1>1. ASSUME NEW s \in Slots
        PROVE  /\ s \notin S => workers'[s] = workers[s]
               /\ s \in S => \/ workers'[s] = NoWorker
                             \/ workers'[s] = [workers[s] EXCEPT !.owner = "stopping",
                                                                 !.state = "finalizing"]
    BY DEF StopChildren
  <1>2. ASSUME NEW s \in S
        PROVE  /\ workers[s].owner \in {"children", "starting"} /\ workers[s] # NoWorker
               /\ workers'[s] # NoWorker =>
                    /\ workers'[s] \in Worker /\ workers'[s].key = workers[s].key
                    /\ workers'[s].source = workers[s].source /\ workers'[s].owner = "stopping"
    <2> DEFINE n == [workers[s] EXCEPT !.owner = "stopping", !.state = "finalizing"]
    <2>1. s \in Slots /\ s \in Used /\ workers[s].owner \in {"children", "starting"}
      BY DEF Owned, Used
    <2>2. workers[s] \in Worker /\ "stopping" \in Owners
      BY <2>1, SlotOfMInv DEF Owners
    <2>3. n \in Worker /\ n.key = workers[s].key /\ n.source = workers[s].source
            /\ n.owner = "stopping"
      BY <2>2, WorkerStop
    <2>4. workers'[s] # NoWorker => workers'[s] = n
      BY <1>1, <2>1
    <2> HIDE DEF n
    <2> QED BY <2>1, <2>2, <2>3, <2>4, WorkerFields
  <1>3. S \subseteq Slots
    BY DEF Owned, Used
  <1>4. ASSUME NEW s \in Slots
        PROVE  Same(s) /\ workers'[s] \in Worker \cup {NoWorker}
    <2>1. CASE s \notin S
      BY <1>1, <2>1, SlotOfMInv DEF Same
    <2>2. CASE workers'[s] = NoWorker
      BY <2>2 DEF Same
    <2>3. CASE s \in S /\ workers'[s] # NoWorker
      BY <1>2, <2>3, Zenon DEF Same
    <2> QED BY <2>1, <2>2, <2>3
  <1>5. workers' = [s \in Slots |-> workers'[s]]
    BY DEF StopChildren
  <1>6. ASSUME NEW s \in S PROVE workers'[s] = NoWorker \/ workers'[s].owner = "stopping"
    BY <1>1, <1>2, <1>3, Zenon
  <1> QED BY <1>1, <1>4, <1>5, <1>6

-----------------------------------------------------------------------------
(***************************************************************************)
(* Steps that start nothing.                                               *)
(***************************************************************************)
LEMMA MediaFrame ==
    ASSUME MInv, MediaTypeOK', SourceCurrent', RecordersAsked', cut' = cut,
           \A s \in Slots : Same(s),
           Owned("starting")' # {} => phase' = "ending" \/ (phase' = phase /\ todo' = todo),
           phase' = "ending" => phase = "ending" \/ Owned("children")' = {},
           phase' = "down" => Held' = {},
           phase' \in Loop => Held' = {} \/ phase \in Loop,
           phase' \in Loop => Held' = {} \/
             \A s \in Owned("children")' \cup Owned("starting")' :
                LET cam == workers[s].key[1]
                IN  /\ generation'[cam] = generation[cam]
                    /\ workers[s].key[2] = "record" => (cam \in Recorded => cam \in Recorded')
    PROVE  MInv'
  <1> USE DEF MInv
  <1>1. \A s \in Slots : s \in Used' => s \in Used /\ (s \in Held' => s \in Held)
    BY DEF Same, Used, Held, Owned
  <1>2. Used' \subseteq Slots /\ Held' \subseteq Used'
    BY DEF Used, Held
  <1>3. DistinctKeys'
    BY <1>1, <1>2 DEF DistinctKeys, Same, Used
  <1>4. \A o \in {"children", "starting", "pass"} : \A s \in Owned(o)' :
            s \in Slots /\ s \in Owned(o) /\ s \in Held' /\ workers'[s].key = workers[s].key
              /\ workers'[s].source = workers[s].source
    BY DEF Same, Owned, Used, Held
  <1>5. OneStart'
    <2> SUFFICES ASSUME NEW s \in Owned("starting")'
                 PROVE  /\ phase' \in {"recorders", "publishers", "ending"}
                        /\ \A t \in Owned("starting")' : s = t
                        /\ phase' # "ending" => /\ workers'[s].key = Wanted(workers[s].key[1])'
                                                /\ workers'[s].key[1] \in todo'
      BY DEF OneStart
    <2>1. s \in Owned("starting") /\ workers'[s].key = workers[s].key
      BY <1>4
    <2>2. \A t \in Owned("starting")' : t \in Owned("starting")
      BY <1>4
    <2> QED BY <2>1, <2>2 DEF OneStart, Wanted
  <1>6. HeldWhere'
    <2>1. Owned("pass")' = {}
      BY <1>4 DEF HeldWhere
    <2>2. phase' = "ending" => Owned("children")' = {}
      BY <1>4 DEF HeldWhere
    <2> QED BY <2>1, <2>2 DEF HeldWhere
  <1>7. WorkersCurrent'
    <2> SUFFICES ASSUME phase' \in Loop, NEW s \in Owned("children")' \cup Owned("starting")'
                 PROVE  /\ workers'[s].source = generation'[workers'[s].key[1]]
                        /\ workers'[s].key[2] = "record" => workers'[s].key[1] \in Recorded'
      BY DEF WorkersCurrent, Loop
    <2>1. s \in Held' /\ s \in Owned("children") \cup Owned("starting")
      BY <1>4
    <2>2. phase \in Loop
      BY <2>1
    <2>3. /\ workers[s].source = generation[workers[s].key[1]]
          /\ workers[s].key[2] = "record" => workers[s].key[1] \in Recorded
      BY <2>1, <2>2 DEF WorkersCurrent
    <2> QED BY <1>4, <2>1, <2>3
  <1>8. TrailersWritten'
    BY DEF TrailersWritten
  <1> QED BY <1>3, <1>5, <1>6, <1>7, <1>8

\* What RecorderUndisturbed says of one step.
Undisturbed ==
    \A s \in Owned("children") :
        workers[s].state = "running" /\ workers[s].key[2] = "record" =>
            \/ workers'[s] # NoWorker /\ workers'[s].owner = "children"
            \/ workers[s].key[1] \in changed'
            \/ phase' \in {"ending", "down"}

LEMMA WorkersKept ==
    ASSUME MInv, UNCHANGED workers
    PROVE  Undisturbed /\ \A s \in Slots : Same(s)
  BY DEF Same, Undisturbed, Owned, Used

\* The pass goes on, or something around it happens, without a change of the
\* workers, the instances or the generations.
LEMMA QuietStep ==
    ASSUME MInv, UNCHANGED <<workers, cut, loaded, generation>>, MediaTypeOK', SourceCurrent',
           RecordersAsked',
           (phase' = phase /\ todo' = todo) \/ Owned("starting") = {},
           phase' \notin {"ending", "down"} \/ phase' = phase,
           phase' \in Loop => phase \in Loop
    PROVE  MInv' /\ Undisturbed
  <1>1. \A o \in Owners : Owned(o)' = Owned(o) /\ Held' = Held
    BY DEF Owned, Used, Held
  <1>2. /\ Owned("starting")' # {} => phase' = "ending" \/ (phase' = phase /\ todo' = todo)
        /\ phase' = "ending" => phase = "ending"
        /\ phase' = "down" => Held' = {}
    BY <1>1 DEF MInv, HeldWhere, Owners
  <1>3. \A cam : cam \in Recorded => cam \in Recorded'
    BY DEF Recorded
  <1> QED BY <1>2, <1>3, WorkersKept, MediaFrame

LEMMA WorkerStepSafe ==
    ASSUME MInv, NEW s \in Slots, WorkerStep(s)
    PROVE  MInv' /\ Undisturbed
  <1> USE DEF WorkerStep, fileVars, passVars, cameraVars
  <1>1. s \in Used /\ workers[s] \in Worker
    BY SlotOfMInv
  <1>2. /\ workers' \in [Slots -> Worker \cup {NoWorker}]
        /\ \A t \in Slots \ {s} : workers'[t] = workers[t]
        /\ workers'[s] = NoWorker \/ /\ workers'[s] \in Worker
                                     /\ workers'[s].key = workers[s].key
                                     /\ workers'[s].source = workers[s].source
                                     /\ workers'[s].owner = workers[s].owner
        /\ workers'[s] = NoWorker => workers[s].state = "finalizing"
    <2>1. workers \in [Slots -> Worker \cup {NoWorker}]
      BY DEF MInv, MediaTypeOK
    <2>2. CASE \E x \in WorkerStates : workers' = [workers EXCEPT ![s] = [workers[s] EXCEPT !.state = x]]
      <3>1. PICK x \in WorkerStates : workers' = [workers EXCEPT ![s] = [workers[s] EXCEPT !.state = x]]
        BY <2>2
      <3> DEFINE n == [workers[s] EXCEPT !.state = x]
      <3>2. n \in Worker /\ n.key = workers[s].key /\ n.source = workers[s].source /\ n.owner = workers[s].owner
        BY <1>1, WorkerState
      <3>3. workers' = [workers EXCEPT ![s] = n]
        BY <3>1
      <3> HIDE DEF n
      <3> QED BY <2>1, <3>2, <3>3, WorkerFields
    <2>3. CASE workers' = [workers EXCEPT ![s] = NoWorker] /\ workers[s].state = "finalizing"
      BY <2>1, <2>3
    <2>4. CASE Begins(s)
      BY <2>2, <2>4 DEF Begins, WorkerStates
    <2>5. CASE StartBreaks(s)
      BY <2>2, <2>5 DEF StartBreaks, WorkerStates
    <2>6. CASE Exits(s)
      BY <2>2, <2>6 DEF Exits, WorkerStates
    <2>7. CASE Finalizes(s)
      BY <2>2, <2>3, <2>7 DEF Finalizes, WorkerStates
    <2> QED BY <2>4, <2>5, <2>6, <2>7
  <1>3. \A t \in Slots : Same(t)
    BY <1>1, <1>2, WorkerFields DEF Same
  <1>4. Undisturbed
    BY <1>2, WorkerFields DEF Undisturbed, Owned, Used
  <1>5. MediaTypeOK' /\ SourceCurrent' /\ RecordersAsked'
    BY <1>2 DEF MInv, MediaTypeOK, SourceCurrent, RecordersAsked, Recorded
  <1>6. phase' = "down" => Held' = {}
    <2>1. \A t \in Slots : t \in Held' => t \in Held
      BY <1>3 DEF Same, Held, Used, Owned
    <2>2. Held' \subseteq Slots
      BY DEF Held, Used
    <2> QED BY <2>1, <2>2 DEF MInv, HeldWhere
  <1>7. \A cam : cam \in Recorded => cam \in Recorded'
    BY DEF Recorded
  <1> QED BY <1>3, <1>4, <1>5, <1>6, <1>7, MediaFrame

LEMMA RetrySafe ==
    ASSUME MInv, NEW cam \in Cameras, RetryDue(cam)
    PROVE  MInv' /\ Undisturbed
  BY QuietStep DEF RetryDue, fileVars, passVars, MInv, MediaTypeOK, SourceCurrent, RecordersAsked, Recorded

LEMMA ResolutionStepSafe ==
    ASSUME MInv, NEW t, ResolutionStep(t)
    PROVE  MInv' /\ Undisturbed
  BY QuietStep DEF ResolutionStep, ResolutionEnds, ResolutionCancelled, fileVars, passVars, cameraVars,
     MInv, MediaTypeOK, SourceCurrent, RecordersAsked, Recorded

LEMMA EditSafe ==
    ASSUME MInv, NEW cam \in Cameras, NEW setting \in Chosen[cam], EditConfig(cam, setting)
    PROVE  MInv' /\ Undisturbed
  <1>1. setting \in Settings
    BY MediaAssumption
  <1>2. MediaTypeOK'
    BY <1>1 DEF EditConfig, fileVars, passVars, cameraVars, MInv, MediaTypeOK
  <1> QED BY <1>2, QuietStep DEF EditConfig, fileVars, passVars, cameraVars,
     MInv, SourceCurrent, RecordersAsked, Recorded

LEMMA WakeSafe ==
    ASSUME MInv, WakeForResults
    PROVE  MInv' /\ Undisturbed
  <1>1. Owned("starting") = {}
    BY DEF WakeForResults, MInv, OneStart
  <1> QED BY <1>1, QuietStep DEF WakeForResults, fileVars, cameraVars, Loop,
     MInv, MediaTypeOK, SourceCurrent, RecordersAsked, Recorded

LEMMA BootSafe ==
    ASSUME MInv, Boot
    PROVE  MInv' /\ Undisturbed
  <1> USE DEF Boot, LoopStarts, fileVars
  <1>1. Held = {} /\ Held' = {} /\ Owned("starting")' = {} /\ Undisturbed /\ \A s \in Slots : Same(s)
    <2>1. Held = {} /\ Held' = {}
      BY DEF MInv, HeldWhere, Held, Used, Owned
    <2> QED BY <2>1, WorkersKept DEF Held, Owned, Used
  <1>2. MediaTypeOK'
    BY DEF MInv, MediaTypeOK, Loop, NotResolved
  <1>3. SourceCurrent' /\ RecordersAsked'
    BY DEF SourceCurrent, RecordersAsked
  <1> QED BY <1>1, <1>2, <1>3, MediaFrame

LEMMA CrashSafe ==
    ASSUME MInv, Crash
    PROVE  MInv' /\ Undisturbed
  <1> USE DEF Crash, LoopStarts
  <1>1. ASSUME NEW s \in Slots
        PROVE  /\ workers'[s] \in Worker \cup {NoWorker}
               /\ Same(s)
               /\ workers'[s] = NoWorker \/ workers'[s].owner = "orphan"
    <2> DEFINE n == [workers[s] EXCEPT !.owner = "orphan", !.state = "finalizing"]
    <2>1. workers'[s] = CASE s \notin Used -> NoWorker
                          [] s \in Used /\ Live(s) -> n
                          [] OTHER -> NoWorker
      BY <1>1
    <2>2. s \in Used => n \in Worker /\ n.key = workers[s].key /\ n.source = workers[s].source
                            /\ n.owner = "orphan"
      BY SlotOfMInv, WorkerStop DEF Owners
    <2> HIDE DEF n
    <2>3. workers'[s] = NoWorker \/ (s \in Used /\ workers'[s] = n)
      BY <2>1
    <2> HIDE DEF Crash
    <2>4. Same(s)
      BY <2>2, <2>3, SlotOfMInv DEF Same
    <2> QED BY <2>2, <2>3, <2>4
  <1>2. workers' \in [Slots -> Worker \cup {NoWorker}]
    <2>1. workers' = [s \in Slots |-> workers'[s]]
      OBVIOUS
    <2> HIDE DEF Crash
    <2> QED BY <1>1, <2>1
  <1>3. Held' = {} /\ Owned("starting")' = {}
    <2> HIDE DEF Crash
    <2> QED BY <1>1 DEF Held, Used, Owned
  <1>4. MediaTypeOK'
    <2>1. /\ config' = config /\ phase' = "down" /\ cut' = cut
          /\ loaded' = [cam \in Cameras |-> "none"] /\ todo' = {} /\ granted' = {}
          /\ generation' = [cam \in Cameras |-> 1] /\ source' = [cam \in Cameras |-> 0]
      BY DEF NotResolved
    <2> HIDE DEF Crash
    <2> QED BY <1>2, <2>1 DEF MInv, MediaTypeOK, Settings
  <1>5. SourceCurrent' /\ RecordersAsked' /\ phase' = "down" /\ cut' = cut
    BY DEF SourceCurrent, RecordersAsked
  <1>6. Undisturbed
    BY <1>5 DEF Undisturbed
  <1> HIDE DEF Crash
  <1> QED BY <1>1, <1>3, <1>4, <1>5, <1>6, MediaFrame DEF Loop

LEMMA CollectSafe ==
    ASSUME MInv, NEW t \in resolutions, Collect(t)
    PROVE  MInv' /\ Undisturbed
  <1> USE DEF Collect, fileVars, passVars
  <1>1. source' \in [Cameras -> Nat] /\ SourceCurrent'
    <2>1. CASE UNCHANGED source
      BY <2>1 DEF MInv, MediaTypeOK, SourceCurrent
    <2>2. CASE /\ t.generation = generation[t.camera]
               /\ source' = [source EXCEPT ![t.camera] = t.generation]
      BY <2>2 DEF MInv, MediaTypeOK, SourceCurrent
    <2> QED BY <2>1, <2>2 DEF Accepted, MInv, MediaTypeOK
  <1>2. MediaTypeOK' /\ RecordersAsked'
    BY <1>1 DEF MInv, MediaTypeOK, RecordersAsked, Recorded
  <1> QED BY <1>1, <1>2, QuietStep

LEMMA ReconciledSafe ==
    ASSUME MInv, Reconciled
    PROVE  MInv' /\ Undisturbed
  <1> USE DEF Reconciled, fileVars, cameraVars
  <1>1. Owned("starting") = {}
    BY DEF MInv, OneStart
  <1>2. MediaTypeOK' /\ SourceCurrent' /\ RecordersAsked'
    BY DEF MInv, MediaTypeOK, SourceCurrent, RecordersAsked, Loop
  <1>3. phase' \in Loop /\ phase \in Loop /\ phase' \notin {"ending", "down"}
    BY DEF Loop
  <1> HIDE DEF Reconciled
  <1>4. UNCHANGED <<workers, cut, loaded, generation>>
    BY DEF Reconciled
  <1> QED BY <1>1, <1>2, <1>3, <1>4, QuietStep

-----------------------------------------------------------------------------
(***************************************************************************)
(* The end of the run.                                                     *)
(***************************************************************************)
LEMMA EndRunSafe ==
    ASSUME MInv, EndRun
    PROVE  MInv' /\ Undisturbed
  <1> USE DEF EndRun, fileVars, cameraVars
  <1>1. Owned("pass") = {}
    BY DEF MInv, HeldWhere
  <1>2. workers' = StopChildren(Owned("children"))
    BY <1>1 DEF StopChildren
  <1>3. /\ workers' \in [Slots -> Worker \cup {NoWorker}]
        /\ \A s \in Slots : Same(s)
        /\ \A s \in Owned("children") : workers'[s] = NoWorker \/ workers'[s].owner = "stopping"
    BY <1>2, StopChildrenSame
  <1>4. MediaTypeOK' /\ SourceCurrent' /\ RecordersAsked'
    BY <1>3 DEF MInv, MediaTypeOK, SourceCurrent, RecordersAsked
  <1>5. phase' = "ending" /\ cut' = cut
    BY <1>1 DEF MInv, TrailersWritten, MediaTypeOK
  <1> HIDE DEF EndRun
  <1>6. Owned("children")' = {}
    BY <1>3 DEF Owned, Used, Same
  <1>7. Undisturbed
    BY <1>5 DEF Undisturbed
  <1> QED BY <1>3, <1>4, <1>5, <1>6, <1>7, MediaFrame DEF Loop

LEMMA StopStartedSafe ==
    ASSUME MInv, NEW s \in Slots, StopStarted(s)
    PROVE  MInv' /\ Undisturbed
  <1> USE DEF StopStarted, fileVars, passVars, cameraVars
  <1>1. workers' = StopChildren({s}) /\ {s} \in SUBSET (Owned("children") \cup Owned("starting"))
    OBVIOUS
  <1>2. workers' \in [Slots -> Worker \cup {NoWorker}] /\ \A t \in Slots : Same(t)
    BY <1>1, StopChildrenSame
  <1>3. MediaTypeOK' /\ SourceCurrent' /\ RecordersAsked'
    BY <1>2 DEF MInv, MediaTypeOK, SourceCurrent, RecordersAsked, Recorded
  <1>4. phase = "ending" /\ phase' = "ending" /\ cut' = cut
    OBVIOUS
  <1>5. Undisturbed
    BY <1>4 DEF Undisturbed
  <1> HIDE DEF StopStarted
  <1> QED BY <1>2, <1>3, <1>4, <1>5, MediaFrame DEF Loop

\* Everything that was held has ended when run returns: nothing is killed with it.
LEMMA OverSafe ==
    ASSUME MInv, Over
    PROVE  MInv' /\ Undisturbed
  <1> USE DEF Over, LoopStarts, fileVars
  <1>1. Held = {}
    <2>1. ASSUME NEW s \in Used, workers[s].owner # "orphan" PROVE FALSE
      <3>1. workers[s].owner \in Owners
        BY <2>1, SlotOfMInv, WorkerFields DEF Used
      <3> QED BY <2>1, <3>1 DEF Ended, MInv, HeldWhere, Owned, Owners
    <2> QED BY <2>1 DEF Held, Owned
  <1>2. workers' = workers
    <2>1. Used \ Owned("orphan") = {}
      BY <1>1 DEF Held
    <2>2. workers \in [Slots -> Worker \cup {NoWorker}]
      BY DEF MInv, MediaTypeOK
    <2> QED BY <2>1, <2>2
  <1>3. cut' = cut
    BY <1>1 DEF Held, MInv, TrailersWritten, MediaTypeOK
  <1>4. Held' = {} /\ phase' = "down" /\ Owned("starting")' = {}
    BY <1>1, <1>2 DEF Held, Used, Owned
  <1>5. MediaTypeOK' /\ SourceCurrent' /\ RecordersAsked'
    <2>1. /\ config' = config /\ phase' = "down" /\ cut' = cut
          /\ loaded' = [cam \in Cameras |-> "none"] /\ todo' = {} /\ granted' = {}
          /\ generation' = [cam \in Cameras |-> 1] /\ source' = [cam \in Cameras |-> 0]
      BY <1>3 DEF NotResolved
    <2> HIDE DEF Over
    <2> QED BY <1>2, <2>1 DEF MInv, MediaTypeOK, Settings, SourceCurrent, NotResolved, RecordersAsked
  <1> HIDE DEF Over
  <1>6. Undisturbed /\ \A s \in Slots : Same(s)
    BY <1>2, WorkersKept
  <1> QED BY <1>3, <1>4, <1>5, <1>6, MediaFrame DEF Loop

-----------------------------------------------------------------------------
(***************************************************************************)
(* The pass.                                                               *)
(***************************************************************************)
LEMMA TickSafe ==
    ASSUME MInv, Tick
    PROVE  MInv' /\ Undisturbed
  <1> USE DEF Tick, fileVars
  <1> DEFINE S == {s \in Owned("children") : workers[s].key[1] \in changed'}
  <1>1. /\ workers' \in [Slots -> Worker \cup {NoWorker}]
        /\ \A s \in Slots : Same(s)
        /\ \A s \in Slots \ S : workers'[s] = workers[s]
        /\ \A s \in S : workers'[s] = NoWorker \/ workers'[s].owner = "stopping"
    BY StopChildrenSame
  <1>2. MediaTypeOK'
    <2>1. generation' \in [Cameras -> Nat] /\ source' \in [Cameras -> Nat]
      BY DEF MInv, MediaTypeOK, NotResolved
    <2> QED BY <1>1, <2>1 DEF MInv, MediaTypeOK, Loop
  <1>3. SourceCurrent' /\ RecordersAsked'
    <2>1. \A cam \in Cameras : /\ cam \in changed' => source'[cam] = NotResolved
                               /\ cam \notin changed' => source'[cam] = source[cam]
                                                      /\ generation'[cam] = generation[cam]
      BY DEF MInv, MediaTypeOK
    <2> QED BY <2>1 DEF MInv, SourceCurrent, RecordersAsked
  <1>4. Owned("starting") = {}
    BY DEF MInv, OneStart
  <1>5. Owned("starting")' = {}
    <2> HIDE DEF Tick
    <2> QED BY <1>1, <1>4 DEF Same, Owned, Used
  <1>6. ASSUME NEW s \in Owned("children")' \cup Owned("starting")'
        PROVE  LET cam == workers[s].key[1]
               IN  /\ generation'[cam] = generation[cam]
                   /\ workers[s].key[2] = "record" => (cam \in Recorded => cam \in Recorded')
    <2> DEFINE cam == workers[s].key[1]
    <2>1. s \in Owned("children") /\ s \notin S /\ s \in Slots
      <3> HIDE DEF Tick, S
      <3> QED BY <1>1, <1>4, <1>5, <1>6 DEF Same, Owned, Used
    <2>2. cam \in Cameras
      BY <2>1, SlotOfMInv, WorkerFields DEF Owned
    <2>3. cam \notin changed'
      BY <2>1
    <2>4. generation'[cam] = generation[cam] /\ loaded'[cam] = loaded[cam]
      BY <2>2, <2>3 DEF MInv, MediaTypeOK
    <2> QED BY <2>2, <2>4 DEF Recorded
  <1>7. Undisturbed
    BY <1>1 DEF Undisturbed, Owned, Used
  <1>8. phase' = "reload" /\ phase = "select" /\ cut' = cut
    OBVIOUS
  <1> HIDE DEF Tick
  <1> QED BY <1>1, <1>2, <1>3, <1>5, <1>6, <1>7, <1>8, MediaFrame DEF Loop

LEMMA ReapSafe ==
    ASSUME MInv, Reap
    PROVE  MInv' /\ Undisturbed
  <1> USE DEF Reap, fileVars
  <1>1. \A s \in Slots : workers'[s] = workers[s] \/ (workers'[s] = NoWorker /\ ~Live(s))
    OBVIOUS
  <1>2. workers' \in [Slots -> Worker \cup {NoWorker}]
    BY DEF MInv, MediaTypeOK
  <1>3. MediaTypeOK' /\ SourceCurrent' /\ RecordersAsked'
    BY <1>2 DEF MInv, MediaTypeOK, SourceCurrent, RecordersAsked, Loop
  <1>4. Owned("starting") = {}
    BY DEF MInv, OneStart
  <1>5. phase = "reload" /\ phase' = "collect" /\ UNCHANGED <<loaded, generation, cut>>
    OBVIOUS
  <1> HIDE DEF Reap
  <1>6. \A s \in Slots : Same(s)
    BY <1>1 DEF Same
  <1>7. Owned("starting")' = {}
    BY <1>1, <1>4 DEF Owned, Used
  <1>8. Undisturbed
    BY <1>1 DEF Undisturbed, Owned, Used, Live
  <1>9. \A cam : cam \in Recorded => cam \in Recorded'
    BY <1>5 DEF Recorded
  <1> QED BY <1>3, <1>5, <1>6, <1>7, <1>8, <1>9, MediaFrame DEF Loop

LEMMA LaunchDueSafe ==
    ASSUME MInv, LaunchDue
    PROVE  MInv' /\ Undisturbed
  <1> USE DEF LaunchDue, fileVars
  <1> DEFINE S == {s \in Owned("children") :
                     workers[s].key[2] = "record" /\ workers[s].key[1] \notin Recorded}
  <1>1. /\ workers' \in [Slots -> Worker \cup {NoWorker}]
        /\ \A s \in Slots : Same(s)
        /\ \A s \in Slots \ S : workers'[s] = workers[s]
    BY StopChildrenSame
  <1>2. S = {}
    BY DEF MInv, WorkersCurrent, Loop
  <1>3. UNCHANGED <<loaded, generation, cut, config, granted, source>> /\ phase = "collect"
          /\ phase' = "recorders" /\ todo' = Recorded /\ Recorded' = Recorded
    BY DEF Recorded
  <1>4. Owned("starting") = {}
    BY DEF MInv, OneStart
  <1> HIDE DEF LaunchDue, S
  <1>5. MediaTypeOK' /\ SourceCurrent' /\ RecordersAsked'
    <2>1. Recorded \subseteq Cameras
      BY DEF Recorded
    <2> QED BY <1>1, <1>3, <2>1 DEF MInv, MediaTypeOK, SourceCurrent, RecordersAsked, Loop
  <1>6. Owned("starting")' = {}
    BY <1>1, <1>2, <1>4 DEF Owned, Used
  <1>7. Undisturbed
    BY <1>1, <1>2 DEF Undisturbed, Owned, Used
  <1> QED BY <1>1, <1>3, <1>5, <1>6, <1>7, MediaFrame DEF Loop

LEMMA GrantsSafe ==
    ASSUME MInv, Grants
    PROVE  MInv' /\ Undisturbed
  <1> USE DEF Grants, fileVars, cameraVars
  <1>1. UNCHANGED <<loaded, generation, cut, config, source>> /\ phase = "grants"
          /\ phase' \in {"select", "publishers"} /\ granted' \in SUBSET Cameras
          /\ todo' \in SUBSET Cameras /\ Recorded' = Recorded
    BY MediaAssumption DEF MInv, MediaTypeOK, Recorded
  <1>2. Owned("starting") = {}
    BY DEF MInv, OneStart
  <1>3. CASE UNCHANGED workers
    <2>1. MediaTypeOK' /\ SourceCurrent' /\ RecordersAsked'
      BY <1>1, <1>3 DEF MInv, MediaTypeOK, SourceCurrent, RecordersAsked, Loop
    <2>2. phase' \in Loop /\ phase \in Loop /\ phase' \notin {"ending", "down"}
      BY <1>1 DEF Loop
    <2> HIDE DEF Grants
    <2> QED BY <1>1, <1>2, <1>3, <2>1, <2>2, QuietStep
  <1>4. CASE workers' = StopChildren(Ungranted(granted'))
    <2> DEFINE S == Ungranted(granted')
    <2>1. S \subseteq Owned("children") /\ \A s \in S : workers[s].key[2] = "publish"
      BY DEF Ungranted
    <2> HIDE DEF S, Grants
    <2>2. /\ workers' \in [Slots -> Worker \cup {NoWorker}]
          /\ \A s \in Slots : Same(s)
          /\ \A s \in Slots \ S : workers'[s] = workers[s]
      BY <1>4, <2>1, StopChildrenSame DEF S
    <2>3. MediaTypeOK' /\ SourceCurrent' /\ RecordersAsked'
      BY <1>1, <2>2 DEF MInv, MediaTypeOK, SourceCurrent, RecordersAsked, Loop
    <2>4. Owned("starting")' = {}
      BY <1>2, <2>2 DEF Same, Owned, Used
    <2>5. Undisturbed
      BY <2>1, <2>2 DEF Undisturbed, Owned, Used
    <2> QED BY <1>1, <2>2, <2>3, <2>4, <2>5, MediaFrame DEF Loop
  <1> QED BY <1>3, <1>4

\* A worker is skipped or cannot be spawned.
LEMMA VisitedSafe ==
    ASSUME MInv, NEW cam \in Cameras, Visit(cam), todo' = todo \ {cam}, UNCHANGED workers
    PROVE  MInv' /\ Undisturbed
  <1> USE DEF Visit, fileVars
  <1>1. MediaTypeOK' /\ SourceCurrent' /\ RecordersAsked'
    BY DEF MInv, MediaTypeOK, SourceCurrent, RecordersAsked, Recorded
  <1>2. phase' \in Loop /\ phase \in Loop /\ phase' = phase /\ Owned("starting") = {}
    BY DEF Loop
  <1> QED BY <1>1, <1>2, QuietStep

LEMMA FreeSlot ==
    ASSUME Used # Slots
    PROVE  Free \in Slots /\ Free \notin Used
  BY DEF Free, Used

\* A worker is started only when no other one of its key is held.
LEMMA SpawnSafe ==
    ASSUME MInv, NEW cam \in Cameras, Spawn(cam)
    PROVE  MInv' /\ Undisturbed
  <1> USE DEF Spawn, Visit, fileVars
  <1> DEFINE n == [key |-> Wanted(cam), owner |-> "starting",
                   source |-> source[cam], state |-> "starting"]
             f == Free
  <1>1. f \in Slots /\ f \notin Used
    BY FreeSlot
  <1>2. /\ Wanted(cam) \in Keys /\ Wanted(cam)[1] = cam
        /\ Wanted(cam)[2] = "record" => phase = "recorders"
    BY DEF Wanted, Keys
  <1>3. /\ n \in Worker /\ n.key = Wanted(cam) /\ n.owner = "starting" /\ n.source = source[cam]
    BY <1>2 DEF Worker, Owners, MInv, MediaTypeOK
  <1>4. workers' = [workers EXCEPT ![f] = n] /\ workers \in [Slots -> Worker \cup {NoWorker}]
    BY DEF MInv, MediaTypeOK
  <1>5. /\ UNCHANGED <<phase, todo, loaded, generation, config, granted, source, cut>>
        /\ phase \in {"recorders", "publishers"} /\ cam \in todo
        /\ source[cam] # NotResolved /\ ~ChildOf(Wanted(cam))
        /\ Owned("starting") = {} /\ Stopped /\ Wanted(cam)' = Wanted(cam)
    BY DEF Startable, Wanted
  <1> HIDE DEF Spawn, Visit, n, f
  <1>6. /\ workers'[f] = n /\ n # NoWorker
        /\ \A s \in Slots \ {f} : workers'[s] = workers[s]
        /\ workers' \in [Slots -> Worker \cup {NoWorker}]
    BY <1>1, <1>3, <1>4, WorkerFields
  <1>7. /\ Held' = Held \cup {f} /\ Owned("starting")' = {f}
        /\ Owned("children")' = Owned("children") /\ Owned("pass")' = Owned("pass")
        /\ f \notin Held
    BY <1>1, <1>3, <1>5, <1>6 DEF Held, Owned, Used
  <1>8. ASSUME NEW s \in Held
        PROVE  s \in Slots /\ s # f /\ s \in Owned("children") /\ workers[s].key # Wanted(cam)
    <2>1. s \in Used /\ s \in Slots /\ workers[s].owner # "orphan" /\ s # f
      BY <1>1, <1>8 DEF Held, Used, Owned
    <2>2. workers[s].owner \in Owners
      BY <2>1, SlotOfMInv, WorkerFields
    <2>3. s \in Owned("children")
      BY <1>5, <2>1, <2>2 DEF Stopped, Owned, Owners
    <2> QED BY <1>5, <2>1, <2>3 DEF ChildOf
  <1>9. MediaTypeOK' /\ SourceCurrent' /\ RecordersAsked'
    BY <1>5, <1>6 DEF MInv, MediaTypeOK, SourceCurrent, RecordersAsked, Recorded
  <1>10. DistinctKeys'
    <2> SUFFICES ASSUME NEW s \in Held \cup {f}, NEW t \in Held \cup {f},
                        workers'[s].key = workers'[t].key
                 PROVE  s = t
      BY <1>7 DEF DistinctKeys
    <2> QED BY <1>3, <1>6, <1>8 DEF MInv, DistinctKeys
  <1>11. OneStart'
    BY <1>2, <1>3, <1>5, <1>6, <1>7 DEF OneStart, Wanted
  <1>12. HeldWhere'
    BY <1>5, <1>7 DEF MInv, HeldWhere
  <1>13. WorkersCurrent'
    <2>1. source[cam] = generation[cam]
      BY <1>5 DEF MInv, SourceCurrent
    <2>2. phase = "recorders" => cam \in Recorded
      BY <1>5 DEF MInv, RecordersAsked
    <2>3. Recorded' = Recorded /\ generation' = generation /\ phase \in Loop
      BY <1>5 DEF Recorded, Loop
    <2>4. ASSUME NEW s \in Owned("children")' \cup Owned("starting")'
          PROVE  /\ workers'[s].source = generation[workers'[s].key[1]]
                 /\ workers'[s].key[2] = "record" => workers'[s].key[1] \in Recorded
      <3>1. CASE s = f
        BY <1>2, <1>3, <1>6, <2>1, <2>2, <3>1
      <3>2. CASE s # f
        <4>1. s \in Owned("children") /\ s \in Slots
          BY <1>7, <2>4, <3>2 DEF Owned, Used
        <4> QED BY <1>6, <2>3, <3>2, <4>1 DEF MInv, WorkersCurrent
      <3> QED BY <3>1, <3>2
    <2> QED BY <2>3, <2>4 DEF WorkersCurrent
  <1>14. TrailersWritten'
    BY <1>5 DEF MInv, TrailersWritten
  <1>15. Undisturbed
    BY <1>1, <1>6 DEF Undisturbed, Owned, Used
  <1> QED BY <1>9, <1>10, <1>11, <1>12, <1>13, <1>14, <1>15 DEF MInv

LEMMA StartedSafe ==
    ASSUME MInv, NEW s \in Slots, Started(s)
    PROVE  MInv' /\ Undisturbed
  <1> USE DEF Started, fileVars
  <1> DEFINE n == [workers[s] EXCEPT !.owner = "children"]
  <1>1. /\ workers[s] \in Worker /\ s \in Used /\ workers[s].owner = "starting"
        /\ workers \in [Slots -> Worker \cup {NoWorker}]
    BY SlotOfMInv DEF Owned, MInv, MediaTypeOK
  <1>2. n \in Worker /\ n.key = workers[s].key /\ n.source = workers[s].source /\ n.owner = "children"
    BY <1>1, WorkerOwner DEF Owners
  <1>3. /\ UNCHANGED <<phase, loaded, generation, config, granted, source, cut>>
        /\ phase \in {"recorders", "publishers"} /\ todo' \subseteq todo
        /\ workers' = [workers EXCEPT ![s] = n] \/ workers' = [workers EXCEPT ![s] = NoWorker]
    OBVIOUS
  <1> HIDE DEF Started, n
  <1>4. /\ workers' \in [Slots -> Worker \cup {NoWorker}]
        /\ \A t \in Slots \ {s} : workers'[t] = workers[t]
        /\ workers'[s] = NoWorker \/ /\ workers'[s].key = workers[s].key
                                     /\ workers'[s].source = workers[s].source
                                     /\ workers'[s].owner = "children"
    BY <1>1, <1>2, <1>3
  <1>5. \A t \in Owned("starting") : t = s
    BY <1>1 DEF MInv, OneStart, Owned
  <1>6. Owned("starting")' = {} /\ Owned("pass")' = {} /\ Held' \subseteq Held
          /\ Owned("children")' \subseteq Owned("children") \cup {s}
    BY <1>1, <1>4, <1>5 DEF Owned, Used, Held, MInv, HeldWhere
  <1>7. MediaTypeOK' /\ SourceCurrent' /\ RecordersAsked'
    BY <1>3, <1>4 DEF MInv, MediaTypeOK, SourceCurrent, RecordersAsked, Recorded
  <1>8. \A t \in Held' : workers'[t].key = workers[t].key
    BY <1>4 DEF Held, Used
  <1>9. DistinctKeys'
    BY <1>6, <1>8 DEF MInv, DistinctKeys
  <1>10. OneStart' /\ HeldWhere'
    BY <1>3, <1>6 DEF OneStart, HeldWhere
  <1>11. WorkersCurrent'
    <2>1. Recorded' = Recorded /\ phase \in Loop
      BY <1>3 DEF Recorded, Loop
    <2>2. \A t \in Owned("children")' \cup Owned("starting")' :
             /\ t \in Owned("children") \cup Owned("starting")
             /\ workers'[t].key = workers[t].key /\ workers'[t].source = workers[t].source
      BY <1>1, <1>4, <1>6 DEF Owned, Used
    <2> QED BY <1>3, <2>1, <2>2 DEF MInv, WorkersCurrent
  <1>12. TrailersWritten'
    BY <1>3 DEF MInv, TrailersWritten
  <1>13. Undisturbed
    BY <1>1, <1>4 DEF Undisturbed, Owned, Used
  <1> QED BY <1>7, <1>9, <1>10, <1>11, <1>12, <1>13 DEF MInv

LEMMA PassSafe ==
    ASSUME MInv, Pass
    PROVE  MInv' /\ Undisturbed
  <1>1. ASSUME NEW cam \in Cameras, Skip(cam) \/ SpawnFails(cam)
        PROVE  MInv' /\ Undisturbed
    BY <1>1, VisitedSafe DEF Skip, SpawnFails
  <1> QED BY <1>1, ReapSafe, CollectSafe, LaunchDueSafe, GrantsSafe, SpawnSafe, StartedSafe,
             ReconciledSafe DEF Pass

-----------------------------------------------------------------------------
(***************************************************************************)
(* The theorems.                                                           *)
(***************************************************************************)
LEMMA MediaInitSafe == MediaInit => MInv
  <1> SUFFICES ASSUME MediaInit PROVE MInv
    OBVIOUS
  <1> USE DEF MediaInit
  <1>1. Used = {} /\ Held = {} /\ \A o : Owned(o) = {}
    BY DEF Used, Held, Owned
  <1>2. MediaTypeOK
    BY DEF MediaTypeOK, Settings, NotResolved
  <1> QED BY <1>1, <1>2 DEF MInv, DistinctKeys, SourceCurrent, OneStart, HeldWhere, WorkersCurrent,
             RecordersAsked, TrailersWritten, Loop

LEMMA MediaStepSafe ==
    ASSUME MInv, [MediaNext]_mediaVars
    PROVE  MInv' /\ (Undisturbed \/ UNCHANGED mediaVars)
  <1>1. CASE MediaNext
    <2>1. MInv' /\ Undisturbed
      BY <1>1, BootSafe, EditSafe, EndRunSafe, StopStartedSafe, OverSafe, CrashSafe, TickSafe,
         WakeSafe, PassSafe, WorkerStepSafe, RetrySafe, ResolutionStepSafe DEF MediaNext
    <2> QED BY <2>1
  <1>2. CASE UNCHANGED mediaVars
    <2>1. phase' = phase /\ todo' = todo /\ UNCHANGED <<workers, cut, loaded, generation>>
             /\ UNCHANGED <<config, granted, source>>
      BY <1>2 DEF mediaVars, passVars, fileVars, cameraVars
    <2>2. MediaTypeOK' /\ SourceCurrent' /\ RecordersAsked'
      BY <2>1 DEF MInv, MediaTypeOK, SourceCurrent, RecordersAsked, Recorded
    <2> QED BY <1>2, <2>1, <2>2, QuietStep
  <1> QED BY <1>1, <1>2

\* Supervision keeps its workers apart, owned by the run and current: whenever the
\* configuration changes, grants are revoked, starts fail, the run ends or crashes.
THEOREM MediaInvariant == MediaSpec => []MInv
  <1>1. MInv /\ [MediaNext]_mediaVars => MInv'
    BY MediaStepSafe
  <1> QED BY <1>1, MediaInitSafe, PTL DEF MediaSpec

\* For any cameras, limits and numbers of edits and crashes: a runtime never has two
\* recorders of a camera at work, nor two publishers (reconcile_local_recorders,
\* reconcile_publishers, stop_media_children).
THEOREM WorkersAreDistinct == MediaSpec => []OneWorker
  <1>1. MInv => OneWorker
    BY DEF MInv, DistinctKeys, OneWorker, Held
  <1> QED BY <1>1, MediaInvariant, PTL

\* Wherever the end of the run cuts the pass short, no worker is killed before its
\* grace period is over (stop_media_children, finish_media_shutdown).
THEOREM NoWorkerCut == MediaSpec => []TrailersWritten
  <1>1. MInv => TrailersWritten
    BY DEF MInv
  <1> QED BY <1>1, MediaInvariant, PTL

\* No worker reads a camera through what an earlier configuration said of it
\* (RuntimeCamera.generation, collect_resolved_cameras).
THEOREM SourcesAreCurrent == MediaSpec => []CurrentSource
  <1>1. MInv => CurrentSource
    BY DEF MInv, WorkersCurrent, CurrentSource
  <1> QED BY <1>1, MediaInvariant, PTL

\* Publishing never interrupts a recorder at work: not a step of the run disturbs
\* one unless its camera changed or the run ends.
THEOREM RecordersUndisturbed == MediaSpec => RecorderUndisturbed
  <1>1. MInv /\ [MediaNext]_mediaVars => [Undisturbed]_mediaVars
    BY MediaStepSafe
  <1> QED BY <1>1, MediaInvariant, PTL DEF MediaSpec, RecorderUndisturbed, Undisturbed

=============================================================================
