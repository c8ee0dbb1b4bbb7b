------------------------------- MODULE MCCameras -------------------------------
(***************************************************************************)
(* Small instances of what must go on for one camera.  A behaviour is one   *)
(* of two parts, which have no state in common: the supervision of its      *)
(* recorder beside another camera, or its local capture.                    *)
(***************************************************************************)
EXTENDS LocalCapture

CONSTANTS left, right, recorder, publisher, NoWorker

VARIABLES
    part,
    config, changes, crashes, where, loaded, changed, granted, todo, current, source,
    broken, busy, resolutions, workers, cut

\* Supervision: a camera that is recorded, and one that is edited.
TwoCameras == <<left, right>>
LeftRecords == [cam \in {left, right} |-> IF cam = left THEN {"record"} ELSE {"none", "disabled"}]

Media == INSTANCE MediaSupervision WITH
    Order <- TwoCameras, Chosen <- LeftRecords, Publishable <- {left}, Slots <- {1, 2},
    MaxResolves <- 2, MaxEdits <- 1, MaxCrashes <- 0,
    edits <- changes, phase <- where, generation <- current, failing <- broken,
    resolving <- busy

\* Local capture: what reads the relay.
TwoWorkers == {recorder, publisher}

supervisionVars == <<config, changes, crashes, where, loaded, changed, granted, todo, current,
                     source, broken, busy, resolutions, workers, cut>>

MCInit ==
    /\ part \in {"supervision", "capture"}
    /\ Media!MediaInit /\ LocalInit
    /\ part = "capture" => config[right] = "none"

MCNext ==
    /\ UNCHANGED part
    /\ \/ part = "supervision" /\ Media!MediaNext /\ UNCHANGED localVars
       \/ part = "capture" /\ LocalNext /\ UNCHANGED supervisionVars

MCSpec ==
    /\ MCInit
    /\ [][MCNext]_<<part, supervisionVars, localVars>>
    /\ \/ part = "supervision" /\ Media!MediaFairness
       \/ part = "capture" /\ LocalFairness

\* A camera that is to be recorded gets its recorder again (RecorderRuns).
RecordersRun == part = "supervision" => Media!RecorderRuns
\* A local camera is captured again after every fault (CaptureReturns).
CapturesReturn == part = "capture" => CaptureReturns
\* Every worker of it reads the living capture again (ReadersReturn).
ReadersCatchUp == part = "capture" => ReadersReturn
================================================================================
