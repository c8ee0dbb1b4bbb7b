----------------------------- MODULE ServiceHost ------------------------------
(***************************************************************************)
(* Who runs xcoc's run loop, and on which configuration.  A run is started  *)
(* from a console or by the Windows service (src/src/                       *)
(* windows_service_host.rs); a lock admits one at a time.  A run waits for  *)
(* a configuration it can load, serves it, reads the file again every two   *)
(* seconds, and ends when it is told to or when the file is no longer one   *)
(* of its installation.  The service starts a run again after ten seconds   *)
(* and reports its state to the service manager, who may stop it.           *)
(*                                                                         *)
(* What a run does while it serves is EdgeRuntime and MediaSupervision;     *)
(* here it has the rows it has loaded, and its recorders fill the store.    *)
(***************************************************************************)
EXTENDS PairingState

CONSTANTS MaxStops, MaxCrashes   \* bounds on stop requests and process kills

ASSUME HostAssumption == MaxStops \in Nat /\ MaxCrashes \in Nat

VARIABLES
    hosted,     \* the service is installed (else only the console starts runs)
    scm,        \* the state the service manager was told
    stopAsked,  \* the stop channel
    host,       \* where supervise_runtime is
    run,        \* runner -> where its run is
    lock,       \* the runner that holds .xcoc-runtime
    loaded,     \* the file as the serving run read it last
    stops, crashes

hostVars == <<hosted, scm, stopAsked, host, run, lock, loaded, stops, crashes>>
serviceVars == <<hosted, scm, stopAsked, host, stops, crashes>>
installationVars == <<pairingVars, hostVars>>

Runners == {"service", "console"}
Nobody == "nobody"

HostInit ==
    /\ hosted \in BOOLEAN
    /\ scm = "stopped" /\ stopAsked = FALSE /\ host = "off"
    /\ run = [r \in Runners |-> "off"]
    /\ lock = Nobody
    /\ loaded = Missing
    /\ stops = 0 /\ crashes = 0

-------------------------------------------------------------------------------
(* run.                                                                    *)

\* acquire_run_lock: a run that finds the lock taken returns at once.
RunLocks(r) ==
    /\ IF r = "service" THEN host = "call" /\ host' = (IF lock = Nobody THEN "run" ELSE "retry")
                        ELSE run[r] = "off" /\ lock = Nobody /\ host' = host
    /\ IF lock = Nobody THEN lock' = r /\ run' = [run EXCEPT ![r] = "wait"]
                        ELSE UNCHANGED <<lock, run>>
    /\ UNCHANGED <<pairingVars, hosted, scm, stopAsked, stops, crashes, loaded>>

\* The file loads: the run begins to serve it.
RunBoots(r) ==
    /\ run[r] = "wait"
    /\ StoreUsable /\ Loads(file)
    /\ loaded' = file
    /\ run' = [run EXCEPT ![r] = "serve"]
    /\ UNCHANGED <<pairingVars, serviceVars, lock>>

\* The file does not load: a run from the console ends unless it was asked to
\* wait (--wait-for-config); that one and the service's try again in two seconds.
RunFindsNothing ==
    /\ run["console"] = "wait"
    /\ ~(StoreUsable /\ Loads(file))
    /\ run' = [run EXCEPT !["console"] = "off"]
    /\ lock' = Nobody
    /\ UNCHANGED <<pairingVars, serviceVars, loaded>>

\* What the loop finds at a tick, or before it by the fingerprint.
FileChanged == file # loaded

\* Defective: a file that does not load any more is ignored.
RunReloadsWhatLoads(r) ==
    /\ run[r] = "serve" /\ FileChanged /\ Loads(file)
    /\ IF file.installation = loaded.installation
       THEN loaded' = file /\ run' = run
       ELSE loaded' = loaded /\ run' = [run EXCEPT ![r] = "finish"]
    /\ UNCHANGED <<pairingVars, serviceVars, lock>>

\* reload_configuration: the rows of the same installation are
\* taken over; anything else ends the run with an error.
RunReloads(r) ==
    /\ run[r] = "serve" /\ FileChanged
    /\ IF Loads(file) /\ file.installation = loaded.installation
       THEN loaded' = file /\ run' = run
       ELSE loaded' = loaded /\ run' = [run EXCEPT ![r] = "finish"]
    /\ UNCHANGED <<pairingVars, serviceVars, lock>>

\* Defective: a run that waits for its configuration does not look at it.
RunStopsServing(r) ==
    /\ run[r] = "serve"
    /\ IF r = "service" THEN stopAsked /\ stops' = stops
                        ELSE stops < MaxStops /\ stops' = stops + 1
    /\ run' = [run EXCEPT ![r] = "finish"]
    /\ UNCHANGED <<pairingVars, hosted, scm, stopAsked, host, crashes, loaded, lock>>

\* Its stop channel, or a signal at the console.
RunStops(r) ==
    /\ run[r] \in {"wait", "serve"}
    /\ IF r = "service" THEN stopAsked /\ stops' = stops
                        ELSE stops < MaxStops /\ stops' = stops + 1
    /\ IF run[r] = "serve"
       THEN run' = [run EXCEPT ![r] = "finish"] /\ lock' = lock
       ELSE run' = [run EXCEPT ![r] = "off"] /\ lock' = Nobody
    /\ UNCHANGED <<pairingVars, hosted, scm, stopAsked, host, crashes, loaded>>

\* finish_media_shutdown has written the trailers; run returns.
RunEnds(r) ==
    /\ run[r] = "finish"
    /\ run' = [run EXCEPT ![r] = "off"]
    /\ lock' = Nobody
    /\ loaded' = Missing
    /\ UNCHANGED <<pairingVars, serviceVars>>

\* A recorder of the serving run begins a segment; someone puts a file that
\* is no recording into the store, or takes one away.
Records ==
    /\ \E r \in Runners : run[r] = "serve"
    /\ \E i \in Instances : loaded.rows[i].camera # NoCamera
    /\ store.entries <= MaxRecordings
    /\ store' = [store EXCEPT !.entries = @ + 1]
    /\ UNCHANGED <<crew, file, archives, desk, serial, hostVars>>

StoreTouched ==
    /\ store' = [store EXCEPT !.foreign = ~@]
    /\ UNCHANGED <<crew, file, archives, desk, serial, hostVars>>

-------------------------------------------------------------------------------
(* The service.                                                            *)

\* The service manager starts the service: at boot, by hand, or for
\* configure_and_start.
ServiceStarts ==
    /\ hosted /\ scm = "stopped" /\ host = "off"
    /\ scm' = "start pending"
    /\ host' = "log"
    /\ stopAsked' = FALSE
    /\ UNCHANGED <<pairingVars, hosted, run, lock, loaded, stops, crashes>>

\* initialize_logging succeeds and the service is running, or fails and it
\* stops.
LoggingStarts ==
    /\ host = "log"
    /\ \/ scm' = "running" /\ host' = "top"
       \/ scm' = "start pending" /\ host' = "end"
    /\ UNCHANGED <<pairingVars, hosted, stopAsked, run, lock, loaded, stops, crashes>>

\* A stop control, accepted only while the service is running.
StopAsked ==
    /\ scm = "running" /\ ~stopAsked /\ stops < MaxStops
    /\ stopAsked' = TRUE
    /\ stops' = stops + 1
    /\ UNCHANGED <<pairingVars, hosted, scm, host, run, lock, loaded, crashes>>

\* Defective: the work is dropped with the stop.
StopAtOnce ==
    /\ scm = "running" /\ stopAsked
    /\ scm' = "stopped"
    /\ host' = "off"
    /\ UNCHANGED <<pairingVars, hosted, stopAsked, run, lock, loaded, stops, crashes>>

\* serve tells the manager and goes on waiting for its work.
StopPending ==
    /\ scm = "running" /\ stopAsked
    /\ scm' = "stop pending"
    /\ UNCHANGED <<pairingVars, hosted, stopAsked, host, run, lock, loaded, stops, crashes>>

\* supervise_runtime: stop, or a run.
SuperviseTop ==
    /\ host = "top"
    /\ host' = IF stopAsked THEN "end" ELSE "call"
    /\ UNCHANGED <<pairingVars, hosted, scm, stopAsked, run, lock, loaded, stops, crashes>>

\* run has returned: with Ok, with an error that is logged, or with an error
\* that cannot be logged, which ends the supervision.
RunReturned ==
    /\ host = "run" /\ run["service"] = "off"
    /\ host' \in {"retry", "end"}
    /\ UNCHANGED <<pairingVars, hosted, scm, stopAsked, run, lock, loaded, stops, crashes>>

\* Ten seconds have passed, or the stop came first.
Retries ==
    /\ host = "retry"
    /\ host' = IF stopAsked THEN "end" ELSE "top"
    /\ UNCHANGED <<pairingVars, hosted, scm, stopAsked, run, lock, loaded, stops, crashes>>

\* serve reports Stopped and the process ends.
ServiceEnds ==
    /\ host = "end"
    /\ host' = "off"
    /\ scm' = "stopped"
    /\ UNCHANGED <<pairingVars, hosted, stopAsked, run, lock, loaded, stops, crashes>>

\* The process of a runner is killed; the system frees its lock.
Killed(r) ==
    /\ crashes < MaxCrashes
    /\ run[r] # "off" \/ (r = "service" /\ host # "off")
    /\ crashes' = crashes + 1
    /\ run' = [run EXCEPT ![r] = "off"]
    /\ lock' = IF lock = r THEN Nobody ELSE lock
    /\ loaded' = IF lock = r THEN Missing ELSE loaded
    /\ IF r = "service" THEN host' = "off" /\ scm' = "stopped" ELSE UNCHANGED <<host, scm>>
    /\ UNCHANGED <<pairingVars, hosted, stopAsked, stops>>

RunStep(r) == RunBoots(r) \/ RunReloads(r) \/ RunEnds(r)

ServiceStep ==
    \/ LoggingStarts \/ StopPending \/ SuperviseTop \/ RunReturned \/ Retries \/ ServiceEnds
    \/ RunLocks("service") \/ RunStep("service") \/ RunStops("service")

ConsoleStep ==
    RunLocks("console") \/ RunFindsNothing \/ RunStep("console") \/ RunStops("console")

InstallationInit == PairingInit /\ HostInit

InstallationNext ==
    \/ (\E o \in crew : CommandStep(o)) /\ UNCHANGED hostVars
    \/ ServiceStarts \/ StopAsked \/ ServiceStep
    \/ ConsoleStep
    \/ Records \/ StoreTouched
    \/ \E r \in Runners : Killed(r)

\* A started service and a started run go on by themselves; the operators, the
\* service manager and the console need not.
InstallationSpec ==
    /\ InstallationInit
    /\ [][InstallationNext]_installationVars
    /\ WF_installationVars(ServiceStep)
    /\ WF_installationVars(RunStep("console"))

-------------------------------------------------------------------------------
(* Properties.                                                             *)

\* The service manager is not told that the service has stopped while its run
\* still has recorders to finish ("must not cancel recorder finalization").
StoppedMeansFinished == scm = "stopped" => run["service"] = "off"

\* A service that is asked to stop stops, wherever its run is.
StopCompletes == stopAsked ~> scm = "stopped"

\* What an operator unpairs is soon not served any more, also when it was the
\* last pairing and the file is gone.
UnpairTakesEffect ==
    \A i \in Instances :
        i \notin PairedIn(file) ~> (i \in PairedIn(file) \/ i \notin PairedIn(loaded))
===============================================================================
