---------------------------- MODULE MCServiceHost -----------------------------
(***************************************************************************)
(* Small installations: an operator with the service, or two operators at  *)
(* work on the file at once, and then nothing else runs.                   *)
(***************************************************************************)
EXTENDS ServiceHost

CONSTANTS ann, bob, left, right

Staff == {ann, bob}
Slots == {left, right}

MCInit ==
    /\ InstallationInit
    /\ crew \in {{ann}, {ann, bob}}
    /\ hosted <=> crew = {ann}

\* The operator with the service works on the left instance only.
MCNext ==
    /\ InstallationNext
    /\ IF hosted
       THEN desk'[ann] # Idle => desk'[ann].target = left
       ELSE UNCHANGED <<hostVars, store>>

MCSpec ==
    /\ MCInit
    /\ [][MCNext]_installationVars
    /\ WF_installationVars(ServiceStep)
    /\ WF_installationVars(RunStep("console"))
===============================================================================
