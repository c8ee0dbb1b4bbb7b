---------------------------- MODULE CommandContract ----------------------------
(***************************************************************************)
(* What xcoc owes whoever sends a device command: it is decided once, for   *)
(* or against being sent, and the decision stands until the command's       *)
(* deduplication window closes.  Only a command decided for is ever sent,   *)
(* and only once.  CommandExecution implements it.                          *)
(***************************************************************************)
EXTENDS Naturals

CONSTANT Requests

VARIABLES
    outcome,    \* what is durably decided about each command
    sent        \* how often each command went to its device

contractVars == <<outcome, sent>>

Outcomes == {"open", "spent", "refused", "closed"}

ContractInit ==
    /\ outcome \in [Requests -> Outcomes]
    /\ sent = [r \in Requests |-> 0]

\* Open commands are decided: those of `spent` may have been executed, those of
\* `refused` never will.  One write of the file may decide several.
Decide(spent, refused) ==
    /\ spent \cap refused = {}
    /\ \A r \in spent \cup refused : outcome[r] = "open"
    /\ outcome' = [r \in Requests |-> IF r \in spent THEN "spent"
                                      ELSE IF r \in refused THEN "refused" ELSE outcome[r]]
    /\ UNCHANGED sent

Send(r) ==
    /\ outcome[r] \in {"spent", "closed"}
    /\ sent[r] = 0
    /\ sent' = [sent EXCEPT ![r] = 1]
    /\ UNCHANGED outcome

\* Windows close as time passes.
Close(S) ==
    /\ outcome' = [r \in Requests |-> IF r \in S THEN "closed" ELSE outcome[r]]
    /\ UNCHANGED sent

ContractNext ==
    \/ \E spent, refused \in SUBSET Requests : Decide(spent, refused)
    \/ \E S \in SUBSET Requests : Close(S)
    \/ \E r \in Requests : Send(r)

ContractSpec == ContractInit /\ [][ContractNext]_contractVars
================================================================================
