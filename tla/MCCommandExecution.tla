------------------------- MODULE MCCommandExecution --------------------------
(***************************************************************************)
(* One camera and two commands: either both in one queue (ids of their     *)
(* own), or two that share an id, the later one with a later deadline, so  *)
(* that it can run once the first one's window has closed.                 *)
(***************************************************************************)
EXTENDS CommandExecution, TLC

CONSTANTS cam, id1, id2, first, second, third

MCIdOf == (first :> id1) @@ (second :> id2) @@ (third :> id1)
MCCameraOf == [r \in Requests |-> cam]
MCExpiresAt == (first :> 1) @@ (second :> 1) @@ (third :> 3)

VARIABLE offered    \* the commands the Server has

MCInit == Init /\ offered \in {{first, second}, {first, third}}

\* The windows of the offered commands have closed at the end.
MCNext ==
    /\ Next
    /\ now' <= IF third \in offered THEN MaxTime ELSE 2
    /\ \A id \in Ids : {mem'[id].request, disk'[id].request} \subseteq offered \cup {NoRequest}
    /\ \A i \in DOMAIN queue'[cam] : queue'[cam][i] \in offered
    /\ UNCHANGED offered

MCSpec == MCInit /\ [][MCNext]_<<vars, offered>>
=============================================================================
