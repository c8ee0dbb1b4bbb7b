--------------------------- MODULE PairingRegistry ----------------------------
(***************************************************************************)
(* What the commands of xcoc promise an operator who works alone: a table  *)
(* of paired instances in which every command changes one row, to something *)
(* newer, and no other row.  PairingState implements it.                   *)
(*                                                                         *)
(* Tokens and camera configurations carry the number of the command they   *)
(* came with, so that "newer" can be said.                                 *)
(***************************************************************************)
EXTENDS Naturals, FiniteSets

CONSTANTS Instances, MaxInstances, MaxCommands

VARIABLE pairs      \* instance -> its token and camera, or Unpaired

Unpaired == [token |-> 0, camera |-> 0]
NoCamera == 0
Rows == [token : 0..MaxCommands, camera : 0..MaxCommands]
Paired == {i \in Instances : pairs[i] # Unpaired}

Init ==
    /\ pairs \in [Instances -> Rows]
    /\ \A i \in Instances : pairs[i].token = 0 => pairs[i] = Unpaired
    /\ Cardinality(Paired) <= MaxInstances

\* A new token; the camera the instance had stays.
Pair(i) ==
    /\ Cardinality(Paired) < MaxInstances
    /\ \E t \in 1..MaxCommands :
          /\ t > pairs[i].token
          /\ pairs' = [pairs EXCEPT ![i].token = t]

Configure(i) ==
    /\ i \in Paired
    /\ \E c \in 1..MaxCommands :
          /\ c > pairs[i].camera
          /\ pairs' = [pairs EXCEPT ![i].camera = c]

RemoveCamera(i) ==
    /\ i \in Paired
    /\ pairs' = [pairs EXCEPT ![i].camera = NoCamera]

Unpair(i) ==
    /\ i \in Paired
    /\ pairs' = [pairs EXCEPT ![i] = Unpaired]

Next == \E i \in Instances : Pair(i) \/ Configure(i) \/ RemoveCamera(i) \/ Unpair(i)

Spec == Init /\ [][Next]_pairs
===============================================================================
