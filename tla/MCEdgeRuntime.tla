--------------------------- MODULE MCEdgeRuntime -----------------------------
(***************************************************************************)
(* Small instances of the run loop: one camera with one or two commands,   *)
(* or two cameras with one command each.                                   *)
(***************************************************************************)
EXTENDS EdgeRuntime, TLC

CONSTANTS left, right, id1, id2, first, second

OwnId == [r \in Requests |-> IF r = first THEN id1 ELSE id2]
OneCamera == [r \in Requests |-> left]
TwoCameras == [r \in Requests |-> IF r = first THEN left ELSE right]
SameDeadline == [r \in Requests |-> 1]
\* The command of the one camera has expired when it comes, the other has not.
DeadlinesApart == [r \in Requests |-> IF r = first THEN 0 ELSE 1]
=============================================================================
