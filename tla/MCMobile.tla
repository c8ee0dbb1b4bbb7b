------------------------------- MODULE MCMobile -------------------------------
(***************************************************************************)
(* Small instances of the phone: the application and its library, where     *)
(* every press of the start button may become a generation with its session *)
(* and encoder session; or one connection of a publisher to the Server.  A  *)
(* behaviour is of one of the two.                                          *)
(***************************************************************************)
EXTENDS IosCapture, RtspPublisher

AllGenerations == Generations

\* A key picture of a large unit, and a picture of a small and a large one.
Unit(kind, size) == [kind |-> kind, size |-> size]
MCPictures == {<<Unit("idr", 8)>>, <<Unit("slice", 4), Unit("slice", 5)>>}

VARIABLE part

MCInit == Init /\ RtspInit /\ part \in {"application", "connection"}

MCNext ==
    /\ UNCHANGED part
    /\ \/ part = "application" /\ Next /\ UNCHANGED rtspVars
       \/ part = "connection" /\ RtspNext /\ UNCHANGED vars

MCSpec ==
    /\ MCInit
    /\ [][MCNext]_<<part, vars, rtspVars>>
    /\ Fairness
    /\ RtspFairness

ConnectionSpec == MCSpec /\ part = "connection"
===============================================================================
