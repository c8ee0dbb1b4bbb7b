------------------------------- MODULE Discovery -------------------------------
(***************************************************************************)
(* The search for ONVIF cameras in the network (discover in                 *)
(* src/src/onvif.rs): one question to everybody, and answers until the time *)
(* is up, of cameras that answer as often as they like, in any order, and   *)
(* of whoever else sends to the port.                                       *)
(***************************************************************************)
EXTENDS Naturals, Sequences, FiniteSets

CONSTANTS
    Endpoints,      \* cameras in the network
    MaxAddresses,   \* addresses of one answer (8)
    MaxResults      \* cameras a search may find (256)

ASSUME DiscoveryAssumption == MaxAddresses \in Nat /\ MaxResults \in Nat

VARIABLE search     \* cameras heard of (history), found, and the outcome

Listening == [heard |-> {}, found |-> << >>, outcome |-> "listening"]

SearchInit == search = Listening

Answers == [endpoint : Endpoints, related : BOOLEAN, addresses : 0..(MaxAddresses + 1)]

\* parse_probe_response: an answer to this search, with a few addresses.
Meaningful(answer) == answer.related /\ answer.addresses \in 1..MaxAddresses

Found == {search.found[i] : i \in DOMAIN search.found}

\* Defective: a camera that answers again needs room again.
AdmittedByCount(endpoint) ==
    IF Len(search.found) >= MaxResults THEN [search EXCEPT !.outcome = "limit"]
    ELSE IF endpoint \in Found THEN search
    ELSE [search EXCEPT !.found = Append(@, endpoint)]

\* admit_discovered_device: cameras answer more than once, which costs no room.
Admitted(endpoint) ==
    IF endpoint \in Found THEN search
    ELSE IF Len(search.found) >= MaxResults THEN [search EXCEPT !.outcome = "limit"]
    ELSE [search EXCEPT !.found = Append(@, endpoint)]

AnswerHeard ==
    /\ search.outcome = "listening"
    /\ \E answer \in Answers :
          search' = IF Meaningful(answer)
                    THEN [Admitted(answer.endpoint) EXCEPT !.heard = @ \cup {answer.endpoint}]
                    ELSE search

\* The time is up, or the socket fails.
SearchEnds ==
    /\ search.outcome = "listening"
    /\ search' = [search EXCEPT !.outcome = "ok"]

SearchBegins ==
    /\ search.outcome # "listening"
    /\ search' = Listening

SearchNext == AnswerHeard \/ SearchEnds \/ SearchBegins

SearchSpec == SearchInit /\ [][SearchNext]_search

-------------------------------------------------------------------------------
\* A search that ends well has found every camera that answered, once; it gives
\* up only if there are more than it may find (discover).
SearchComplete ==
    /\ search.outcome = "ok" => Found = search.heard /\ Len(search.found) = Cardinality(Found)
    /\ search.outcome = "limit" => Cardinality(search.heard) > MaxResults
===============================================================================
