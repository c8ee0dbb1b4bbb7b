------------------------- MODULE MCMediaSupervision --------------------------
(***************************************************************************)
(* Small instances of the search for a camera, its resolution and the      *)
(* supervision of its workers.  A behaviour is one of these three parts,   *)
(* which have no state in common.                                          *)
(***************************************************************************)
EXTENDS MediaSupervision, Discovery, DeviceResolution

CONSTANTS left, x, y, z

VARIABLE part

\* Supervision: one camera with every setting.
OneCamera == <<left>>
AnySetting == [cam \in Cameras |-> Settings]

\* Resolution: up to three profiles, two of which may be named in the
\* configuration, with sizes that are missing in part or whole.
Profile(token, size, ptz) == [token |-> token, width |-> size[1], height |-> size[2], ptz |-> ptz]
Pictures == {<<Missing, 1>>, <<1, 1>>, <<2, 1>>}
Lists ==
    {<< >>} \cup {<<Profile("a", s, TRUE)>> : s \in Pictures}
    \cup {<<Profile("a", s, FALSE), Profile(token, t, TRUE)>> : s, t \in Pictures, token \in {"a", "b"}}
    \cup {<<Profile("a", s, FALSE), Profile("b", t, TRUE), Profile("c", <<1, 1>>, TRUE)>> :
          s, t \in Pictures}
Stream(role) == [role |-> role, url |-> role]
Configurations ==
    [kind : {"onvif"}, main : {"none", "b"}, sub : {"none", "a"}]
    \cup [kind : {"rtsp"}, streams : {<< >>, <<Stream("main")>>, <<Stream("sub")>>,
                                      <<Stream("sub"), Stream("main")>>}]

\* The search: one camera more than may be found.
ThreeEndpoints == {x, y, z}

MCInit ==
    /\ part \in {"supervision", "resolution", "search"}
    /\ MediaInit /\ DeviceInit /\ SearchInit
    /\ part # "supervision" => config[left] = "none"
    /\ part # "resolution" =>
          /\ adapter.kind = "rtsp" /\ Len(adapter.streams) = 1
          /\ camera.profiles = << >> /\ camera.media = "here" /\ camera.ptz = "here"

MCNext ==
    /\ UNCHANGED part
    /\ \/ part = "supervision" /\ MediaNext /\ UNCHANGED <<deviceVars, search>>
       \/ part = "resolution" /\ DeviceNext /\ UNCHANGED <<mediaVars, search>>
       \/ part = "search" /\ SearchNext /\ UNCHANGED <<mediaVars, deviceVars>>

MCSpec == MCInit /\ [][MCNext]_<<part, mediaVars, deviceVars, search>>
=============================================================================
