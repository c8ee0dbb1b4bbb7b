--------------------------- MODULE DeviceResolution ---------------------------
(***************************************************************************)
(* What a camera is asked before it is used (the adapters of                *)
(* src/src/device.rs and src/src/onvif.rs).                                 *)
(*                                                                         *)
(* A resolution is a conversation: an ONVIF camera is asked for itself, its *)
(* services, its profiles and one stream after the other, then a media      *)
(* worker tries each stream.  Any request may fail or run out of time, and  *)
(* the camera's own profiles may be edited in between.                      *)
(***************************************************************************)
EXTENDS Integers, Sequences, FiniteSets, SequencesExt

CONSTANTS
    Adapters,       \* camera configurations
    Reports,        \* lists of profiles a camera may have
    Missing,        \* a width or height that was not reported
    MaxSize,        \* the largest width or height parse_profiles accepts
    Largest         \* u32::MAX

VARIABLES
    adapter,        \* the configuration of the camera that is being resolved
    camera,         \* the camera: profiles, and where its services are
    asking,         \* the step of the resolution
    movable,        \* it reported a PTZ service
    listed, chosen, \* its profiles, and those to be used with their roles
    streams,        \* what has been resolved
    control         \* token for PTZ requests

deviceVars == <<adapter, camera, asking, movable, listed, chosen, streams, control>>
taskVars == <<asking, movable, listed, chosen, streams, control>>

\* What parse_profiles lets through, and the configuration's types.
Sizes == (1..MaxSize) \cup {Missing}
Profiles == [token : STRING, width : Sizes, height : Sizes, ptz : BOOLEAN]
Streams == [role : {"main", "sub"}, url : STRING]

ASSUME ResolutionAssumption ==
    /\ MaxSize \in Nat /\ Missing \notin Nat
    /\ Largest \in Nat /\ MaxSize * MaxSize < Largest
    /\ Reports \subseteq Seq(Profiles)
    /\ \A a \in Adapters :
          \/ a.kind = "rtsp" /\ a.streams \in Seq(Streams)
          \/ a.kind = "onvif" /\ {a.main, a.sub} \subseteq STRING

NoToken == "none"
Places == {"nowhere", "here", "elsewhere"}

-------------------------------------------------------------------------------
(* select_profiles.                                                        *)

OrElse(size, other) == IF size = Missing THEN other ELSE size
Area(profile, other) == OrElse(profile.width, other) * OrElse(profile.height, other)

Tokens(list) == {list[i].token : i \in DOMAIN list}
First(list, token) == list[CHOOSE i \in DOMAIN list :
    list[i].token = token /\ \A j \in 1..(i - 1) : list[j].token # token]

\* A size that was not reported counts as none where the largest picture is
\* looked for ...
Larger(p, q) == Area(p, 0) > Area(q, 0)
\* Defective: it counts as none where the smallest is looked for too.
SmallerReported(p, q) == Area(p, 0) < Area(q, 0)
\* ... and as huge where the smallest is.
Smaller(p, q) == Area(p, Largest) < Area(q, Largest)

\* max_by_key returns the last of several, min_by_key the first.
LastLargest(list) == CHOOSE i \in DOMAIN list : \A j \in DOMAIN list :
    ~Larger(list[j], list[i]) /\ (j > i => Larger(list[i], list[j]))
FirstSmallest(list, among) == CHOOSE i \in among : \A j \in among :
    ~Smaller(list[j], list[i]) /\ (j < i => Smaller(list[i], list[j]))

Others(list, main) == {i \in DOMAIN list : list[i].token # main.token}

\* The configured profiles must exist and differ; else the largest picture is the
\* main stream and the smallest of the others the second one.
Selectable(list) ==
    /\ list # << >>
    /\ {adapter.main, adapter.sub} \subseteq Tokens(list) \cup {NoToken}
Main(list) ==
    IF adapter.main # NoToken THEN First(list, adapter.main) ELSE list[LastLargest(list)]
Sub(list) ==
    IF adapter.sub # NoToken THEN << First(list, adapter.sub) >>
    ELSE LET others == Others(list, Main(list)) IN
         IF others = {} THEN << >> ELSE << list[FirstSmallest(list, others)] >>
Distinct(list) == \A i \in DOMAIN Sub(list) : Sub(list)[i].token # Main(list).token
Role(role, profile) == [role |-> role, profile |-> profile]
Selected(list) ==
    << Role("main", Main(list)) >>
    \o [i \in DOMAIN Sub(list) |-> Role("sub", Sub(list)[i])]

-------------------------------------------------------------------------------
(* A resolution.                                                           *)

\* Camera::validate, for the streams of an RTSP camera.
Roles(list) == {list[i].role : i \in DOMAIN list}
ValidAdapter(a) == a.kind = "rtsp" =>
    /\ Len(a.streams) \in 1..2
    /\ Cardinality(Roles(a.streams)) = Len(a.streams)
    /\ "main" \in Roles(a.streams)

DeviceInit ==
    /\ adapter \in {a \in Adapters : ValidAdapter(a)}
    /\ camera \in [profiles : Reports, media : Places, ptz : Places]
    /\ asking = "idle" /\ movable = FALSE
    /\ listed = << >> /\ chosen = << >> /\ streams = << >> /\ control = NoToken

Fails == asking' = "failed" /\ UNCHANGED <<movable, listed, chosen, streams, control>>
Stage(now, next) == asking = now /\ asking' = next

\* resolve starts from nothing each time; an RTSP camera is taken at its word.
ResolutionBegins ==
    /\ asking \in {"idle", "failed", "resolved"}
    /\ IF adapter.kind = "onvif"
       THEN asking' = "information" /\ streams' = << >>
       ELSE asking' = "probing" /\ streams' = adapter.streams
    /\ movable' = FALSE /\ listed' = << >> /\ chosen' = << >> /\ control' = NoToken
    /\ UNCHANGED <<adapter, camera>>

InformationRead ==
    /\ Stage("information", "capabilities")
    /\ UNCHANGED <<movable, listed, chosen, streams, control, adapter, camera>>

\* A service on another host is refused, a camera without media useless.
CapabilitiesRead ==
    /\ asking = "capabilities"
    /\ IF camera.media = "here" /\ camera.ptz # "elsewhere"
       THEN /\ asking' = "profiles"
            /\ movable' = (camera.ptz = "here")
            /\ UNCHANGED <<listed, chosen, streams, control>>
       ELSE Fails
    /\ UNCHANGED <<adapter, camera>>

ProfilesRead ==
    /\ asking = "profiles"
    /\ IF Selectable(camera.profiles) /\ Distinct(camera.profiles)
       THEN /\ asking' = "streams"
            /\ listed' = camera.profiles
            /\ chosen' = Selected(camera.profiles)
            /\ UNCHANGED <<movable, streams, control>>
       ELSE Fails
    /\ UNCHANGED <<adapter, camera>>

\* get_stream_uri for the next chosen profile; a token the camera does not know
\* any more is a fault.
StreamRead ==
    /\ asking = "streams"
    /\ LET next == chosen[Len(streams) + 1] IN
       IF next.profile.token \in Tokens(camera.profiles)
       THEN /\ streams' = Append(streams, [role |-> next.role, url |-> next.profile.token])
            /\ asking' = IF Len(streams') = Len(chosen) THEN "probing" ELSE "streams"
            /\ control' = IF Len(streams') = Len(chosen) /\ movable /\ chosen[1].profile.ptz
                          THEN chosen[1].profile.token ELSE NoToken
            /\ UNCHANGED <<movable, listed, chosen>>
       ELSE Fails
    /\ UNCHANGED <<adapter, camera>>

\* probe_streams: a media worker for each stream, or it is not usable.
Probed ==
    /\ Stage("probing", "resolved")
    /\ UNCHANGED <<movable, listed, chosen, streams, control, adapter, camera>>

\* Any request is refused or times out, any stream does not play.
RequestFails ==
    /\ asking \in {"information", "capabilities", "profiles", "streams", "probing"}
    /\ Fails
    /\ UNCHANGED <<adapter, camera>>

\* Somebody removes a profile on the camera itself.
ProfileRemoved ==
    /\ asking \in {"profiles", "streams"} /\ Len(camera.profiles) > 1
    /\ \E i \in DOMAIN camera.profiles :
          camera' = [camera EXCEPT !.profiles = RemoveAt(@, i)]
    /\ UNCHANGED <<adapter, taskVars>>

Conversation ==
    \/ InformationRead \/ CapabilitiesRead \/ ProfilesRead \/ StreamRead \/ Probed

DeviceNext ==
    \/ ResolutionBegins \/ Conversation \/ RequestFails \/ ProfileRemoved

DeviceSpec == DeviceInit /\ [][DeviceNext]_deviceVars

-------------------------------------------------------------------------------
(* Properties.                                                             *)

\* What a list of profiles should give, stated without the order of its search: a
\* picture whose size is known beats one whose size is not.
Known(p) == Missing \notin {p.width, p.height}
Beats(p, q, Better(_, _)) ==
    Known(p) /\ (~Known(q) \/ Better(p.width * p.height, q.width * q.height))
Larg(a, b) == a > b
Smal(a, b) == a < b
Best(p, candidates, Better(_, _)) == \A q \in candidates : ~Beats(q, p, Better)

\* A camera that was resolved has one main stream and at most one second stream,
\* of different profiles; those the configuration does not name are the largest
\* and the smallest other picture of one list the camera reported, whatever was
\* missing in it or removed meanwhile; and PTZ goes to the main stream's profile
\* if camera and profile have it (select_profiles, OnvifAdapter::resolve).
ResolvedDevice ==
    asking = "resolved" =>
        /\ Roles(streams) \in {{"main"}, {"main", "sub"}}
        /\ Len(streams) = Cardinality(Roles(streams))
        /\ control # NoToken => \E i \in DOMAIN streams :
                streams[i].role = "main" /\ streams[i].url = control
        /\ adapter.kind = "onvif" =>
             LET profiles == {listed[i] : i \in DOMAIN listed}
                 others == {p \in profiles : p.token # streams[1].url}
             IN  /\ streams[1].role = "main"
                 /\ \E main \in profiles :
                       /\ main.token = streams[1].url
                       /\ IF adapter.main = NoToken THEN Best(main, profiles, Larg)
                          ELSE main.token = adapter.main
                       /\ control # NoToken => main.ptz
                 /\ IF Len(streams) = 1 THEN others = {}
                    ELSE \E sub \in others :
                           /\ sub.token = streams[2].url
                           /\ IF adapter.sub = NoToken THEN Best(sub, others, Smal)
                              ELSE sub.token = adapter.sub
===============================================================================
