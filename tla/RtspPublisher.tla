---------------------------- MODULE RtspPublisher -----------------------------
(***************************************************************************)
(* The connection of one publisher task of the phone library               *)
(* (src/src/rtsp_publish.rs, driven by PublisherWorker in mobile.rs): the   *)
(* RTSP requests that announce and record, pictures cut into RTP packets    *)
(* between them on the same connection, a keepalive, and the end.           *)
(*                                                                         *)
(* The Server (external) reads what was written in order, answers requests  *)
(* or refuses them, sends control packets when it likes, puts the units     *)
(* together again as RFC 6184 says, and may stop reading or break off.      *)
(* TCP and TLS appear as the room the connection has for what the Server    *)
(* has not read; a write that runs out of time may have left the beginning  *)
(* of its packet or request there, and what is written behind it is taken   *)
(* for the rest.  Everything starts afresh with each connection, so one     *)
(* life of a publisher after the other is the same few states.              *)
(***************************************************************************)
EXTENDS Naturals, Sequences, SequencesExt

CONSTANTS
    Payload,        \* bytes of a packet (1200)
    SequenceSize,   \* RTP sequence numbers (2^16)
    MaxSkip,        \* control packets skipped before an answer (32 KiB)
    Room,           \* what the connection takes without a reader
    Pictures,       \* access units: sequences of NAL units
    MaxPictures,    \* bound on the pictures of a connection
    MaxRequests,    \* bound on the requests of a connection
    MaxControl      \* bound on control packets waiting for the client

ASSUME RtspAssumption ==
    /\ {Payload, SequenceSize, MaxSkip, Room, MaxPictures, MaxRequests, MaxControl} \subseteq Nat
    /\ Payload > 2 /\ SequenceSize > 1 /\ Room > 0

VARIABLES
    step, method,   \* what the publisher does, and its request
    cseq,           \* CSeq of the last request
    number,         \* next RTP sequence number
    unsent,         \* packets of the picture that are still to be written
    wire,           \* written and not read by the Server
    answers,        \* sent by the Server and not read
    skipped,        \* control packets skipped by this request
    server,         \* state of the Server's side and what it is putting together
    offered,        \* history: pictures given to frame
    rebuilt         \* history: pictures the Server has put together

rtspVars == <<step, method, cseq, number, unsent, wire, answers, skipped, server,
              offered, rebuilt>>
clientVars == <<step, method, cseq, number, unsent, skipped, offered>>

Sps == [kind |-> "sps", size |-> 1]
Pps == [kind |-> "pps", size |-> 1]
NoUnit == [kind |-> "none", size |-> 0]
Garbled == [kind |-> "garbled", size |-> 1]
Control == [cseq |-> 0, ok |-> TRUE]
NoItem == [request |-> "nothing"]
NewServer == [state |-> "reading", recording |-> FALSE, next |-> SequenceSize,
              part |-> NoUnit, units |-> << >>, begun |-> NoItem]

\* A connection is there and the first request is about to be written.
Connected(first) ==
    /\ step' = "calling" /\ method' = "ANNOUNCE"
    /\ cseq' = 1 /\ number' = first
    /\ unsent' = << >> /\ wire' = << >> /\ answers' = << >> /\ skipped' = 0
    /\ server' = NewServer
    /\ offered' = << >> /\ rebuilt' = << >>

RtspInit ==
    /\ step = "ended" /\ method = "TEARDOWN"
    /\ cseq = 0 /\ number = 0
    /\ unsent = << >> /\ wire = << >> /\ answers = << >> /\ skipped = 0
    /\ server = NewServer
    /\ offered = << >> /\ rebuilt = << >>

-------------------------------------------------------------------------------
(* Packets.                                                                *)

\* Packetizer::packets: a unit that does not fit is cut behind its first byte,
\* which every fragment repeats in its header.
FragmentCount(unit) == (unit.size - 1 + Payload - 3) \div (Payload - 2)
Least(a, b) == IF a < b THEN a ELSE b
Fragment(unit, i, n, marker) ==
    [unit |-> unit.kind, from |-> 2 + (i - 1) * (Payload - 2),
     to |-> Least(unit.size, 1 + i * (Payload - 2)),
     start |-> i = 1, end |-> i = n, marker |-> marker /\ i = n]
PacketsOf(unit, marker) ==
    IF unit.size <= Payload
    THEN << [unit |-> unit.kind, from |-> 1, to |-> unit.size,
             start |-> TRUE, end |-> TRUE, marker |-> marker] >>
    ELSE LET n == FragmentCount(unit) IN [i \in 1..n |-> Fragment(unit, i, n, marker)]

\* Publisher::frame: parameter sets before a key picture, the marker on its end.
IsKey(picture) == \E i \in DOMAIN picture : picture[i].kind = "idr"
PictureMarker(picture, i) == i = Len(picture)
FramePackets(picture) ==
    FlattenSeq(
        (IF IsKey(picture) THEN << PacketsOf(Sps, FALSE), PacketsOf(Pps, FALSE) >> ELSE << >>)
        \o [i \in DOMAIN picture |-> PacketsOf(picture[i], PictureMarker(picture, i))])

\* Packetizer::packet: 16 bits that wrap.
NumberSaturated(n) == Least(n + 1, SequenceSize - 1)
NumberAfter(n) == (n + 1) % SequenceSize

-------------------------------------------------------------------------------
(* The publisher.                                                          *)

Reachable == server.state # "gone"
Call(next) == step' = "calling" /\ method' = next /\ cseq' = cseq + 1 /\ skipped' = 0
EndsTask == step' = "ended" /\ UNCHANGED <<method, cseq, skipped>>

\* A request that fails ends a publisher that is not connected yet; a later one
\* leaves the loop for close, which goes on whatever TEARDOWN brings.
Failed ==
    CASE method \in {"ANNOUNCE", "SETUP", "RECORD"} -> EndsTask
      [] method = "OPTIONS" -> Call("TEARDOWN")
      [] method = "TEARDOWN" -> step' = "shutting" /\ UNCHANGED <<method, cseq, skipped>>

Succeeded ==
    CASE method = "ANNOUNCE" -> Call("SETUP")
      [] method = "SETUP" -> Call("RECORD")
      [] method \in {"RECORD", "OPTIONS"} -> step' = "ready" /\ UNCHANGED <<method, cseq, skipped>>
      [] method = "TEARDOWN" -> step' = "shutting" /\ UNCHANGED <<method, cseq, skipped>>

\* What is written: whole, or only the beginning of it.
Request(whole) == [request |-> method, cseq |-> cseq, whole |-> whole]
MediaPacket(whole) == [request |-> "none", cseq |-> 0, number |-> number,
                       packet |-> Head(unsent), whole |-> whole]
Put(item) == Len(wire) < Room /\ Reachable /\ wire' = Append(wire, item)
\* A time limit that passes within write_all: something of the item is out, or nothing.
CutShort(item) == wire' = wire \/ Put(item)

\* request, written ...
RequestWritten ==
    /\ step = "calling"
    /\ Put(Request(TRUE))
    /\ step' = "waiting"
    /\ UNCHANGED <<method, cseq, number, unsent, answers, skipped, server, offered, rebuilt>>

\* ... and answered: read_response skips control packets, within a limit, and takes
\* only an answer to this request that grants it.
AnswerRead ==
    /\ step = "waiting" /\ answers # << >>
    /\ answers' = Tail(answers)
    /\ IF Head(answers) = Control
       THEN IF skipped < MaxSkip
            THEN skipped' = skipped + 1 /\ UNCHANGED <<step, method, cseq>>
            ELSE Failed
       ELSE IF Head(answers).ok /\ Head(answers).cseq = cseq THEN Succeeded ELSE Failed
    /\ UNCHANGED <<number, unsent, wire, server, offered, rebuilt>>

\* Five seconds for writing and answering together, or the connection is broken.
RequestFailsUnwritten ==
    /\ step = "calling" /\ CutShort(Request(FALSE))
    /\ Failed
    /\ UNCHANGED <<number, unsent, answers, server, offered, rebuilt>>
RequestFails ==
    /\ \/ step = "calling" /\ CutShort(Request(FALSE))
       \/ step = "waiting" /\ wire' = wire
    /\ Failed
    /\ UNCHANGED <<number, unsent, answers, server, offered, rebuilt>>

\* The next picture of the queue.
FrameTaken ==
    /\ step = "ready" /\ Len(offered) < MaxPictures
    /\ \E picture \in Pictures :
          /\ offered' = Append(offered, picture)
          /\ unsent' = FramePackets(picture)
    /\ step' = "sending"
    /\ UNCHANGED <<method, cseq, number, wire, answers, skipped, server, rebuilt>>

PacketWritten ==
    /\ step = "sending" /\ unsent # << >>
    /\ Put(MediaPacket(TRUE))
    /\ number' = NumberAfter(number)
    /\ unsent' = Tail(unsent)
    /\ UNCHANGED <<step, method, cseq, answers, skipped, server, offered, rebuilt>>

\* The picture is out; after fifteen seconds the session is kept alive as well.
FrameSent ==
    /\ step = "sending" /\ unsent = << >>
    /\ \/ step' = "ready" /\ UNCHANGED <<method, cseq, skipped>>
       \/ cseq < MaxRequests /\ Call("OPTIONS")
    /\ UNCHANGED <<number, unsent, wire, answers, server, offered, rebuilt>>

\* A packet that is not taken, or not all of it, within five seconds: the loop ends with
\* close.
PacketFails ==
    /\ step = "sending" /\ unsent # << >>
    /\ CutShort(MediaPacket(FALSE))
    /\ unsent' = << >>
    /\ Call("TEARDOWN")
    /\ UNCHANGED <<number, answers, server, offered, rebuilt>>

\* close: shutdown has to get its own last record out, and has no time limit.
ShutDown ==
    /\ step = "shutting"
    /\ Len(wire) < Room \/ ~Reachable
    /\ step' = "ended"
    /\ UNCHANGED <<method, cseq, number, unsent, wire, answers, skipped, server, offered, rebuilt>>

\* PublisherWorker is dropped: the task ends where it is, and nothing follows what it may
\* have begun to write.
Dropped ==
    /\ step # "ended"
    /\ step' = "ended"
    /\ UNCHANGED <<method, cseq, number, unsent, wire, answers, skipped, server, offered, rebuilt>>

\* A poll that is granted publishing finds the task finished and starts another.
Restarted == step = "ended" /\ \E first \in 0..(SequenceSize - 1) : Connected(first)

ClientStep ==
    \/ RequestWritten \/ AnswerRead \/ RequestFails
    \/ PacketWritten \/ FrameSent \/ PacketFails \/ ShutDown

-------------------------------------------------------------------------------
(* The Server (external).                                                  *)

\* It records once it granted RECORD, and knows the session since SETUP.
RequestRead ==
    /\ Head(wire).request # "none"
    /\ \E ok \in BOOLEAN :
          /\ answers' = Append(answers, [cseq |-> Head(wire).cseq, ok |-> ok])
          /\ server' = [server EXCEPT !.recording = (@ \/ (ok /\ Head(wire).request = "RECORD"))
                                                     /\ Head(wire).request # "TEARDOWN"]
    /\ UNCHANGED rebuilt

\* A packet out of turn loses what was being put together.
Joined(packet, inTurn) ==
    IF packet.start
    THEN [kind |-> packet.unit, size |-> packet.to]
    ELSE IF inTurn /\ server.part.kind = packet.unit /\ server.part.size + 1 = packet.from
    THEN [server.part EXCEPT !.size = packet.to]
    ELSE NoUnit

PacketRead ==
    /\ Head(wire).request = "none"
    /\ LET packet == Head(wire).packet
           inTurn == server.next \in {SequenceSize, Head(wire).number}
           unit == Joined(packet, inTurn)
           units == IF packet.end THEN Append(server.units, unit) ELSE server.units
       IN  IF ~server.recording THEN UNCHANGED <<server, rebuilt>>
           ELSE /\ server' = [server EXCEPT
                        !.next = (Head(wire).number + 1) % SequenceSize,
                        !.part = IF packet.end THEN NoUnit ELSE unit,
                        !.units = IF packet.marker THEN << >> ELSE units]
                /\ rebuilt' = IF packet.marker THEN Append(rebuilt, units) ELSE rebuilt
    /\ UNCHANGED answers

\* A beginning: the Server waits for the rest.
BeginningRead ==
    /\ server' = [server EXCEPT !.begun = Head(wire)]
    /\ UNCHANGED <<answers, rebuilt>>

\* What follows, TEARDOWN, is taken for the rest, and is too short or completes it: a
\* packet that ends the picture then ends with this text.  The Server may answer what
\* it makes of the request or of what remains of it.
RestRead ==
    /\ \/ rebuilt' = rebuilt
       \/ /\ server.begun.request = "none" /\ server.begun.packet.marker /\ server.recording
          /\ rebuilt' = Append(rebuilt, Append(server.units, Garbled))
    /\ \/ answers' = answers
       \/ \E n \in {server.begun.cseq, Head(wire).cseq} : \E ok \in BOOLEAN :
             answers' = Append(answers, [cseq |-> n, ok |-> ok])
    /\ UNCHANGED server

ServerReads ==
    /\ server.state = "reading" /\ wire # << >>
    /\ wire' = Tail(wire)
    /\ \/ server.begun # NoItem /\ RestRead
       \/ server.begun = NoItem /\ ~Head(wire).whole /\ BeginningRead
       \/ server.begun = NoItem /\ Head(wire).whole /\ (RequestRead \/ PacketRead)
    /\ UNCHANGED clientVars

ControlSent ==
    /\ server.state = "reading" /\ server.recording
    /\ Len(SelectSeq(answers, LAMBDA a : a = Control)) < MaxControl
    /\ answers' = Append(answers, Control)
    /\ UNCHANGED <<clientVars, wire, server, rebuilt>>

\* It stops reading, for good, or the connection breaks.
ServerTurns(state) ==
    /\ server.state = "reading" /\ step # "ended"
    /\ server' = [server EXCEPT !.state = state]
    /\ UNCHANGED <<clientVars, wire, answers, rebuilt>>

RtspNext ==
    \/ ClientStep
    \/ FrameTaken \/ Dropped \/ Restarted
    \/ ServerReads \/ ControlSent
    \/ \E state \in {"stalled", "gone"} : ServerTurns(state)

\* The task is polled and its time limits pass; a Server that reads goes on to.
RtspFairness == WF_rtspVars(ClientStep) /\ WF_rtspVars(ServerReads)

RtspSpec == RtspInit /\ [][RtspNext]_rtspVars /\ RtspFairness

-------------------------------------------------------------------------------
(* Properties.                                                             *)

\* Whatever the sizes of the units and wherever the sequence number wraps, the
\* Server puts together exactly the pictures that were given to frame, in their
\* order and with the parameter sets before every key picture, and it was
\* recording before the first packet reached it (Packetizer, frame, connect).
\* Only of the picture during which the publisher gave up may the last unit have
\* another end (TEARDOWN behind a packet that was cut short).
Decodable(picture) == IF IsKey(picture) THEN <<Sps, Pps>> \o picture ELSE picture
GaveUpIn(i) == i = Len(offered) /\ method = "TEARDOWN"
PicturesRebuilt ==
    /\ Len(rebuilt) <= Len(offered)
    /\ \A i \in DOMAIN rebuilt :
          LET picture == Decodable(offered[i]) IN
          \/ rebuilt[i] = picture
          \/ GaveUpIn(i) /\ rebuilt[i] = Append(Front(picture), Garbled)
    /\ step = "ready" /\ wire = << >> => Len(rebuilt) = Len(offered)

Closing == step = "shutting" \/ (step \in {"calling", "waiting"} /\ method = "TEARDOWN")

\* A publisher that failed is finished some time later, so that the next poll
\* starts another: whatever the Server answers or does not answer, as long as it
\* goes on reading or the connection breaks.
ClosesUnlessStalled == Closing ~> step = "ended" \/ server.state = "stalled"

\* The same without the exception, as the application expects it: "Native failures
\* retry at the next poll" (CameraService.kt:123), "control requests and media writes
\* have time limits" (docs/mobile.md:38).
FailureRetried == Closing ~> step = "ended"
===============================================================================
