----------------------------- MODULE RtpDemuxer -----------------------------
(***************************************************************************)
(* RtpDemuxer of src/src/ffmpeg/rtp.ts: one UDP socket that tells RTP from *)
(* RTCP, passes both on to FFmpeg, and keeps FFmpeg's input fed with the   *)
(* last RTCP packet.  Every end of it is one abort, whose listeners settle *)
(* the promises, close the socket and stop both watchdogs in one turn.     *)
(***************************************************************************)
EXTENDS Naturals

CONSTANT InactivityTimeout   \* was an inactivityTimeout given?

VARIABLES
  demux,       \* the socket, and what node still owes of it
  demuxEnd,    \* signal.reason, or "live"
  inputReady,  \* the ready promise
  mediaReady,  \* the mediaReady promise
  lastRtcp,    \* is there a #lastRtcp?
  heartbeat,   \* is the heartbeat watchdog armed?
  inactivity,  \* is the inactivity watchdog armed?
  fed,         \* history: FFmpeg has had a packet of late
  demuxGone    \* asyncDispose: not called, awaiting "close", returned

demuxVars == <<demux, demuxEnd, inputReady, mediaReady, lastRtcp, heartbeat,
               inactivity, fed, demuxGone>>

Promise == {"pending", "resolved", "rejected"}

DemuxerTypeOK ==
  /\ demux \in {"none", "binding", "bound", "closing", "closed"}
  /\ demuxEnd \in {"live", "parent", "shutdown", "failed", "timeout"}
  /\ inputReady \in Promise
  /\ mediaReady \in Promise
  /\ {lastRtcp, heartbeat, inactivity, fed} \subseteq BOOLEAN
  /\ demuxGone \in {"no", "awaiting", "done"}

DemuxerInit ==
  /\ demux = "none"
  /\ demuxEnd = "live"
  /\ inputReady = "pending" /\ mediaReady = "pending"
  /\ lastRtcp = FALSE /\ fed = FALSE
  /\ heartbeat = FALSE /\ inactivity = FALSE
  /\ demuxGone = "no"

DemuxLive == demux # "none" /\ demuxEnd = "live"

Rejected(p) == IF p = "pending" THEN "rejected" ELSE p

\* The one abort.
End(reason) ==
  /\ demuxEnd' = reason
  /\ demux' = "closing"
  /\ inputReady' = Rejected(inputReady)
  /\ mediaReady' = Rejected(mediaReady)
  /\ heartbeat' = FALSE
  /\ inactivity' = FALSE

Stay == UNCHANGED <<demux, demuxEnd, inputReady, mediaReady, heartbeat, inactivity>>

\* The constructor.  On a parent signal that has aborted it does not bind.
Construct(aborted) ==
  /\ demux = "none"
  /\ IF aborted THEN End("parent")
     ELSE /\ demux' = "binding"
          /\ inactivity' = InactivityTimeout
          /\ UNCHANGED <<demuxEnd, inputReady, mediaReady, heartbeat>>
  /\ UNCHANGED <<lastRtcp, fed, demuxGone>>

\* "listening"
Listening ==
  /\ demux = "binding"
  /\ demux' = "bound"
  /\ inputReady' = "resolved"
  /\ UNCHANGED <<demuxEnd, mediaReady, lastRtcp, heartbeat, inactivity, fed, demuxGone>>

\* abort(), or the parent signal.
AbortDemuxer(reason) ==
  /\ DemuxLive
  /\ End(reason)
  /\ UNCHANGED <<lastRtcp, fed, demuxGone>>

\* "error": the bind failed, or the socket did later.
SocketError == AbortDemuxer("failed")

\* RtpPacketParser: a datagram of two bytes at least, told apart by the low
\* seven bits of its second byte.
PacketKind(octet) ==
  LET payloadType == octet % 128
  IN IF payloadType > 90 \/ payloadType = 0 THEN "rtp" ELSE "rtcp"

\* "message".  A runt is activity and nothing else.
Datagram(kind) ==
  /\ demux = "bound"
  /\ inactivity' = InactivityTimeout
  /\ IF kind = "rtcp" THEN lastRtcp' = TRUE /\ heartbeat' = TRUE
                      ELSE UNCHANGED <<lastRtcp, heartbeat>>
  /\ mediaReady' = IF kind = "rtp" THEN "resolved" ELSE mediaReady
  /\ fed' = (fed \/ kind # "runt")
  /\ UNCHANGED <<demux, demuxEnd, inputReady, demuxGone>>

\* A bug: the heartbeat does not arm itself again.
HeartbeatOnce ==
  /\ heartbeat
  /\ fed' = (fed \/ lastRtcp)
  /\ heartbeat' = FALSE
  /\ UNCHANGED <<demux, demuxEnd, inputReady, mediaReady, lastRtcp, inactivity, demuxGone>>

\* No RTCP for a while: the last packet is sent again, to the RTP port, and
\* the watchdog, which has just fired, is armed again.
HeartbeatFires ==
  /\ heartbeat
  /\ fed' = (fed \/ lastRtcp)
  /\ heartbeat' = TRUE
  /\ UNCHANGED <<demux, demuxEnd, inputReady, mediaReady, lastRtcp, inactivity, demuxGone>>

\* Nothing has come in for the whole window.
InactivityLapses == inactivity /\ AbortDemuxer("timeout")

\* "close"
SocketClosed ==
  /\ demux = "closing"
  /\ demux' = "closed"
  /\ UNCHANGED <<demuxEnd, inputReady, mediaReady, lastRtcp, heartbeat, inactivity, fed, demuxGone>>

\* asyncDispose
DisposeDemuxer ==
  /\ demuxGone = "no"
  /\ demuxGone' = "awaiting"
  /\ IF DemuxLive THEN End("shutdown") ELSE Stay
  /\ UNCHANGED <<lastRtcp, fed>>

DemuxerDisposed ==
  /\ demuxGone = "awaiting"
  /\ demux = "closed"
  /\ demuxGone' = "done"
  /\ UNCHANGED <<demux, demuxEnd, inputReady, mediaReady, lastRtcp, heartbeat, inactivity, fed>>

\* FFmpeg has read what it was sent and waits.
FfmpegWaits ==
  /\ fed
  /\ fed' = FALSE
  /\ UNCHANGED <<demux, demuxEnd, inputReady, mediaReady, lastRtcp, heartbeat, inactivity, demuxGone>>

-----------------------------------------------------------------------------
\* The socket, the promises and the watchdogs tell one story: ready is
\* answered with the bind or with the end, media only by a demuxer that was
\* bound, a live demuxer is watched from the bind on and beats from the
\* first RTCP on, and an ended one has no timer left.
DemuxerConsistent ==
  /\ demux \in {"none", "binding", "bound"} <=> demuxEnd = "live"
  /\ demux \in {"none", "binding"} => inputReady = "pending"
  /\ demux = "bound" => inputReady = "resolved"
  /\ demuxEnd # "live" => inputReady # "pending" /\ mediaReady # "pending"
  /\ mediaReady = "resolved" => inputReady = "resolved"
  /\ DemuxLive => inactivity = InactivityTimeout /\ heartbeat = lastRtcp
  /\ demuxEnd # "live" => ~heartbeat /\ ~inactivity
  /\ demuxGone = "done" => demux = "closed"

DemuxerInv == DemuxerTypeOK /\ DemuxerConsistent
=============================================================================
