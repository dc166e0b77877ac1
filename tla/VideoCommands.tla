--------------------------- MODULE VideoCommands ---------------------------
(***************************************************************************)
(* A plugin from the probe of FFmpeg to the video commands it runs: the    *)
(* probe settles, FfmpegOptions corrects the configuration, and streams,   *)
(* recordings and livestreams build their command lines from both, the     *)
(* last two through ffmpeg/record.ts.  Three parties must agree on where   *)
(* the frames are: the decoder, the chain of filters and the encoder, each *)
(* chosen by a function of its own.                                        *)
(***************************************************************************)
EXTENDS FfmpegOptions, FiniteSetsExt

CONSTANTS
    Configs,       \* what users ask for: records [decode, transcode, crop]
    CallerFilters, \* the filters callers append
    Requests       \* the options of one command: records
                   \* [codec, decode, transcode, filters, fps]

HardwareFilters == {"scale_vt", "vpp_qsv", "hwupload", "hwdownload"}

\* The filters of a caller run in system memory.
ASSUME VideoAssumption ==
    /\ CallerFilters \intersect HardwareFilters = {}
    /\ Configs \subseteq [decode : BOOLEAN, transcode : BOOLEAN, crop : BOOLEAN]
    /\ \A o \in Requests :
           o \in [codec : {"h264", "hevc", "av1", "unknown"},
                 decode : {"unset", "on", "off"},
                 transcode : {"unset", "on", "off"},
                 filters : Seq(CallerFilters),
                 fps : {"lower", "same", "higher"}]

VARIABLES
    config,    \* the configuration object; ready once it was corrected
    command    \* the command FFmpeg runs, NoCommand if none

videoVars == <<probe, config, command>>

NoCommand ==
    [kind |-> "none", decoder |-> "software", audio |-> "none",
     encoder |-> "none", device |-> FALSE, assumed |-> FALSE, chain |-> <<>>,
     filters |-> <<>>, asked |-> FALSE]

VideoInit ==
    /\ ProbeInit
    /\ \E c \in Configs :
           config = [decode |-> c.decode, transcode |-> c.transcode,
                     crop |-> c.crop, ready |-> FALSE]
    /\ command = NoCommand

\* The constructor, which a plugin reaches only with a probe that worked.
Construct ==
    /\ probe.stage = "ready"
    /\ ~config.ready
    /\ config' = [ConfigureHwAccel(config, Capabilities) EXCEPT !.ready = TRUE]
    /\ UNCHANGED <<probe, command>>

\* A command line: video is what the encoder functions return, filters the
\* chain FFmpeg ends up with, asked whether the caller overrode a flag.
CommandLine(kind, o, video, filters) ==
    [kind |-> kind, decoder |-> VideoDecoder(config, Capabilities, o.codec),
     audio |-> AudioEncoder(Capabilities),
     encoder |-> video.encoder, device |-> video.device,
     assumed |-> video.assumed, chain |-> video.chain, filters |-> filters,
     asked |-> "off" \in {o.decode, o.transcode}]

\* A live stream of a plugin: videoDecoder for the input, streamEncoder for
\* the output.
StreamLine(o) ==
    LET video == StreamEncoder(config, Capabilities, o)
    IN  CommandLine("stream", o, video, video.chain)

\* resolveBaseOptions: before version 8 a recording does not count on
\* frames that were decoded in hardware.  It keeps the filters of the
\* caller from the encoder.
RecordingRequest(o) ==
    [o EXCEPT !.decode = IF @ = "unset" /\ ~AtLeast8(Capabilities)
                         THEN "off" ELSE @,
              !.filters = <<>>]

\* buildRecordingCommandLine: the caller's filters are a second -filter:v,
\* and FFmpeg uses the last one.
RecordLine(o) ==
    LET video == RecordEncoder(config, Capabilities, RecordingRequest(o))
    IN  CommandLine("record", o, video,
            IF o.filters = <<>> THEN video.chain ELSE o.filters)

\* buildLivestreamCommandLine copies the video.
LivestreamLine(o) ==
    CommandLine("livestream", o,
        [encoder |-> "copy", device |-> FALSE, assumed |-> FALSE,
         chain |-> <<>>], o.filters)

Run(lines) ==
    /\ config.ready
    /\ command = NoCommand
    /\ command' \in lines
    /\ UNCHANGED <<probe, config>>

Stream == Run({StreamLine(o) : o \in Requests})
Record == Run({RecordLine(o) : o \in Requests})
Livestream == Run({LivestreamLine(o) : o \in Requests})

FfmpegEnds ==
    /\ command # NoCommand
    /\ command' = NoCommand
    /\ UNCHANGED <<probe, config>>

ProbeStep == ProbeNext /\ UNCHANGED <<config, command>>

VideoNext ==
    \/ ProbeStep
    \/ Construct
    \/ Stream
    \/ Record
    \/ Livestream
    \/ FfmpegEnds

\* The timer of a command expires, and an aborted signal kills it.
VideoSpec ==
    /\ VideoInit
    /\ [][VideoNext]_videoVars
    /\ WF_videoVars(CommandTimesOut /\ UNCHANGED <<config, command>>)
    /\ WF_videoVars(CommandCancelled /\ UNCHANGED <<config, command>>)
----------------------------------------------------------------------------
(***************************************************************************)
(* Where frames are.  FFmpeg is not part of the repository: what a filter  *)
(* takes and leaves is what options.ts says of it.                         *)
(***************************************************************************)

\* The memory a filter works in.
Needs(filter) ==
    CASE filter \in {"scale_vt", "vpp_qsv", "hwdownload"} -> "gpu"
      [] filter = "fps" -> "any"
      [] OTHER -> "system"

\* Where the decoder puts a frame.
Decoded ==
    IF command.decoder # "software" /\ KeepsFrames(Capabilities)
    THEN "gpu" ELSE "system"

\* Where the frames are when they reach the i-th filter, or the encoder
\* behind the last one: the last transfer decides.
FrameAt(i) ==
    LET moved == {j \in 1..(i - 1) :
                      command.filters[j] \in {"hwupload", "hwdownload"}}
    IN  CASE moved = {} -> Decoded
          [] OTHER -> IF command.filters[Max(moved)] = "hwupload"
                      THEN "gpu" ELSE "system"

InPlace(i) == Needs(command.filters[i]) \in {FrameAt(i), "any"}

\* The decoder does what the encoder was told it does.
Agreed ==
    (Decoded = "gpu") <=> (command.assumed /\ KeepsFrames(Capabilities))

\* Decoding and encoding both keep to the GPU.
AllOnGpu == /\ Decoded = "gpu"
            /\ command.encoder \in {"h264_videotoolbox", "h264_qsv"}
----------------------------------------------------------------------------
Stages == {"idle", "gpu", "version", "codecs", "hwaccels", "validate",
           "ready", "null"}

TypeOK ==
    /\ probe.stage \in Stages
    /\ {probe.accels, probe.pending, probe.passed} \subseteq
           SUBSET Accelerators
    /\ config.ready => probe.stage = "ready"
    /\ command # NoCommand => config.ready

\* A command names an accelerator only if it passed its trial, and an
\* encoder only if this FFmpeg listed it: the rejections of
\* probeFfmpegHwAccels reach every command line, through the corrections of
\* the constructor and past whatever flags the caller of one command sets.
HardwareProven ==
    /\ command.decoder # "software" => command.decoder \in probe.passed
    /\ command.encoder = "h264_qsv" => "qsv" \in probe.passed
    /\ {command.encoder, command.audio} \subseteq
           probe.codecs.encoders \union {"libx264", "copy", "none"}

\* Every filter and the encoder find the frames in the memory they work in,
\* and an upload finds its device: the transfers of
\* #getHardwareTransferFilters are in the right places on every platform,
\* before the scaler and before the filters of the caller.  Left out are
\* the commands whose decoder is not what the encoder assumes, recordings
\* with filters of their own, and crop where no frame leaves the GPU.
FramesInPlace ==
    LET usual == /\ command.kind \in {"stream", "record"}
                 /\ command.filters = command.chain
                 /\ Agreed
    IN  usual =>
            /\ \A i \in DOMAIN command.filters :
                   \/ InPlace(i)
                   \/ command.filters[i] = "crop" /\ AllOnGpu
            /\ \A i \in DOMAIN command.filters :
                   command.filters[i] = "hwupload" => command.device
            /\ command.encoder \in {"libx264", "h264_v4l2m2m"} =>
                   FrameAt(Len(command.filters) + 1) = "system"

\* What hardwareEncodes answers a plugin for a session of this kind is what
\* the encoder of that kind then does, unless the caller overrode a flag;
\* and the cap on the size of the source holds for no other encoder than
\* the one it is for.
CapabilityTold ==
    command.kind \in {"stream", "record"} =>
        /\ ~command.asked =>
               (HardwareEncodes(config, Capabilities, command.kind)
                    <=> command.encoder # "libx264")
        /\ command.encoder = "h264_v4l2m2m" =>
               PixelsCapped(config, Capabilities, command.kind)

\* Whatever a command line or an answer claims of this host is so: it was
\* tried, listed, and is what the encoders then do.
VideoInv == TypeOK /\ HardwareProven /\ CapabilityTold

\* probe() settles, even if a command of it never ends by itself, the first one
\* on a Raspberry Pi included.
ProbeEnds == Probing ~> (probe.stage \in {"ready", "null"})
=============================================================================
