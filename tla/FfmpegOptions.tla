--------------------------- MODULE FfmpegOptions ---------------------------
(***************************************************************************)
(* FfmpegOptions of ffmpeg/options.ts as functions of the configuration    *)
(* (which the constructor corrects in place) and of the probed             *)
(* capabilities: what the decoder is told, which encoder is chosen and the *)
(* chain of video filters between them.  A filter is its name; sizes, rate *)
(* control, profiles and levels are left out.                              *)
(***************************************************************************)
EXTENDS FfmpegCodecs, Sequences

CONSTANT RpiGpuMinimum \* RPI4_GPU_MINIMUM of settings.ts

MacOS == {"macOS.Apple", "macOS.Intel"}

\* #configureHwAccel: what remains of the hardware the user asked for.
ConfigureMacOS(config, codecs) ==
    [config EXCEPT
        !.decode = @ /\ "videotoolbox" \in codecs.accels,
        !.transcode = @ /\ "h264_videotoolbox" \in codecs.encoders]

ConfigureRaspbian(config, codecs) ==
    LET starved == config.decode /\ codecs.gpuMem < RpiGpuMinimum
    IN  [config EXCEPT
            !.decode = FALSE,
            !.transcode = /\ @
                          /\ ~starved
                          /\ "h264_v4l2m2m" \in codecs.encoders]

ConfigureQsv(config, codecs) ==
    LET ready == /\ config.transcode
                 /\ "qsv" \in codecs.accels
                 /\ "h264_qsv" \in codecs.encoders
                 /\ {"h264_qsv", "hevc_qsv"} \subseteq codecs.decoders
    IN  [config EXCEPT !.decode = ready, !.transcode = ready]

ConfigureHwAccel(config, codecs) ==
    CASE codecs.system \in MacOS -> ConfigureMacOS(config, codecs)
      [] codecs.system = "raspbian" -> ConfigureRaspbian(config, codecs)
      [] OTHER -> ConfigureQsv(config, codecs)

\* The decoder the command line asks for; "software" when it names none.
\* QSV names a decoder per codec, VideoToolbox only the accelerator.
VideoDecoder(config, codecs, codec) ==
    LET old == CASE codecs.system = "macOS.Apple" ->
                        codecs.generation < 3 \/ ~AtLeast8(codecs)
                 [] codecs.system = "macOS.Intel" -> TRUE
                 [] OTHER -> codecs.generation < 11
    IN  IF \/ codec = "unknown"
           \/ ~config.decode
           \/ codecs.system = "raspbian"
           \/ codec = "av1" /\ old
        THEN "software"
        ELSE IF codecs.system \in MacOS THEN "videotoolbox" ELSE "qsv"

\* Whether frames decoded or scaled in hardware stay in its memory: before
\* version 8 FFmpeg brings them back itself on macOS.
KeepsFrames(codecs) ==
    IF codecs.system \in MacOS THEN AtLeast8(codecs)
                               ELSE codecs.system # "raspbian"

\* #getHardwareTransferFilters
Upload(codecs) ==
    CASE codecs.system = "raspbian" -> <<"format">>
      [] codecs.system \in MacOS ->
             IF AtLeast8(codecs) THEN <<"format", "hwupload">> ELSE <<>>
      [] OTHER -> <<"hwupload">>

Download(codecs) ==
    IF ~KeepsFrames(codecs) THEN <<>>
    ELSE IF codecs.system \in MacOS THEN <<"hwdownload", "format">>
    ELSE <<"hwdownload">>

Transfer(codecs, decode, transcode) ==
    CASE ~decode /\ transcode -> Upload(codecs)
      [] decode /\ ~transcode -> Download(codecs)
      [] OTHER -> <<>>

Crop(config) == IF config.crop THEN <<"crop">> ELSE <<>>

\* #resolveEncoderOptions: a flag the caller leaves out is the configured
\* one, and a caller cannot switch on what the configuration has off.
Resolved(given, own) == own /\ given # "off"

\* #defaultVideoEncoderOptions: libx264.  A lower frame rate is applied
\* before the pixels are touched, a higher one after.
SoftwareChain(config, codecs, decode, transcode, o) ==
    LET pixels == Transfer(codecs, decode, transcode) \o Crop(config)
                  \o <<"scale">>
    IN  CASE o.fps = "lower" -> <<"fps">> \o pixels \o o.filters
          [] o.fps = "higher" -> pixels \o <<"fps">> \o o.filters
          [] OTHER -> pixels \o o.filters

\* #getScaleFilter, the scaler of the platform.
HardwareScale(codecs) ==
    IF ~KeepsFrames(codecs) THEN "scale"
    ELSE IF codecs.system \in MacOS THEN "scale_vt" ELSE "vpp_qsv"

\* A bug: the filters of the caller follow the scaler with no download.
Unbridged(config, codecs, decode, o) ==
    Crop(config) \o Transfer(codecs, decode, TRUE)
    \o <<HardwareScale(codecs)>> \o o.filters

\* #hardwareStreamContext: the scaler leaves frames on the GPU wherever it
\* is not the software one, and then the caller's filters need a download.
HardwareChain(config, codecs, decode, o) ==
    Crop(config) \o Transfer(codecs, decode, TRUE) \o <<HardwareScale(codecs)>>
    \o (IF o.filters # <<>> /\ HardwareScale(codecs) # "scale"
        THEN Download(codecs) ELSE <<>>)
    \o o.filters

\* #getHardwareDeviceInit
DeviceInit(codecs, decode) == ~decode /\ KeepsFrames(codecs)

HardwareEncoder(codecs) ==
    CASE codecs.system \in MacOS -> "h264_videotoolbox"
      [] codecs.system = "raspbian" -> "h264_v4l2m2m"
      [] OTHER -> "h264_qsv"

Software(config, codecs, o) ==
    LET decode == Resolved(o.decode, config.decode)
    IN  [encoder |-> "libx264", device |-> FALSE, assumed |-> decode,
         chain |-> SoftwareChain(config, codecs, decode,
                       Resolved(o.transcode, config.transcode), o)]

\* streamEncoder
StreamEncoder(config, codecs, o) ==
    LET decode == Resolved(o.decode, config.decode)
    IN  IF Resolved(o.transcode, config.transcode)
        THEN [encoder |-> HardwareEncoder(codecs),
              device |-> DeviceInit(codecs, decode), assumed |-> decode,
              chain |-> HardwareChain(config, codecs, decode, o)]
        ELSE Software(config, codecs, o)

\* hardwareEncodes and maxSourcePixels: what a plugin asks before it
\* chooses the source of a session.
HardwareEncodes(config, codecs, context) ==
    config.transcode /\ (context = "stream" \/ codecs.system # "raspbian")

PixelsCapped(config, codecs, context) ==
    HardwareEncodes(config, codecs, context) /\ codecs.system = "raspbian"

\* recordEncoder: never the encoder of the Raspberry Pi.
RecordEncoder(config, codecs, o) ==
    IF HardwareEncodes(config, codecs, "record")
    THEN StreamEncoder(config, codecs, o)
    ELSE Software(config, codecs, o)

\* audioEncoder
AudioEncoder(codecs) ==
    IF codecs.system \in MacOS /\ "aac_at" \in codecs.encoders THEN "aac_at"
    ELSE IF "libfdk_aac" \in codecs.encoders THEN "libfdk_aac" ELSE "none"
=============================================================================
