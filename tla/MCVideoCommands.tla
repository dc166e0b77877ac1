--------------------------- MODULE MCVideoCommands ---------------------------
EXTENDS VideoCommands

\* Below and above the generations that decode AV1.
McHosts ==
    {[system |-> "macOS.Apple", generation |-> 2],
     [system |-> "macOS.Apple", generation |-> 3],
     [system |-> "macOS.Intel", generation |-> 0],
     [system |-> "raspbian", generation |-> 0],
     [system |-> "generic", generation |-> 10],
     [system |-> "generic", generation |-> 11]}

AllEncoders ==
    {"h264_videotoolbox", "h264_v4l2m2m", "h264_qsv", "aac_at", "libfdk_aac"}
AllDecoders == {"h264_qsv", "hevc_qsv"}

\* FFmpeg with everything, with no encoder of its own, and without one of
\* the decoders of QSV.
McInventories ==
    {[encoders |-> AllEncoders, decoders |-> AllDecoders],
     [encoders |-> {"libfdk_aac"}, decoders |-> AllDecoders],
     [encoders |-> AllEncoders \ {"aac_at"}, decoders |-> {"h264_qsv"}]}

McConfigs == [decode : BOOLEAN, transcode : BOOLEAN, crop : BOOLEAN]

McRequests ==
    [codec : {"h264", "av1", "unknown"}, decode : {"unset", "off"},
     transcode : {"unset", "off"}, filters : {<<>>, <<"caller">>},
     fps : {"lower", "same", "higher"}]
==============================================================================
