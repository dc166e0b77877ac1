------------------------- MODULE MCRecordingProcess -------------------------
EXTENDS RecordingProcess

\* The shortest recording: an init segment and one media segment.
MCBoxes == <<"other", "moof", "mdat">>
=============================================================================
