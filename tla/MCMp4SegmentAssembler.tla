------------------------ MODULE MCMp4SegmentAssembler ------------------------
EXTENDS Mp4SegmentAssembler

\* An init segment, a plain pair, and a pair with a box that is neither.
MCBoxes == <<"other", "moof", "mdat", "moof", "other", "mdat">>
=============================================================================
