----------------------- MODULE MCExistingEngineProcess -----------------------
(* Both streams, one retained byte of each and one more that exceeds it,   *)
(* the selected program and one descendant of it.                          *)
EXTENDS ExistingEngineProcess

BothStreams == {"stdout", "stderr"}
=============================================================================
