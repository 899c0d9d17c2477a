--------------------------- MODULE MCVoiceSession ---------------------------
(***************************************************************************)
(* An instance of VoiceSession for TLC: two sessions between two boots of  *)
(* the endpoint, and any number of boots.                                  *)
(***************************************************************************)
EXTENDS VoiceSession

BothWindows == {"enrollment", "placement"}
=============================================================================
