--------------------------- MODULE MCVoicePlayback ---------------------------
(* VoicePlayback with a short response and a shorter buffer. *)
EXTENDS VoicePlayback
=============================================================================
