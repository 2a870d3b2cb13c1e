---------------------------- MODULE MCVoiceSession ----------------------------
(* VoiceSession with short recordings and replies. *)
EXTENDS VoiceSession
=============================================================================
