---------------------------- MODULE MCVoiceUpload ----------------------------
EXTENDS VoiceUpload, TLC

Symmetry == Permutations(Uploads)
=============================================================================
