--------------------------- MODULE MCReplyPipeline ---------------------------
(* ReplyPipeline on a short reply. *)
EXTENDS ReplyPipeline
=============================================================================
