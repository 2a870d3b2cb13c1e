-------------------------- MODULE MCXiaozhiSession --------------------------
(* Model values for XiaozhiSession. *)
EXTENDS XiaozhiSession

\* Two packets of audio, so that the reader waits for room in the channel, or
\* a packet and a wake; and an abort.
MCMaxSent == [audio |-> 2, wake |-> 1, abort |-> 1]
MaxTotal == 2

MCNext == Next /\ sent'["audio"] + sent'["wake"] <= MaxTotal
MCSpec == Init /\ [][MCNext]_vars /\ Fairness

\* A packet of audio, a wake and an abort, where time matters more.
SmallMaxSent == [audio |-> 1, wake |-> 1, abort |-> 1]
=============================================================================
