---------------------------- MODULE SentenceLoop ----------------------------
(***************************************************************************)
(* What the rest of a connection relies on while a reply is spoken         *)
(* (handleTranscript() between tts start and tts stop): sentences are      *)
(* announced one after the other, a sentence begun under a cancelled       *)
(* context can only fail, and a failure ends the loop.  XiaozhiSession     *)
(* embeds this loop; ReplyPipeline implements it.                          *)
(***************************************************************************)
EXTENDS Naturals

CONSTANT MaxSentences

VARIABLES
    phase,      \* "speak" between sentences, "stream" or "doomed" in one, "stop"
    left,       \* sentences that will still come
    cancelled   \* the context of the turn

vars == <<phase, left, cancelled>>

Init == phase = "speak" /\ left \in 0..MaxSentences /\ cancelled \in BOOLEAN

Goes(from, to) == phase = from /\ phase' = to

Start ==
    /\ left > 0 /\ left' \in 0..(left - 1)
    /\ (~cancelled => left' = left - 1)
    /\ \/ Goes("speak", IF cancelled THEN "doomed" ELSE "stream") /\ UNCHANGED cancelled
       \/ Goes("speak", "stop") /\ cancelled' = TRUE

Spoken == Goes("stream", "speak") /\ UNCHANGED <<left, cancelled>>

Fails ==
    /\ Goes("stream", "stop") \/ Goes("doomed", "stop")
    /\ cancelled' = TRUE /\ UNCHANGED left

\* A cancelled reply may end early; only a complete one ends otherwise.
End == Goes("speak", "stop") /\ (left = 0 \/ cancelled) /\ UNCHANGED <<left, cancelled>>

Cancel == ~cancelled /\ cancelled' = TRUE /\ UNCHANGED <<phase, left>>

Next == Start \/ Spoken \/ Fails \/ End \/ Cancel

Spec == Init /\ [][Next]_vars
=============================================================================
