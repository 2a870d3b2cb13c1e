---------------------------- MODULE MCSpeechCache ---------------------------
(* Model values for SpeechCache. *)
EXTENDS SpeechCache

\* Requests are interchangeable and so are texts: with three requests and two
\* texts, either all ask for one text or all but one do.  Fixing which one
\* takes the place of a symmetry set, which liveness does not allow.
AnyOf(S) == CHOOSE x \in S : TRUE
Representative ==
    \/ \A r \in Requests : text[r] = AnyOf(Texts)
    \/ \A r \in Requests : text[r] = AnyOf(Texts) <=> r # AnyOf(Requests)

MCInit == Init /\ Representative

MCSpec == MCInit /\ [][Next]_vars /\ Serves
=============================================================================
