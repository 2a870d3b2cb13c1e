---------------------------- MODULE MCEventStore ----------------------------
(* Model values for EventStore. *)
EXTENDS EventStore, TLC

\* Threads are interchangeable.
ThreadSymmetry == Permutations(Threads)
=============================================================================
