------------------------------ MODULE MCToyPage ------------------------------
(* ToyPage with three presses. *)
EXTENDS ToyPage
=============================================================================
