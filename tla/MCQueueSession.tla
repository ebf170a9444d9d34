--------------------------- MODULE MCQueueSession ---------------------------
(* QueueSession for TLC: guests and request slots are interchangeable. *)
EXTENDS QueueSession, TLC

Symmetry == Permutations(Entries) \cup Permutations(Requests)
=============================================================================
