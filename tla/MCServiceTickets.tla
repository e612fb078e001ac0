-------------------------- MODULE MCServiceTickets --------------------------
(* Small instances of ServiceTickets. *)
EXTENDS ServiceTickets, TLC

RequestSymmetry == Permutations(Requests) \cup Permutations(Staff)
=============================================================================
