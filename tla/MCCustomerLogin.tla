-------------------------- MODULE MCCustomerLogin --------------------------
(* Small instances of CustomerLogin. *)
EXTENDS CustomerLogin, TLC

RowsPerWay == [w \in Ways |-> IF w = "otp" THEN 2 ELSE 1]

FinishSymmetry == Permutations(Requests)
=============================================================================
