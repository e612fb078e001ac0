---------------------------- MODULE MCTableFloor ----------------------------
(* Small instances of TableFloor: two shops, one table each, and a customer  *)
(* page that asks for the demo table in both.                                *)
EXTENDS TableFloor, TLC

CONSTANTS s1, s2, a, b, n1, n2

MCInitialTables == (a :> [shop |-> s1, name |-> n1]) @@ (b :> [shop |-> s2, name |-> n1])

\* The merchant of s1 renames, adds and deletes tables, the demo table too;
\* customers order by id, by number, with another shop's id, and with the demo
\* id in both shops.
MCInputs ==
  {[op |-> "createOrder", shop |-> s1, ref |-> a],
   [op |-> "createOrder", shop |-> s1, ref |-> b],
   [op |-> "createOrder", shop |-> s2, ref |-> DemoId],
   [op |-> "createTable", shop |-> s1],
   [op |-> "updateTable", shop |-> s1, table |-> a, name |-> n2],
   [op |-> "deleteTable", shop |-> s1, table |-> a],
   [op |-> "deleteTable", shop |-> s1, table |-> DemoId]}
=============================================================================
