---------------------------- MODULE TicketPromise ----------------------------
(***************************************************************************)
(* What docs/PRD2.1-dev-freeze.md section 4.1 promises of a service        *)
(* ticket: OPEN -> ACCEPTED -> RESOLVED, accepted once, and resolved by    *)
(* nobody but the one who accepted it.                                     *)
(***************************************************************************)
CONSTANTS Tickets, Staff, Nobody

VARIABLES
  status,   \* of a ticket: NONE until it exists
  assignee, \* who accepted it
  resolver  \* who resolved it

vars == <<status, assignee, resolver>>

Init ==
  /\ status = [t \in Tickets |-> "NONE"]
  /\ assignee = [t \in Tickets |-> Nobody]
  /\ resolver = [t \in Tickets |-> Nobody]

Open(t) ==
  /\ status[t] = "NONE"
  /\ status' = [status EXCEPT ![t] = "OPEN"]
  /\ UNCHANGED <<assignee, resolver>>

Accept(t, s) ==
  /\ status[t] = "OPEN"
  /\ status' = [status EXCEPT ![t] = "ACCEPTED"]
  /\ assignee' = [assignee EXCEPT ![t] = s]
  /\ UNCHANGED resolver

Resolve(t) ==
  /\ status[t] = "ACCEPTED"
  /\ status' = [status EXCEPT ![t] = "RESOLVED"]
  /\ resolver' = [resolver EXCEPT ![t] = assignee[t]]
  /\ UNCHANGED assignee

Next ==
  \E t \in Tickets :
    Open(t) \/ (\E s \in Staff : Accept(t, s)) \/ Resolve(t)

Spec == Init /\ [][Next]_vars

=============================================================================
