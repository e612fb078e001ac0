-------------------------- MODULE OnboardingPromise --------------------------
(***************************************************************************)
(* What docs/PRD2.1-dev-freeze.md section 4.4 promises of an application:  *)
(* PENDING -> APPROVED | REJECTED, decided once; and what an approval is   *)
(* for: it names a shop that has staff, whom nobody takes away.            *)
(***************************************************************************)
CONSTANTS Applications, Shops, None

VARIABLES
  decision, \* of an application: NONE until it is submitted
  opened,   \* the shop an approval names
  staffed   \* shops with somebody on their staff

vars == <<decision, opened, staffed>>

Init ==
  /\ decision = [a \in Applications |-> "NONE"]
  /\ opened = [a \in Applications |-> None]
  /\ staffed = {}

Submit(a) ==
  /\ decision[a] = "NONE"
  /\ decision' = [decision EXCEPT ![a] = "PENDING"]
  /\ UNCHANGED <<opened, staffed>>

Hire(s) ==
  /\ staffed' = staffed \cup {s}
  /\ UNCHANGED <<decision, opened>>

Approve(a, s) ==
  /\ decision[a] = "PENDING"
  /\ s \in staffed
  /\ decision' = [decision EXCEPT ![a] = "APPROVED"]
  /\ opened' = [opened EXCEPT ![a] = s]
  /\ UNCHANGED staffed

Reject(a) ==
  /\ decision[a] = "PENDING"
  /\ decision' = [decision EXCEPT ![a] = "REJECTED"]
  /\ UNCHANGED <<opened, staffed>>

Next ==
  \/ \E a \in Applications : Submit(a) \/ Reject(a) \/ \E s \in Shops : Approve(a, s)
  \/ \E s \in Shops : Hire(s)

Spec == Init /\ [][Next]_vars

=============================================================================
