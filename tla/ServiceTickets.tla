--------------------------- MODULE ServiceTickets ---------------------------
(***************************************************************************)
(* Waiter calls (apps/order-service/src/staff/staff.service.ts):           *)
(* callWaiter, and updateServiceTicketStatus with the two mutations that   *)
(* go through it.  An update reads the ticket, checks what it read, writes *)
(* with a WHERE on the status it read, reads the ticket again, and counts  *)
(* performance and rewards from that second read.  Each is one await, so   *)
(* the updates of several waiters interleave.                              *)
(***************************************************************************)
EXTENDS Naturals, FiniteSets

CONSTANTS
  Tickets, Staff, Nobody,
  Requests,  \* executions of updateServiceTicketStatus; each runs at most once
  Reopened   \* the tickets for which clients also ask for OPEN

Status == {"OPEN", "ACCEPTED", "RESOLVED"}
Targets(t) == IF t \in Reopened THEN Status ELSE {"ACCEPTED", "RESOLVED"}
Forward == Tickets \ Reopened

ASSUME NobodyAssumption == Nobody \notin Staff

VARIABLES
  status,      \* ServiceTicket.status; NONE before callWaiter
  assignee,    \* ServiceTicket.assignedStaffUserId
  resolver,    \* whose request wrote RESOLVED; the row does not keep it
  announced,   \* tickets with a CALL notification
  performance, \* today's StaffPerformance row of each member
  rewards,     \* REWARD notifications about each ticket
  request      \* local state of each execution

tickets == <<status, assignee, resolver>>
vars == <<status, assignee, resolver, announced, performance, rewards, request>>

Running == {"write", "reread", "count", "notify"}
RequestState ==
  [pc: {"idle", "done", "lost"} \cup Running, ticket: Tickets, actor: Staff,
   target: Status,
   read: {"NONE"} \cup Status,   \* the status it read, then the one it read again
   holder: Staff \cup {Nobody},  \* the assignee of the second read
   won: BOOLEAN]                 \* its write took effect

InFlight(r) == request[r].pc \in Running

Init ==
  /\ status = [t \in Tickets |-> "NONE"]
  /\ assignee = [t \in Tickets |-> Nobody]
  /\ resolver = [t \in Tickets |-> Nobody]
  /\ announced = {}
  /\ performance = [s \in Staff |-> [responded |-> 0, resolved |-> 0]]
  /\ rewards = [t \in Tickets |-> 0]
  /\ request \in [Requests ->
       {q \in [pc: {"idle"}, ticket: Tickets, actor: Staff, target: Status,
               read: {"NONE"}, holder: {Nobody}, won: {FALSE}] :
          q.target \in Targets(q.ticket)}]

-----------------------------------------------------------------------------
(* callWaiter: the ticket, then its notification. *)

CallWaiter(t) ==
  /\ status[t] = "NONE"
  /\ status' = [status EXCEPT ![t] = "OPEN"]
  /\ UNCHANGED <<assignee, resolver, announced, performance, rewards, request>>

\* Mutant: the notification is sent before the ticket is there.
AnnounceFirst(t) ==
  /\ t \notin announced
  /\ announced' = announced \cup {t}
  /\ UNCHANGED <<status, assignee, resolver, performance, rewards, request>>

Announce(t) ==
  /\ status[t] # "NONE" /\ t \notin announced
  /\ announced' = announced \cup {t}
  /\ UNCHANGED <<status, assignee, resolver, performance, rewards, request>>

-----------------------------------------------------------------------------
(* updateServiceTicketStatus. *)

\* Mutant: anybody may resolve.
AllowedToAnyone(target, from, holder, actor) ==
  /\ target = "ACCEPTED" => from = "OPEN"
  /\ target = "RESOLVED" => from = "ACCEPTED"

\* Mutant: the status is not looked at.
AllowedFromAnywhere(target, from, holder, actor) ==
  target = "RESOLVED" /\ holder # Nobody => holder = actor

\* The early returns on the first read.  OPEN is asked for freely.
Allowed(target, from, holder, actor) ==
  /\ target = "ACCEPTED" => from = "OPEN"
  /\ target = "RESOLVED" => from = "ACCEPTED"
  /\ target = "RESOLVED" /\ holder # Nobody => holder = actor

Read(r) ==
  LET q == request[r] IN
  /\ q.pc = "idle"
  /\ status[q.ticket] # "NONE"
  /\ Allowed(q.target, status[q.ticket], assignee[q.ticket], q.actor)
  /\ request' = [request EXCEPT ![r].pc = "write", ![r].read = status[q.ticket]]
  /\ UNCHANGED <<status, assignee, resolver, announced, performance, rewards>>

\* Mutant: the write names the ticket alone.
StillAlways(q) == TRUE

\* updateMany WHERE id AND status = the status that was read.
Still(q) == status[q.ticket] = q.read

Write(r) ==
  LET q == request[r] IN
  /\ q.pc = "write"
  /\ Still(q)
  /\ status' = [status EXCEPT ![q.ticket] = q.target]
  /\ assignee' = [assignee EXCEPT ![q.ticket] =
                    IF q.target = "ACCEPTED" THEN q.actor ELSE @]
  /\ resolver' = [resolver EXCEPT ![q.ticket] =
                    IF q.target = "RESOLVED" THEN q.actor ELSE @]
  /\ request' = [request EXCEPT ![r].pc = "reread", ![r].won = TRUE]
  /\ UNCHANGED <<announced, performance, rewards>>

WriteLost(r) ==
  /\ request[r].pc = "write"
  /\ ~Still(request[r])
  /\ request' = [request EXCEPT ![r].pc = "lost"]
  /\ UNCHANGED <<status, assignee, resolver, announced, performance, rewards>>

\* findUnique again: by now the ticket may be further along.
Reread(r) ==
  LET t == request[r].ticket IN
  /\ request[r].pc = "reread"
  /\ request' = [request EXCEPT ![r].pc = "count", ![r].read = status[t],
                                ![r].holder = assignee[t]]
  /\ UNCHANGED <<status, assignee, resolver, announced, performance, rewards>>

\* Mutant: a response is counted as resolved too.
ResolvedByAny(q) == 1

\* The upsert counts a response always, and a resolution when the second read
\* says RESOLVED.
ResolvedBy(q) == IF q.read = "RESOLVED" THEN 1 ELSE 0

CountPerformance(r) ==
  LET q == request[r] IN
  /\ q.pc = "count"
  /\ performance' = [s \in Staff |->
       IF s = q.holder
       THEN [responded |-> performance[s].responded + 1,
             resolved |-> performance[s].resolved + ResolvedBy(q)]
       ELSE performance[s]]
  /\ request' = [request EXCEPT ![r].pc = "notify"]
  /\ UNCHANGED <<status, assignee, resolver, announced, rewards>>

Reward(q) == IF q.read = "RESOLVED" /\ q.holder # Nobody THEN 1 ELSE 0

Notify(r) ==
  LET q == request[r] IN
  /\ q.pc = "notify"
  /\ rewards' = [rewards EXCEPT ![q.ticket] = @ + Reward(q)]
  /\ request' = [request EXCEPT ![r].pc = "done"]
  /\ UNCHANGED <<status, assignee, resolver, announced, performance>>

\* The process dies or an await throws: what follows the write is lost.
Abort(r) ==
  /\ InFlight(r)
  /\ request' = [request EXCEPT ![r].pc = "done"]
  /\ UNCHANGED <<status, assignee, resolver, announced, performance, rewards>>

Next ==
  \/ \E t \in Tickets : CallWaiter(t) \/ Announce(t)
  \/ \E r \in Requests :
       \/ Read(r) \/ Write(r) \/ WriteLost(r) \/ Reread(r)
       \/ CountPerformance(r) \/ Notify(r) \/ Abort(r)

Spec == Init /\ [][Next]_vars

-----------------------------------------------------------------------------
\* Tickets, counters and executions keep their shape, and a CALL notification
\* is about a ticket that exists, whenever callWaiter is interrupted.
TypeOK ==
  /\ status \in [Tickets -> {"NONE"} \cup Status]
  /\ assignee \in [Tickets -> Staff \cup {Nobody}]
  /\ resolver \in [Tickets -> Staff \cup {Nobody}]
  /\ announced \subseteq {t \in Tickets : status[t] # "NONE"}
  /\ performance \in [Staff -> [responded: Nat, resolved: Nat]]
  /\ rewards \in [Tickets -> Nat]
  /\ request \in [Requests -> RequestState]

Winners(t, target) ==
  {r \in Requests : /\ request[r].won /\ request[r].ticket = t
                    /\ request[r].target = target}

\* Of all the updates that raced on a ticket, those that took effect follow
\* one another: no acceptance without an opening before it, no resolution
\* without an acceptance, whoever reopened the ticket in between.
UpdatesTakeTurns ==
  \A t \in Tickets :
    /\ Cardinality(Winners(t, "ACCEPTED")) <= 1 + Cardinality(Winners(t, "OPEN"))
    /\ Cardinality(Winners(t, "RESOLVED")) <= Cardinality(Winners(t, "ACCEPTED"))

\* A ticket that is accepted or resolved is somebody's.
HeldTicketsHaveAHolder ==
  \A t \in Tickets : status[t] \in {"ACCEPTED", "RESOLVED"} => assignee[t] # Nobody

\* dev-freeze 4.1, as an abstract specification: racing updates implement it
\* on every ticket for which nobody asks for OPEN.
OnForward(f) == [t \in Forward |-> f[t]]
Promise == INSTANCE TicketPromise WITH
             Tickets <- Forward, status <- OnForward(status),
             assignee <- OnForward(assignee), resolver <- OnForward(resolver)
KeepsThePromise == Promise!Spec

\* Acceptances that found the ticket resolved when they read it again.
Overtaken(T) ==
  {r \in Requests : /\ request[r].won /\ request[r].ticket \in T
                    /\ request[r].target = "ACCEPTED"
                    /\ request[r].read = "RESOLVED"}

\* What is counted and rewarded for the tickets nobody reopens has happened,
\* but for an acceptance overtaken by the resolution, which the code counts
\* and rewards as a second resolution: a member's responses are the tickets
\* held and those resolved.  A crash may count less.
PerformanceBacked ==
  LET anything == Cardinality({r \in Requests : /\ request[r].won
                                                /\ request[r].ticket \in Reopened})
  IN /\ \A s \in Staff :
          LET held == {t \in Forward : assignee[t] = s}
              resolved == {t \in held : status[t] = "RESOLVED"}
          IN /\ performance[s].resolved
                  <= Cardinality(resolved) + Cardinality(Overtaken(held)) + anything
             /\ performance[s].responded
                  <= Cardinality(held) + Cardinality(resolved) + anything
     /\ \A t \in Forward :
          rewards[t] <= IF status[t] = "RESOLVED"
                        THEN 1 + Cardinality(Overtaken({t})) ELSE 0

=============================================================================
