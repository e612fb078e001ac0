------------------------ MODULE ServiceTicketsProofs ------------------------
(***************************************************************************)
(* Theorems about ServiceTickets for every set of tickets, staff members   *)
(* and overlapping updates.                                                *)
(***************************************************************************)
EXTENDS ServiceTickets, FiniteSetTheorems, TLAPS

-----------------------------------------------------------------------------
(* Types. *)

LEMMA InitType == Init => TypeOK
<1> SUFFICES ASSUME Init PROVE TypeOK
  OBVIOUS
<1>1. request \in [Requests -> RequestState]
  BY DEF Init, RequestState
<1>. QED
  BY <1>1 DEF Init, TypeOK

\* What each step does to its request, whose ticket, actor and target stay.
RequestBecomes(r, q) ==
  /\ request' = [request EXCEPT ![r] = q]
  /\ q \in RequestState
  /\ q.ticket = request[r].ticket
  /\ q.actor = request[r].actor
  /\ q.target = request[r].target

LEMMA RequestSteps ==
  ASSUME TypeOK, NEW r \in Requests
  PROVE  /\ Read(r) => \E q : RequestBecomes(r, q) /\ q.pc = "write"
                              /\ q.read = status[q.ticket]
         /\ Write(r) => \E q : RequestBecomes(r, q) /\ q.pc # "write"
         /\ WriteLost(r) \/ Reread(r) \/ CountPerformance(r) \/ Notify(r) \/ Abort(r)
              => \E q : RequestBecomes(r, q) /\ q.pc # "write"
<1> USE DEF RequestBecomes, RequestState, Running
<1>1. request[r] \in RequestState /\ request[r].ticket \in Tickets
  BY DEF TypeOK
<1>2. status[request[r].ticket] \in {"NONE"} \cup Status
      /\ assignee[request[r].ticket] \in Staff \cup {Nobody}
  BY <1>1 DEF TypeOK
<1>3. ASSUME Read(r)
      PROVE  \E q : RequestBecomes(r, q) /\ q.pc = "write" /\ q.read = status[q.ticket]
  <2> DEFINE q == [request[r] EXCEPT !.pc = "write", !.read = status[request[r].ticket]]
  <2>1. request' = [request EXCEPT ![r] = q]
    BY <1>3 DEF Read
  <2>2. RequestBecomes(r, q) /\ q.pc = "write" /\ q.read = status[q.ticket]
    BY <1>1, <1>2, <2>1
  <2>. QED
    BY <2>2
<1>4. ASSUME Write(r)
      PROVE  \E q : RequestBecomes(r, q) /\ q.pc # "write"
  <2> DEFINE q == [request[r] EXCEPT !.pc = "reread", !.won = TRUE]
  <2>1. request' = [request EXCEPT ![r] = q]
    BY <1>4 DEF Write
  <2>2. RequestBecomes(r, q) /\ q.pc # "write"
    BY <1>1, <2>1
  <2>. QED
    BY <2>2
<1>5. ASSUME Reread(r)
      PROVE  \E q : RequestBecomes(r, q) /\ q.pc # "write"
  <2> DEFINE q == [request[r] EXCEPT !.pc = "count", !.read = status[request[r].ticket],
                                     !.holder = assignee[request[r].ticket]]
  <2>1. request' = [request EXCEPT ![r] = q]
    BY <1>5 DEF Reread
  <2>2. RequestBecomes(r, q) /\ q.pc # "write"
    BY <1>1, <1>2, <2>1
  <2>. QED
    BY <2>2
<1>6. ASSUME NEW pc \in {"lost", "notify", "done"},
             request' = [request EXCEPT ![r].pc = pc]
      PROVE  \E q : RequestBecomes(r, q) /\ q.pc # "write"
  <2> DEFINE q == [request[r] EXCEPT !.pc = pc]
  <2>1. request' = [request EXCEPT ![r] = q]
    BY <1>6
  <2>2. RequestBecomes(r, q) /\ q.pc # "write"
    BY <1>1, <2>1
  <2>. QED
    BY <2>2
<1>7. WriteLost(r) \/ CountPerformance(r) \/ Notify(r) \/ Abort(r) =>
        \E q : RequestBecomes(r, q) /\ q.pc # "write"
  BY <1>6 DEF WriteLost, CountPerformance, Notify, Abort
<1>. QED
  BY <1>3, <1>4, <1>5, <1>7

LEMMA NextType == TypeOK /\ [Next]_vars => TypeOK'
<1> SUFFICES ASSUME TypeOK, [Next]_vars PROVE TypeOK'
  OBVIOUS
<1> USE DEF TypeOK
<1>1. ASSUME NEW t \in Tickets, CallWaiter(t) \/ Announce(t) PROVE TypeOK'
  BY <1>1 DEF CallWaiter, Announce, Status
<1>2. ASSUME NEW r \in Requests,
             \/ Read(r) \/ Write(r) \/ WriteLost(r) \/ Reread(r)
             \/ CountPerformance(r) \/ Notify(r) \/ Abort(r)
      PROVE  request' \in [Requests -> RequestState]
  BY <1>2, RequestSteps DEF RequestBecomes
<1>3. ASSUME NEW r \in Requests,
             Read(r) \/ WriteLost(r) \/ Reread(r) \/ Abort(r)
      PROVE  TypeOK'
  BY <1>2, <1>3 DEF Read, WriteLost, Reread, Abort
<1>4. ASSUME NEW r \in Requests, Write(r) PROVE TypeOK'
  <2>1. request[r].target \in Status /\ request[r].actor \in Staff
    BY DEF RequestState
  <2>2. request[r].target # "NONE"
    BY <2>1 DEF Status
  <2>3. status' \in [Tickets -> {"NONE"} \cup Status]
    BY <1>4, <2>1 DEF Write
  <2>4. \A t \in Tickets : status[t] # "NONE" => status'[t] # "NONE"
    BY <1>4, <2>2 DEF Write
  <2>5. announced' \subseteq {t \in Tickets : status'[t] # "NONE"}
    BY <1>4, <2>4 DEF Write
  <2>6. assignee' \in [Tickets -> Staff \cup {Nobody}]
    BY <1>4, <2>1 DEF Write
  <2>7. resolver' \in [Tickets -> Staff \cup {Nobody}]
    BY <1>4, <2>1 DEF Write
  <2>8. UNCHANGED <<performance, rewards>>
    BY <1>4 DEF Write
  <2>. QED
    BY <1>2, <1>4, <2>3, <2>5, <2>6, <2>7, <2>8
<1>5. ASSUME NEW r \in Requests, CountPerformance(r) PROVE TypeOK'
  <2>1. ResolvedBy(request[r]) \in Nat
    BY DEF ResolvedBy
  <2>2. \A s \in Staff : [responded |-> performance[s].responded + 1,
                        resolved |-> performance[s].resolved + ResolvedBy(request[r])]
                       \in [responded: Nat, resolved: Nat]
    BY <2>1
  <2>3. performance' \in [Staff -> [responded: Nat, resolved: Nat]]
    BY <1>5, <2>2 DEF CountPerformance
  <2>4. UNCHANGED <<status, assignee, resolver, announced, rewards>>
    BY <1>5 DEF CountPerformance
  <2>5. request' \in [Requests -> RequestState]
    BY <1>5, RequestSteps DEF RequestBecomes
  <2>. QED
    BY <2>3, <2>4, <2>5
<1>6. ASSUME NEW r \in Requests, Notify(r) PROVE TypeOK'
  <2>1. UNCHANGED <<status, assignee, resolver, announced, performance>>
    BY <1>6 DEF Notify
  <2>2. request[r].ticket \in Tickets
    BY DEF RequestState
  <2>3. rewards[request[r].ticket] + Reward(request[r]) \in Nat
    BY <2>2 DEF Reward
  <2>4. rewards' \in [Tickets -> Nat]
    BY <1>6, <2>3 DEF Notify
  <2>. QED
    BY <1>2, <1>6, <2>1, <2>4
<1>7. CASE UNCHANGED vars
  BY <1>7 DEF vars
<1>. QED
  BY <1>1, <1>3, <1>4, <1>5, <1>6, <1>7 DEF Next

\* Tickets, counters and executions keep their types.
THEOREM TypeCorrectness == Spec => []TypeOK
BY InitType, NextType, PTL DEF Spec

-----------------------------------------------------------------------------
(* What an update that is about to write has read.                           *)

ReadsSound ==
  \A r \in Requests : request[r].pc = "write" =>
    /\ request[r].target = "ACCEPTED" => request[r].read = "OPEN"
    /\ request[r].target = "RESOLVED" => request[r].read = "ACCEPTED"

HolderInv == TypeOK /\ ReadsSound /\ HeldTicketsHaveAHolder

LEMMA NextHolder == HolderInv /\ [Next]_vars => HolderInv'
<1> SUFFICES ASSUME HolderInv, [Next]_vars PROVE HolderInv'
  OBVIOUS
<1>1. TypeOK'
  BY NextType DEF HolderInv
<1> USE DEF HolderInv, TypeOK, RequestState, Running, Status, ReadsSound,
            HeldTicketsHaveAHolder
<1>2. ASSUME NEW t \in Tickets, CallWaiter(t) \/ Announce(t)
      PROVE  ReadsSound' /\ HeldTicketsHaveAHolder'
  BY <1>2 DEF CallWaiter, Announce
<1>3. ASSUME NEW r \in Requests, Read(r)
      PROVE  ReadsSound' /\ HeldTicketsHaveAHolder'
  BY <1>3 DEF Read, Allowed
<1>4. ASSUME NEW r \in Requests, Write(r)
      PROVE  ReadsSound' /\ HeldTicketsHaveAHolder'
  BY <1>4, NobodyAssumption DEF Write, Still
<1>5. ASSUME NEW r \in Requests,
             \/ WriteLost(r) \/ Reread(r) \/ CountPerformance(r)
             \/ Notify(r) \/ Abort(r)
      PROVE  ReadsSound' /\ HeldTicketsHaveAHolder'
  <2>1. PICK q : RequestBecomes(r, q) /\ q.pc # "write"
    BY <1>5, RequestSteps
  <2>2. UNCHANGED tickets
    BY <1>5 DEF WriteLost, Reread, CountPerformance, Notify, Abort, tickets
  <2>. QED
    BY <2>1, <2>2 DEF RequestBecomes, tickets
<1>6. CASE UNCHANGED vars
  BY <1>6 DEF vars
<1>. QED
  BY <1>1, <1>2, <1>3, <1>4, <1>5, <1>6 DEF Next

LEMMA InitHolder == Init => HolderInv
BY InitType DEF Init, HolderInv, ReadsSound, HeldTicketsHaveAHolder

\* Whatever updates race, with reopenings or without, a ticket that is
\* accepted or resolved has an assignee.
THEOREM HoldersKnown == Spec => []HeldTicketsHaveAHolder
<1>1. HolderInv => HeldTicketsHaveAHolder
  BY DEF HolderInv
<1>. QED
  BY <1>1, InitHolder, NextHolder, PTL DEF Spec

-----------------------------------------------------------------------------
(* On a ticket for which nobody asks for OPEN, racing updates implement the  *)
(* promise: an update about to resolve it is its assignee's and stays so,    *)
(* because the ticket cannot be accepted a second time.                      *)

TargetsKept == \A r \in Requests : request[r].target \in Targets(request[r].ticket)

ResolversHold ==
  \A r \in Requests :
    request[r].pc = "write" /\ request[r].target = "RESOLVED"
      /\ request[r].ticket \in Forward =>
        /\ status[request[r].ticket] \in {"ACCEPTED", "RESOLVED"}
        /\ assignee[request[r].ticket] = request[r].actor

ForwardInv == HolderInv /\ TargetsKept /\ ResolversHold

LEMMA NextTargets ==
  ASSUME TypeOK, TargetsKept, [Next]_vars
  PROVE  TargetsKept' /\ \A r \in Requests :
           /\ request'[r].target = request[r].target
           /\ request'[r].ticket = request[r].ticket
           /\ request'[r].actor = request[r].actor
<1>1. ASSUME NEW t \in Tickets, CallWaiter(t) \/ Announce(t)
      PROVE  request' = request
  BY <1>1 DEF CallWaiter, Announce
<1>2. ASSUME NEW r \in Requests,
             \/ Read(r) \/ Write(r) \/ WriteLost(r) \/ Reread(r)
             \/ CountPerformance(r) \/ Notify(r) \/ Abort(r)
      PROVE  \A q \in Requests :
               /\ request'[q].target = request[q].target
               /\ request'[q].ticket = request[q].ticket
               /\ request'[q].actor = request[q].actor
  BY <1>2, RequestSteps DEF RequestBecomes, TypeOK
<1>3. UNCHANGED vars => request' = request
  BY DEF vars
<1>4. \A r \in Requests :
        /\ request'[r].target = request[r].target
        /\ request'[r].ticket = request[r].ticket
        /\ request'[r].actor = request[r].actor
  BY <1>1, <1>2, <1>3 DEF Next
<1>. QED
  BY <1>4 DEF TargetsKept

LEMMA NextForward == ForwardInv /\ [Next]_vars => ForwardInv'
<1> SUFFICES ASSUME ForwardInv, [Next]_vars PROVE ForwardInv'
  OBVIOUS
<1>1. HolderInv' /\ TargetsKept'
  BY NextHolder, NextTargets DEF ForwardInv, HolderInv
<1> USE DEF ForwardInv, Forward, Targets, HolderInv, TypeOK, RequestState, Running,
            Status, ReadsSound, TargetsKept, HeldTicketsHaveAHolder, ResolversHold
<1>2. ASSUME NEW t \in Tickets, CallWaiter(t) \/ Announce(t)
      PROVE  ResolversHold'
  BY <1>2 DEF CallWaiter, Announce
<1>3. ASSUME NEW r \in Requests, Read(r)
      PROVE  ResolversHold'
  BY <1>3 DEF Read, Allowed
<1>4. ASSUME NEW r \in Requests, Write(r)
      PROVE  ResolversHold'
  BY <1>4 DEF Write, Still
<1>5. ASSUME NEW r \in Requests,
             \/ WriteLost(r) \/ Reread(r) \/ CountPerformance(r)
             \/ Notify(r) \/ Abort(r)
      PROVE  ResolversHold'
  <2>1. PICK q : RequestBecomes(r, q) /\ q.pc # "write"
    BY <1>5, RequestSteps
  <2>2. UNCHANGED tickets
    BY <1>5 DEF WriteLost, Reread, CountPerformance, Notify, Abort, tickets
  <2>. QED
    BY <2>1, <2>2 DEF RequestBecomes, tickets
<1>6. CASE UNCHANGED vars
  BY <1>6 DEF vars
<1>. QED
  BY <1>1, <1>2, <1>3, <1>4, <1>5, <1>6 DEF Next

LEMMA InitForward == Init => ForwardInv
<1> SUFFICES ASSUME Init PROVE ForwardInv
  OBVIOUS
<1>1. HolderInv
  BY InitHolder
<1>2. TargetsKept /\ ResolversHold
  BY DEF Init, TargetsKept, ResolversHold
<1>. QED
  BY <1>1, <1>2 DEF ForwardInv

\* Every step is one of the promise's, or leaves the tickets alone.
LEMMA StepKeepsThePromise ==
  ASSUME ForwardInv, [Next]_vars
  PROVE  [Promise!Next]_(Promise!vars)
<1> USE DEF OnForward
<1>0. ASSUME UNCHANGED tickets PROVE UNCHANGED Promise!vars
  BY <1>0 DEF tickets, Promise!vars
<1>1. ASSUME NEW t \in Tickets, CallWaiter(t)
      PROVE  [Promise!Next]_(Promise!vars)
  <2>1. CASE t \in Forward
    <3>1. Promise!Open(t)
      BY <1>1, <2>1 DEF CallWaiter, Promise!Open, ForwardInv, HolderInv, TypeOK, Forward
    <3>. QED
      BY <2>1, <3>1 DEF Promise!Next
  <2>2. CASE t \notin Forward
    BY <1>1, <2>2 DEF CallWaiter, Promise!vars, ForwardInv, HolderInv, TypeOK
  <2>. QED
    BY <2>1, <2>2
<1>2. ASSUME NEW t \in Tickets, Announce(t)
      PROVE  UNCHANGED tickets
  BY <1>2 DEF Announce, tickets
<1>3. ASSUME NEW r \in Requests, Write(r)
      PROVE  [Promise!Next]_(Promise!vars)
  <2> DEFINE t == request[r].ticket
  <2>1. /\ t \in Tickets /\ request[r].actor \in Staff
        /\ request[r].target \in Targets(t)
        /\ request[r].pc = "write" /\ status[t] = request[r].read
        /\ status \in [Tickets -> {"NONE"} \cup Status]
        /\ assignee \in [Tickets -> Staff \cup {Nobody}]
        /\ resolver \in [Tickets -> Staff \cup {Nobody}]
    BY <1>3 DEF Write, Still, ForwardInv, HolderInv, TypeOK, RequestState, TargetsKept
  <2>2. CASE t \notin Forward
    BY <1>3, <2>1, <2>2 DEF Write, Promise!vars, Forward
  <2>3. CASE t \in Forward /\ request[r].target = "ACCEPTED"
    <3>1. status[t] = "OPEN"
      BY <2>1, <2>3 DEF ForwardInv, HolderInv, ReadsSound
    <3>2. Promise!Accept(t, request[r].actor)
      BY <1>3, <2>1, <2>3, <3>1 DEF Write, Promise!Accept, Forward
    <3>3. \E u \in Forward, m \in Staff : Promise!Accept(u, m)
      BY <2>1, <2>3, <3>2 DEF Promise!Accept
    <3>. QED
      BY <3>3 DEF Promise!Next
  <2>4. CASE t \in Forward /\ request[r].target = "RESOLVED"
    <3>1. status[t] = "ACCEPTED" /\ assignee[t] = request[r].actor
      BY <2>1, <2>4 DEF ForwardInv, HolderInv, ReadsSound, ResolversHold
    <3>2. Promise!Resolve(t)
      BY <1>3, <2>1, <2>4, <3>1 DEF Write, Promise!Resolve, Forward
    <3>3. \E u \in Forward : Promise!Resolve(u)
      BY <2>4, <3>2 DEF Promise!Resolve
    <3>. QED
      BY <3>3 DEF Promise!Next
  <2>. QED
    BY <2>1, <2>2, <2>3, <2>4 DEF Targets, Forward
<1>4. ASSUME NEW r \in Requests,
             \/ Read(r) \/ WriteLost(r) \/ Reread(r) \/ CountPerformance(r)
             \/ Notify(r) \/ Abort(r)
      PROVE  UNCHANGED tickets
  BY <1>4 DEF Read, WriteLost, Reread, CountPerformance, Notify, Abort, tickets
<1>5. UNCHANGED vars => UNCHANGED tickets
  BY DEF vars, tickets
<1>. QED
  BY <1>0, <1>1, <1>2, <1>3, <1>4, <1>5 DEF Next

LEMMA InitKeepsThePromise == Init => Promise!Init
BY DEF Init, Promise!Init, OnForward, Forward

\* Whatever updates race, the tickets nobody reopens implement dev-freeze 4.1.
THEOREM PromiseKept == Spec => KeepsThePromise
<1>1. Init => ForwardInv
  BY InitForward
<1>2. ForwardInv /\ [Next]_vars => ForwardInv'
  BY NextForward
<1>3. ForwardInv /\ [Next]_vars => [Promise!Next]_(Promise!vars)
  BY StepKeepsThePromise
<1>. QED
  BY <1>1, <1>2, <1>3, InitKeepsThePromise, PTL DEF Spec, KeepsThePromise, Promise!Spec

-----------------------------------------------------------------------------
(* Cardinalities. *)

LEMMA SubsetCount ==
  ASSUME NEW T, IsFiniteSet(T), NEW S, S \subseteq T
  PROVE  /\ IsFiniteSet(S)
         /\ Cardinality(S) \in Nat /\ Cardinality(T) \in Nat
         /\ Cardinality(S) <= Cardinality(T)
BY FS_Subset, FS_CardinalityType

LEMMA OneMore ==
  ASSUME NEW S, IsFiniteSet(S), NEW x, x \notin S
  PROVE  /\ IsFiniteSet(S \cup {x})
         /\ Cardinality(S) \in Nat
         /\ Cardinality(S \cup {x}) = Cardinality(S) + 1
BY FS_AddElement, FS_CardinalityType

\* A set whose elements are told apart by a function into T is no larger.
LEMMA ToldApart ==
  ASSUME NEW T, IsFiniteSet(T), NEW S, NEW f \in [S -> T],
         \A x, y \in S : f[x] = f[y] => x = y
  PROVE  Cardinality(S) <= Cardinality(T)
<1>1. f \in Injection(S, T)
  BY DEF Injection, IsInjective
<1>. QED
  BY <1>1, FS_Injection

\* A union counts at most its two parts.
LEMMA UnionCount ==
  ASSUME NEW S, IsFiniteSet(S), NEW T, IsFiniteSet(T)
  PROVE  /\ IsFiniteSet(S \cup T)
         /\ Cardinality(S \cup T) <= Cardinality(S) + Cardinality(T)
<1>1. /\ IsFiniteSet(S \cup T)
      /\ Cardinality(S \cup T) =
           Cardinality(S) + Cardinality(T) - Cardinality(S \cap T)
  BY FS_Union
<1>2. Cardinality(S \cap T) \in Nat /\ Cardinality(S) \in Nat /\ Cardinality(T) \in Nat
  BY FS_Intersection, FS_CardinalityType
<1>. QED
  BY <1>1, <1>2

-----------------------------------------------------------------------------
(* Which updates took effect, and what they found afterwards.  Of a set of   *)
(* executions and tickets that may be unbounded, finitely many have run.     *)

Effective == {r \in Requests : request[r].won}
Held == {t \in Tickets : assignee[t] # Nobody}

FinitelyMany == IsFiniteSet(Effective) /\ IsFiniteSet(Held)

\* An execution has its effect in Write alone, and a holder after the second
\* read.
RunsInOrder ==
  \A r \in Requests :
    /\ request[r].pc \in {"idle", "write"} => ~request[r].won
    /\ request[r].pc \in {"reread", "count", "notify"} => request[r].won
    /\ request[r].pc \in {"idle", "write", "lost", "reread"} =>
         request[r].holder = Nobody
    /\ request[r].holder # Nobody => request[r].won

RunInv == HolderInv /\ FinitelyMany /\ RunsInOrder

\* The fields of request r after a step of it.
Becomes(r, pc, read, holder, won) ==
  /\ request'[r].pc = pc
  /\ request'[r].read = read
  /\ request'[r].holder = holder
  /\ request'[r].won = won
  /\ request'[r].ticket = request[r].ticket
  /\ request'[r].actor = request[r].actor
  /\ request'[r].target = request[r].target
  /\ \A p \in Requests \ {r} : request'[p] = request[p]

LEMMA Fields ==
  ASSUME TypeOK, NEW r \in Requests
  PROVE  /\ Read(r) => Becomes(r, "write", status[request[r].ticket],
                               request[r].holder, request[r].won)
         /\ Write(r) => Becomes(r, "reread", request[r].read,
                                request[r].holder, TRUE)
         /\ WriteLost(r) => Becomes(r, "lost", request[r].read,
                                    request[r].holder, request[r].won)
         /\ Reread(r) => Becomes(r, "count", status[request[r].ticket],
                                 assignee[request[r].ticket], request[r].won)
         /\ CountPerformance(r) => Becomes(r, "notify", request[r].read,
                                           request[r].holder, request[r].won)
         /\ Notify(r) \/ Abort(r) => Becomes(r, "done", request[r].read,
                                             request[r].holder, request[r].won)
<1>1. request \in [Requests -> RequestState] /\ request[r] \in RequestState
  BY DEF TypeOK
<1> USE <1>1 DEF RequestState, Becomes
<1>2. ASSUME Read(r)
      PROVE  Becomes(r, "write", status[request[r].ticket], request[r].holder,
                     request[r].won)
  BY <1>2 DEF Read
<1>3. ASSUME Write(r)
      PROVE  Becomes(r, "reread", request[r].read, request[r].holder, TRUE)
  BY <1>3 DEF Write
<1>4. ASSUME Reread(r)
      PROVE  Becomes(r, "count", status[request[r].ticket],
                     assignee[request[r].ticket], request[r].won)
  BY <1>4 DEF Reread
<1>5. ASSUME NEW pc, request' = [request EXCEPT ![r].pc = pc]
      PROVE  Becomes(r, pc, request[r].read, request[r].holder, request[r].won)
  BY <1>5
<1>. QED
  BY <1>2, <1>3, <1>4, <1>5 DEF WriteLost, CountPerformance, Notify, Abort

\* What a write does to the set of the updates that took effect on a ticket.
LEMMA WinnersAfterWrite ==
  ASSUME RunInv, NEW r \in Requests, Write(r), NEW t \in Tickets, NEW g
  PROVE  /\ IsFiniteSet(Winners(t, g)) /\ IsFiniteSet(Winners(t, g)')
         /\ Cardinality(Winners(t, g)) \in Nat
         /\ Cardinality(Winners(t, g)') =
              IF t = request[r].ticket /\ g = request[r].target
              THEN Cardinality(Winners(t, g)) + 1 ELSE Cardinality(Winners(t, g))
<1> DEFINE W == Winners(t, g)
<1>1. Becomes(r, "reread", request[r].read, request[r].holder, TRUE)
  BY Fields DEF RunInv, HolderInv
<1>2. r \notin W
  BY DEF Write, RunInv, RunsInOrder, Winners
<1>3. IsFiniteSet(W)
  BY SubsetCount DEF RunInv, FinitelyMany, Winners, Effective
<1>4. W' = IF t = request[r].ticket /\ g = request[r].target THEN W \cup {r} ELSE W
  BY <1>1 DEF Winners, Becomes
<1> HIDE DEF W
<1>5. /\ IsFiniteSet(W \cup {r}) /\ Cardinality(W) \in Nat
      /\ Cardinality(W \cup {r}) = Cardinality(W) + 1
  BY <1>2, <1>3, OneMore
<1>6. IsFiniteSet(W') /\ Cardinality(W') =
        IF t = request[r].ticket /\ g = request[r].target
        THEN Cardinality(W) + 1 ELSE Cardinality(W)
  BY <1>3, <1>4, <1>5
<1>. QED
  BY <1>3, <1>5, <1>6 DEF W

\* A step of r that is no write keeps what took effect.
LEMMA OtherSteps ==
  ASSUME RunInv, NEW r \in Requests,
         \/ Read(r) \/ WriteLost(r) \/ Reread(r) \/ CountPerformance(r)
         \/ Notify(r) \/ Abort(r)
  PROVE  /\ \A p \in Requests : /\ request'[p].won = request[p].won
                                /\ request'[p].ticket = request[p].ticket
                                /\ request'[p].target = request[p].target
                                /\ request'[p].actor = request[p].actor
         /\ UNCHANGED tickets
<1>1. TypeOK
  BY DEF RunInv, HolderInv
<1>2. \A p \in Requests : /\ request'[p].won = request[p].won
                          /\ request'[p].ticket = request[p].ticket
                          /\ request'[p].target = request[p].target
                          /\ request'[p].actor = request[p].actor
  BY <1>1, Fields DEF Becomes
<1>3. UNCHANGED tickets
  BY DEF Read, WriteLost, Reread, CountPerformance, Notify, Abort, tickets
<1>. QED
  BY <1>2, <1>3

LEMMA NextRun == RunInv /\ [Next]_vars => RunInv'
<1> SUFFICES ASSUME RunInv, [Next]_vars PROVE RunInv'
  OBVIOUS
<1>1. HolderInv' /\ HolderInv /\ TypeOK
  BY NextHolder DEF RunInv, HolderInv
<1>2. ASSUME NEW t \in Tickets, CallWaiter(t) \/ Announce(t)
      PROVE  FinitelyMany' /\ RunsInOrder'
  BY <1>2 DEF CallWaiter, Announce, RunInv, FinitelyMany, Effective, Held, RunsInOrder
<1>3. ASSUME NEW r \in Requests, Write(r)
      PROVE  FinitelyMany' /\ RunsInOrder'
  <2>1. Becomes(r, "reread", request[r].read, request[r].holder, TRUE)
    BY <1>1, <1>3, Fields
  <2>2. RunsInOrder'
    BY <1>3, <2>1 DEF Becomes, RunInv, RunsInOrder, Write
  <2>3. Effective' \subseteq Effective \cup {r}
    BY <2>1 DEF Becomes, Effective
  <2>4. Held' \subseteq Held \cup {request[r].ticket}
    BY <1>1, <1>3 DEF Held, Write, TypeOK
  <2>5. IsFiniteSet(Effective \cup {r}) /\ IsFiniteSet(Held \cup {request[r].ticket})
    BY FS_AddElement DEF RunInv, FinitelyMany
  <2>. QED
    BY <2>2, <2>3, <2>4, <2>5, SubsetCount DEF FinitelyMany
<1>4. ASSUME NEW r \in Requests,
             \/ Read(r) \/ WriteLost(r) \/ Reread(r) \/ CountPerformance(r)
             \/ Notify(r) \/ Abort(r)
      PROVE  FinitelyMany' /\ RunsInOrder'
  <2>1. FinitelyMany'
    BY <1>4, OtherSteps DEF RunInv, FinitelyMany, Effective, Held, tickets
  <2>2. CASE Read(r)
    <3>1. Becomes(r, "write", status[request[r].ticket], request[r].holder,
                  request[r].won) /\ request[r].pc = "idle"
      BY <1>1, <2>2, Fields DEF Read
    <3>. QED
      BY <2>1, <3>1 DEF Becomes, RunInv, RunsInOrder
  <2>3. CASE WriteLost(r) \/ CountPerformance(r) \/ Notify(r) \/ Abort(r)
    <3> DEFINE Moves(pc) ==
          Becomes(r, pc, request[r].read, request[r].holder, request[r].won)
    <3>1. \/ Moves("lost") /\ request[r].pc = "write"
          \/ Moves("notify") /\ request[r].pc = "count"
          \/ Moves("done")
      BY <1>1, <2>3, Fields DEF WriteLost, CountPerformance
    <3>. QED
      BY <2>1, <3>1 DEF Becomes, RunInv, RunsInOrder
  <2>4. CASE Reread(r)
    <3>1. Becomes(r, "count", status[request[r].ticket],
                  assignee[request[r].ticket], request[r].won)
      BY <1>1, <2>4, Fields
    <3>2. request[r].pc = "reread"
      BY <2>4 DEF Reread
    <3>. QED
      BY <2>1, <3>1, <3>2 DEF Becomes, RunInv, RunsInOrder
  <2>. QED
    BY <1>4, <2>1, <2>2, <2>3, <2>4
<1>5. CASE UNCHANGED vars
  <2>1. UNCHANGED <<request, assignee>>
    BY <1>5 DEF vars
  <2>2. Effective' = Effective /\ Held' = Held
    BY <2>1 DEF Effective, Held
  <2>3. FinitelyMany' /\ RunsInOrder'
    BY <2>1, <2>2 DEF RunInv, FinitelyMany, RunsInOrder
  <2>. QED
    BY <1>1, <2>3 DEF RunInv
<1>. QED
  BY <1>1, <1>2, <1>3, <1>4, <1>5 DEF Next, RunInv

LEMMA InitRun == Init => RunInv
<1> SUFFICES ASSUME Init PROVE RunInv
  OBVIOUS
<1>1. Effective = {} /\ Held = {}
  BY DEF Init, Effective, Held
<1>2. RunsInOrder
  BY DEF Init, RunsInOrder
<1>. QED
  BY <1>1, <1>2, InitHolder, FS_EmptySet DEF RunInv, FinitelyMany

-----------------------------------------------------------------------------
(* Updates take turns.  A ticket that may be accepted has one acceptance to  *)
(* spare against its reopenings, and one that may be resolved an acceptance  *)
(* that no resolution has used up.                                           *)

TurnsKept ==
  \A t \in Tickets :
    /\ Cardinality(Winners(t, "ACCEPTED"))
         + (IF status[t] \in {"NONE", "OPEN"} THEN 1 ELSE 0)
         <= 1 + Cardinality(Winners(t, "OPEN"))
    /\ Cardinality(Winners(t, "RESOLVED"))
         + (IF status[t] = "ACCEPTED" THEN 1 ELSE 0)
         <= Cardinality(Winners(t, "ACCEPTED"))

LEMMA InitTurns == Init => TurnsKept
<1> SUFFICES ASSUME Init, NEW t \in Tickets
             PROVE  /\ Cardinality(Winners(t, "ACCEPTED")) = 0
                    /\ Cardinality(Winners(t, "OPEN")) = 0
                    /\ Cardinality(Winners(t, "RESOLVED")) = 0
                    /\ status[t] = "NONE"
  BY DEF TurnsKept
<1>1. \A g : Winners(t, g) = {}
  BY DEF Init, Winners
<1>. QED
  BY <1>1, FS_EmptySet DEF Init

LEMMA NextTurns ==
  ASSUME RunInv, TurnsKept, [Next]_vars
  PROVE  TurnsKept'
<1>1. ASSUME NEW r \in Requests, Write(r), NEW t \in Tickets
      PROVE  /\ Cardinality(Winners(t, "ACCEPTED")')
                  + (IF status'[t] \in {"NONE", "OPEN"} THEN 1 ELSE 0)
                  <= 1 + Cardinality(Winners(t, "OPEN")')
             /\ Cardinality(Winners(t, "RESOLVED")')
                  + (IF status'[t] = "ACCEPTED" THEN 1 ELSE 0)
                  <= Cardinality(Winners(t, "ACCEPTED")')
  <2> DEFINE N(g) == Cardinality(Winners(t, g))
             M(g) == Cardinality(Winners(t, g)')
             g == request[r].target
  <2>1. \A h \in Status : /\ N(h) \in Nat
                          /\ M(h) = IF t = request[r].ticket /\ h = g
                                    THEN N(h) + 1 ELSE N(h)
    BY <1>1, WinnersAfterWrite
  <2>2. /\ N("ACCEPTED") + (IF status[t] \in {"NONE", "OPEN"} THEN 1 ELSE 0)
             <= 1 + N("OPEN")
        /\ N("RESOLVED") + (IF status[t] = "ACCEPTED" THEN 1 ELSE 0)
             <= N("ACCEPTED")
    BY DEF TurnsKept
  <2>3. /\ status'[t] = IF t = request[r].ticket THEN g ELSE status[t]
        /\ g \in Status
        /\ t = request[r].ticket /\ g = "ACCEPTED" => status[t] = "OPEN"
        /\ t = request[r].ticket /\ g = "RESOLVED" => status[t] = "ACCEPTED"
    BY <1>1 DEF Write, Still, RunInv, HolderInv, ReadsSound, TypeOK, RequestState
  <2>4. {"OPEN", "ACCEPTED", "RESOLVED"} = Status
    BY DEF Status
  <2> HIDE DEF N, M, g
  <2>5. CASE t # request[r].ticket
    BY <2>1, <2>2, <2>3, <2>4, <2>5 DEF N, M
  <2>6. CASE t = request[r].ticket /\ g = "OPEN"
    <3>1. M("OPEN") = N("OPEN") + 1 /\ M("ACCEPTED") = N("ACCEPTED")
          /\ M("RESOLVED") = N("RESOLVED") /\ status'[t] = "OPEN"
      BY <2>1, <2>3, <2>4, <2>6
    <3>. QED
      BY <2>1, <2>2, <2>4, <3>1 DEF N, M
  <2>7. CASE t = request[r].ticket /\ g = "ACCEPTED"
    <3>1. M("OPEN") = N("OPEN") /\ M("ACCEPTED") = N("ACCEPTED") + 1
          /\ M("RESOLVED") = N("RESOLVED") /\ status'[t] = "ACCEPTED"
      BY <2>1, <2>3, <2>4, <2>7
    <3>. QED
      BY <2>1, <2>2, <2>3, <2>4, <2>7, <3>1 DEF N, M
  <2>8. CASE t = request[r].ticket /\ g = "RESOLVED"
    <3>1. M("OPEN") = N("OPEN") /\ M("ACCEPTED") = N("ACCEPTED")
          /\ M("RESOLVED") = N("RESOLVED") + 1 /\ status'[t] = "RESOLVED"
      BY <2>1, <2>3, <2>4, <2>8
    <3>. QED
      BY <2>1, <2>2, <2>3, <2>4, <2>8, <3>1 DEF N, M
  <2>. QED
    BY <2>3, <2>4, <2>5, <2>6, <2>7, <2>8
<1>2. ASSUME NEW t \in Tickets, CallWaiter(t) \/ Announce(t)
      PROVE  TurnsKept'
  <2>1. \A u, g : Winners(u, g)' = Winners(u, g)
    BY <1>2 DEF CallWaiter, Announce, Winners
  <2>2. \A u \in Tickets :
          /\ status[u] \in {"NONE", "OPEN"} <=> status'[u] \in {"NONE", "OPEN"}
          /\ status[u] = "ACCEPTED" <=> status'[u] = "ACCEPTED"
    BY <1>2 DEF CallWaiter, Announce, RunInv, HolderInv, TypeOK
  <2>. QED
    BY <2>1, <2>2 DEF TurnsKept
<1>3. ASSUME NEW r \in Requests,
             \/ Read(r) \/ WriteLost(r) \/ Reread(r) \/ CountPerformance(r)
             \/ Notify(r) \/ Abort(r)
      PROVE  TurnsKept'
  <2>1. /\ \A p \in Requests : /\ request'[p].won = request[p].won
                               /\ request'[p].ticket = request[p].ticket
                               /\ request'[p].target = request[p].target
        /\ status' = status
    BY <1>3, OtherSteps DEF tickets
  <2>2. \A u, g : Winners(u, g)' = Winners(u, g)
    BY <2>1 DEF Winners
  <2>. QED
    BY <2>1, <2>2 DEF TurnsKept
<1>4. CASE UNCHANGED vars
  BY <1>4 DEF vars, TurnsKept, Winners
<1>5. ASSUME NEW r \in Requests, Write(r) PROVE TurnsKept'
  BY <1>1, <1>5 DEF TurnsKept
<1>. QED
  BY <1>2, <1>3, <1>4, <1>5 DEF Next

\* Of any number of updates that race on a ticket, those whose conditional
\* write takes effect alternate: between two acceptances lies a reopening, and
\* every resolution has an acceptance of its own.
THEOREM UpdatesAlternate == Spec => []UpdatesTakeTurns
<1>1. ASSUME RunInv, TurnsKept PROVE UpdatesTakeTurns
  <2>1. \A t, g : Cardinality(Winners(t, g)) \in Nat
    BY <1>1, SubsetCount DEF RunInv, FinitelyMany, Winners, Effective
  <2>. QED
    BY <1>1, <2>1 DEF TurnsKept, UpdatesTakeTurns
<1>. QED
  BY <1>1, InitRun, NextRun, InitTurns, NextTurns, PTL DEF Spec

-----------------------------------------------------------------------------
(* Performance and rewards.  On a ticket nobody reopens an acceptance and a  *)
(* resolution take effect once, and what the second read saw stays true; so  *)
(* what was counted can be charged to the tickets themselves.                *)

ForwardRuns ==
  \A r \in Requests : request[r].ticket \in Forward =>
    /\ request[r].won /\ request[r].target = "ACCEPTED" =>
         status[request[r].ticket] \in {"ACCEPTED", "RESOLVED"}
    /\ request[r].won /\ request[r].target = "RESOLVED" =>
         status[request[r].ticket] = "RESOLVED"
    /\ request[r].holder # Nobody =>
         /\ assignee[request[r].ticket] = request[r].holder
         /\ request[r].read = "RESOLVED" => status[request[r].ticket] = "RESOLVED"

WinnersAlone ==
  \A p, q \in Requests :
    /\ request[p].won /\ request[q].won
    /\ request[p].ticket = request[q].ticket /\ request[p].ticket \in Forward
    /\ request[p].target = request[q].target
    => p = q

\* The executions that may have counted for a member, as a resolution too, and
\* those that may have rewarded a ticket: an aborted one may have or not.
Counted(s) == {r \in Requests : request[r].holder = s /\ request[r].pc # "count"}
CountedResolved(s) == {r \in Counted(s) : request[r].read = "RESOLVED"}
Rewarded(t) ==
  {r \in Requests : /\ request[r].ticket = t
                    /\ request[r].holder # Nobody /\ request[r].read = "RESOLVED"
                    /\ request[r].pc \notin {"count", "notify"}}

CountsBacked ==
  /\ \A s \in Staff :
       /\ performance[s].responded <= Cardinality(Counted(s))
       /\ performance[s].resolved <= Cardinality(CountedResolved(s))
  /\ \A t \in Tickets : rewards[t] <= Cardinality(Rewarded(t))

PerformanceInv == ForwardInv /\ RunInv /\ ForwardRuns /\ WinnersAlone /\ CountsBacked

CountedFinitely ==
  /\ \A s \in Staff : IsFiniteSet(Counted(s)) /\ IsFiniteSet(CountedResolved(s))
  /\ \A t : IsFiniteSet(Rewarded(t))

\* Only executions that took effect count.
LEMMA CountedFinite == RunInv => CountedFinitely
<1> SUFFICES ASSUME RunInv PROVE CountedFinitely
  OBVIOUS
<1>1. \A s \in Staff : /\ Counted(s) \subseteq Effective
                       /\ CountedResolved(s) \subseteq Effective
  BY NobodyAssumption
     DEF RunInv, RunsInOrder, Counted, CountedResolved, Effective
<1>2. \A t : Rewarded(t) \subseteq Effective
  BY DEF RunInv, RunsInOrder, Rewarded, Effective
<1>3. IsFiniteSet(Effective)
  BY DEF RunInv, FinitelyMany
<1>. QED
  BY <1>1, <1>2, <1>3, SubsetCount DEF CountedFinitely

LEMMA NextForwardRuns ==
  ASSUME ForwardInv, RunInv, ForwardRuns, WinnersAlone, [Next]_vars
  PROVE  ForwardRuns' /\ WinnersAlone'
<1>1. TypeOK /\ TypeOK'
  BY NextType DEF ForwardInv, HolderInv
<1>2. ASSUME NEW t \in Tickets, CallWaiter(t) \/ Announce(t)
      PROVE  ForwardRuns' /\ WinnersAlone'
  <2>1. /\ UNCHANGED <<request, assignee>>
        /\ \A u \in Tickets : status[u] # "NONE" => status'[u] = status[u]
    BY <1>1, <1>2 DEF CallWaiter, Announce, TypeOK
  <2>2. ForwardRuns'
    BY <2>1 DEF ForwardRuns, Forward
  <2>. QED
    BY <2>1, <2>2 DEF WinnersAlone
<1>3. ASSUME NEW r \in Requests, Write(r)
      PROVE  ForwardRuns' /\ WinnersAlone'
  <2> DEFINE t == request[r].ticket
             g == request[r].target
  <2>1. Becomes(r, "reread", request[r].read, request[r].holder, TRUE)
    BY <1>1, <1>3, Fields
  <2>2. /\ t \in Tickets /\ g \in Status /\ request[r].holder = Nobody
        /\ \A u \in Tickets : status'[u] = IF u = t THEN g ELSE status[u]
        /\ \A u \in Tickets : assignee'[u] = IF u = t /\ g = "ACCEPTED"
                                             THEN request[r].actor ELSE assignee[u]
    BY <1>1, <1>3 DEF Write, TypeOK, RequestState, RunInv, RunsInOrder
  <2>3. t \in Forward => /\ g \in {"ACCEPTED", "RESOLVED"}
                         /\ g = "ACCEPTED" => status[t] = "OPEN"
                         /\ g = "RESOLVED" => status[t] = "ACCEPTED"
    BY <1>3 DEF Write, Still, ForwardInv, HolderInv, ReadsSound, TargetsKept,
       Targets, Forward, Status
  <2>4. ASSUME NEW p \in Requests \ {r}, request[p].ticket = t, t \in Forward,
               request[p].won
        PROVE  g = "RESOLVED" /\ request[p].target = "ACCEPTED"
    BY <2>3, <2>4 DEF ForwardRuns, ForwardInv, TargetsKept, Targets, Forward
  <2> HIDE DEF t, g
  <2>5. ASSUME NEW p \in Requests, request'[p].ticket \in Forward
        PROVE  /\ request'[p].won /\ request'[p].target = "ACCEPTED" =>
                    status'[request'[p].ticket] \in {"ACCEPTED", "RESOLVED"}
               /\ request'[p].won /\ request'[p].target = "RESOLVED" =>
                    status'[request'[p].ticket] = "RESOLVED"
               /\ request'[p].holder # Nobody =>
                    /\ assignee'[request'[p].ticket] = request'[p].holder
                    /\ request'[p].read = "RESOLVED" =>
                         status'[request'[p].ticket] = "RESOLVED"
    <3>1. CASE p = r
      BY <2>1, <2>2, <2>3, <3>1 DEF Becomes, t, g
    <3>2. CASE p # r /\ request[p].ticket = t
      <4>1. request'[p] = request[p]
        BY <2>1, <3>2 DEF Becomes
      <4>2. request[p].holder # Nobody => request[p].won
        BY DEF RunInv, RunsInOrder
      <4>. QED
        BY <2>2, <2>4, <2>5, <3>2, <4>1, <4>2 DEF ForwardRuns
    <3>3. CASE p # r /\ request[p].ticket # t
      <4>1. request'[p] = request[p] /\ request[p].ticket \in Tickets
        BY <1>1, <2>1, <3>3 DEF Becomes, TypeOK, RequestState
      <4>. QED
        BY <2>2, <2>5, <3>3, <4>1 DEF ForwardRuns
    <3>. QED
      BY <3>1, <3>2, <3>3
  <2>6. WinnersAlone'
    BY <2>1, <2>3, <2>4 DEF WinnersAlone, Becomes, t, g
  <2>. QED
    BY <2>5, <2>6 DEF ForwardRuns
<1>4. ASSUME NEW r \in Requests,
             \/ Read(r) \/ WriteLost(r) \/ Reread(r) \/ CountPerformance(r)
             \/ Notify(r) \/ Abort(r)
      PROVE  ForwardRuns' /\ WinnersAlone'
  <2>1. /\ \A p \in Requests : /\ request'[p].won = request[p].won
                               /\ request'[p].ticket = request[p].ticket
                               /\ request'[p].target = request[p].target
        /\ status' = status /\ assignee' = assignee
    BY <1>4, OtherSteps DEF tickets
  <2>2. WinnersAlone'
    BY <2>1 DEF WinnersAlone
  <2>3. \A p \in Requests :
          /\ request'[p].holder # Nobody
          => \/ request'[p].holder = request[p].holder
                /\ request'[p].read = request[p].read
             \/ request'[p].holder = assignee[request[p].ticket]
                /\ request'[p].read = status[request[p].ticket]
    <3>1. CASE Read(r)
      BY <1>1, <3>1, Fields DEF Becomes, Read, RunInv, RunsInOrder
    <3>2. CASE ~Read(r)
      BY <1>1, <1>4, <3>2, Fields DEF Becomes
    <3>. QED
      BY <3>1, <3>2
  <2>4. ForwardRuns'
    BY <2>1, <2>3 DEF ForwardRuns
  <2>. QED
    BY <2>2, <2>4
<1>5. CASE UNCHANGED vars
  BY <1>5 DEF vars, ForwardRuns, WinnersAlone
<1>. QED
  BY <1>2, <1>3, <1>4, <1>5 DEF Next

\* An execution that has counted, or rewarded, stays one that has.
LEMMA CountedStay ==
  ASSUME RunInv, [Next]_vars
  PROVE  /\ \A s \in Staff : /\ Counted(s) \subseteq Counted(s)'
                             /\ CountedResolved(s) \subseteq CountedResolved(s)'
         /\ \A t : Rewarded(t) \subseteq Rewarded(t)'
<1>1. TypeOK
  BY DEF RunInv, HolderInv
<1>2. ASSUME NEW p \in Requests, request[p].holder # Nobody
      PROVE  /\ request'[p].holder = request[p].holder
             /\ request'[p].read = request[p].read
             /\ request'[p].ticket = request[p].ticket
             /\ request[p].pc # "count" => request'[p].pc # "count"
             /\ request[p].pc \notin {"count", "notify"} =>
                  request'[p].pc \notin {"count", "notify"}
  <2>1. request[p].pc \notin {"idle", "write", "lost", "reread"}
    BY <1>2 DEF RunInv, RunsInOrder
  <2>2. ASSUME NEW t \in Tickets, CallWaiter(t) \/ Announce(t)
        PROVE  request' = request
    BY <2>2 DEF CallWaiter, Announce
  <2>3. UNCHANGED vars => request' = request
    BY DEF vars
  <2>4. ASSUME NEW r \in Requests, Read(r) \/ Write(r) \/ WriteLost(r) \/ Reread(r)
        PROVE  request'[p] = request[p]
    <3>1. p # r
      BY <2>1, <2>4 DEF Read, Write, WriteLost, Reread
    <3>. QED
      BY <1>1, <2>4, <3>1, Fields DEF Becomes
  <2>5. ASSUME NEW r \in Requests, CountPerformance(r) \/ Notify(r) \/ Abort(r)
        PROVE  \/ request'[p] = request[p]
               \/ /\ request'[p].holder = request[p].holder
                  /\ request'[p].read = request[p].read
                  /\ request'[p].ticket = request[p].ticket
                  /\ \/ request[p].pc = "count" /\ request'[p].pc = "notify"
                     \/ request'[p].pc = "done"
    <3>1. CASE CountPerformance(r)
      <4>1. request[r].pc = "count"
        BY <3>1 DEF CountPerformance
      <4>. QED
        BY <1>1, <3>1, <4>1, Fields DEF Becomes
    <3>2. CASE Notify(r) \/ Abort(r)
      BY <1>1, <3>2, Fields DEF Becomes
    <3>. QED
      BY <2>5, <3>1, <3>2
  <2>. QED
    BY <2>2, <2>3, <2>4, <2>5 DEF Next
<1>3. \A s \in Staff : s # Nobody
  BY NobodyAssumption
<1>. QED
  BY <1>2, <1>3 DEF Counted, CountedResolved, Rewarded

LEMMA NextCounts ==
  ASSUME RunInv, CountsBacked, [Next]_vars
  PROVE  CountsBacked'
<1>1. TypeOK /\ TypeOK' /\ RunInv'
  BY NextType, NextRun DEF RunInv, HolderInv
<1>2. /\ \A s \in Staff : /\ performance[s].responded \in Nat
                          /\ performance[s].resolved \in Nat
      /\ \A t \in Tickets : rewards[t] \in Nat
  BY <1>1 DEF TypeOK
<1>3. /\ \A s \in Staff :
           /\ IsFiniteSet(Counted(s)) /\ IsFiniteSet(Counted(s)')
           /\ IsFiniteSet(CountedResolved(s)) /\ IsFiniteSet(CountedResolved(s)')
      /\ \A t : IsFiniteSet(Rewarded(t)) /\ IsFiniteSet(Rewarded(t)')
  <2>1. CountedFinitely
    BY CountedFinite
  <2>2. CountedFinitely'
    BY <1>1, CountedFinite, PTL
  <2>. QED
    BY <2>1, <2>2 DEF CountedFinitely
<1>4. /\ \A s \in Staff :
           /\ Cardinality(Counted(s)) <= Cardinality(Counted(s)')
           /\ Cardinality(CountedResolved(s)) <= Cardinality(CountedResolved(s)')
           /\ Cardinality(Counted(s)) \in Nat /\ Cardinality(Counted(s)') \in Nat
           /\ Cardinality(CountedResolved(s)) \in Nat
           /\ Cardinality(CountedResolved(s)') \in Nat
      /\ \A t : /\ Cardinality(Rewarded(t)) <= Cardinality(Rewarded(t)')
                /\ Cardinality(Rewarded(t)) \in Nat /\ Cardinality(Rewarded(t)') \in Nat
  BY <1>3, CountedStay, SubsetCount
<1>5. ASSUME NEW r \in Requests, CountPerformance(r), NEW s \in Staff
      PROVE  /\ performance'[s].responded <= Cardinality(Counted(s)')
             /\ performance'[s].resolved <= Cardinality(CountedResolved(s)')
  <2>1. /\ Becomes(r, "notify", request[r].read, request[r].holder, request[r].won)
        /\ request[r].pc = "count"
    BY <1>1, <1>5, Fields DEF CountPerformance
  <2>2. CASE s = request[r].holder
    <3>1. /\ performance'[s].responded = performance[s].responded + 1
          /\ performance'[s].resolved = performance[s].resolved + ResolvedBy(request[r])
      BY <1>5, <2>2 DEF CountPerformance
    <3>2. Counted(s) \cup {r} \subseteq Counted(s)' /\ r \notin Counted(s)
      BY <2>1, <2>2, CountedStay DEF Counted, Becomes
    <3>3. Cardinality(Counted(s)) + 1 <= Cardinality(Counted(s)')
      BY <1>3, <1>4, <3>2, OneMore, SubsetCount
    <3>4. Cardinality(CountedResolved(s)) + ResolvedBy(request[r])
            <= Cardinality(CountedResolved(s)')
      <4>1. CASE request[r].read = "RESOLVED"
        <5>1. /\ CountedResolved(s) \cup {r} \subseteq CountedResolved(s)'
              /\ r \notin CountedResolved(s)
          BY <2>1, <2>2, <3>2, <4>1, CountedStay DEF CountedResolved, Becomes
        <5>2. Cardinality(CountedResolved(s)) + 1 <= Cardinality(CountedResolved(s)')
          BY <1>3, <1>4, <5>1, OneMore, SubsetCount
        <5>. QED
          BY <4>1, <5>2 DEF ResolvedBy
      <4>2. CASE request[r].read # "RESOLVED"
        BY <1>4, <4>2 DEF ResolvedBy
      <4>. QED
        BY <4>1, <4>2
    <3>5. ResolvedBy(request[r]) \in Nat
      BY DEF ResolvedBy
    <3>6. /\ performance[s].responded <= Cardinality(Counted(s))
          /\ performance[s].resolved <= Cardinality(CountedResolved(s))
      BY DEF CountsBacked
    <3>. QED
      BY <1>2, <1>4, <3>1, <3>3, <3>4, <3>5, <3>6
  <2>3. CASE s # request[r].holder
    <3>1. performance'[s] = performance[s]
      BY <1>5, <2>3 DEF CountPerformance
    <3>. QED
      BY <1>2, <1>4, <3>1 DEF CountsBacked
  <2>. QED
    BY <2>2, <2>3
<1>6. ASSUME NEW r \in Requests, Notify(r), NEW t \in Tickets
      PROVE  rewards'[t] <= Cardinality(Rewarded(t)')
  <2>1. /\ Becomes(r, "done", request[r].read, request[r].holder, request[r].won)
        /\ request[r].pc = "notify"
    BY <1>1, <1>6, Fields DEF Notify
  <2>2. rewards'[t] = IF t = request[r].ticket
                      THEN rewards[t] + Reward(request[r]) ELSE rewards[t]
    BY <1>1, <1>6 DEF Notify, TypeOK
  <2>3. CASE t = request[r].ticket /\ Reward(request[r]) = 1
    <3>1. Rewarded(t) \cup {r} \subseteq Rewarded(t)' /\ r \notin Rewarded(t)
      BY <2>1, <2>3, CountedStay DEF Rewarded, Becomes, Reward
    <3>2. Cardinality(Rewarded(t)) + 1 <= Cardinality(Rewarded(t)')
      <4>1. Cardinality(Rewarded(t) \cup {r}) = Cardinality(Rewarded(t)) + 1
        BY <1>3, <3>1, OneMore
      <4>2. Cardinality(Rewarded(t) \cup {r}) <= Cardinality(Rewarded(t)')
        BY <1>3, <3>1, SubsetCount
      <4>. QED
        BY <4>1, <4>2
    <3>. QED
      BY <1>2, <1>4, <2>2, <2>3, <3>2 DEF CountsBacked
  <2>4. CASE ~(t = request[r].ticket /\ Reward(request[r]) = 1)
    <3>1. rewards'[t] = rewards[t]
      BY <1>2, <2>2, <2>4 DEF Reward
    <3>. QED
      BY <1>2, <1>4, <3>1 DEF CountsBacked
  <2>. QED
    BY <2>3, <2>4
<1>7. ASSUME UNCHANGED performance
      PROVE  \A s \in Staff : /\ performance'[s].responded <= Cardinality(Counted(s)')
                              /\ performance'[s].resolved <= Cardinality(CountedResolved(s)')
  BY <1>2, <1>4, <1>7 DEF CountsBacked
<1>8. ASSUME UNCHANGED rewards
      PROVE  \A t \in Tickets : rewards'[t] <= Cardinality(Rewarded(t)')
  BY <1>2, <1>4, <1>8 DEF CountsBacked
<1>9. /\ \/ UNCHANGED performance
         \/ \E r \in Requests : CountPerformance(r)
      /\ \/ UNCHANGED rewards
         \/ \E r \in Requests : Notify(r)
  BY DEF Next, CallWaiter, Announce, Read, Write, WriteLost, Reread,
     CountPerformance, Notify, Abort, vars
<1>10. \A s \in Staff : /\ performance'[s].responded <= Cardinality(Counted(s)')
                        /\ performance'[s].resolved <= Cardinality(CountedResolved(s)')
  BY <1>5, <1>7, <1>9
<1>11. \A t \in Tickets : rewards'[t] <= Cardinality(Rewarded(t)')
  BY <1>6, <1>8, <1>9
<1>. QED
  BY <1>10, <1>11 DEF CountsBacked

LEMMA InitPerformance == Init => PerformanceInv
<1> SUFFICES ASSUME Init PROVE PerformanceInv
  OBVIOUS
<1>1. ForwardRuns /\ WinnersAlone
  BY DEF Init, ForwardRuns, WinnersAlone
<1>2. ASSUME NEW s \in Staff
      PROVE  /\ performance[s].responded <= Cardinality(Counted(s))
             /\ performance[s].resolved <= Cardinality(CountedResolved(s))
  <2>1. Counted(s) = {} /\ CountedResolved(s) = {}
    BY NobodyAssumption DEF Init, Counted, CountedResolved
  <2>. QED
    BY <2>1, FS_EmptySet DEF Init
<1>3. ASSUME NEW t \in Tickets
      PROVE  rewards[t] <= Cardinality(Rewarded(t))
  <2>1. Rewarded(t) = {}
    BY DEF Init, Rewarded
  <2>. QED
    BY <2>1, FS_EmptySet DEF Init
<1>. QED
  BY <1>1, <1>2, <1>3, InitForward, InitRun DEF PerformanceInv, CountsBacked

LEMMA NextPerformance == PerformanceInv /\ [Next]_vars => PerformanceInv'
BY NextForward, NextRun, NextForwardRuns, NextCounts DEF PerformanceInv

\* What may be charged to a member: the tickets held, the resolved ones among
\* them, and whatever happened to tickets that are reopened.
LEMMA CountsCharged ==
  ASSUME PerformanceInv, NEW s \in Staff
  PROVE  LET held == {t \in Forward : assignee[t] = s}
             resolved == {t \in held : status[t] = "RESOLVED"}
             anything == {r \in Requests : /\ request[r].won
                                           /\ request[r].ticket \in Reopened}
         IN  /\ performance[s].resolved
                  <= Cardinality(resolved) + Cardinality(Overtaken(held))
                     + Cardinality(anything)
             /\ performance[s].responded
                  <= Cardinality(held) + Cardinality(resolved)
                     + Cardinality(anything)
<1> DEFINE held == {t \in Forward : assignee[t] = s}
           resolved == {t \in held : status[t] = "RESOLVED"}
           anything == {r \in Requests : /\ request[r].won
                                         /\ request[r].ticket \in Reopened}
           accepted == {r \in Counted(s) : /\ request[r].ticket \in Forward
                                           /\ request[r].target = "ACCEPTED"}
           closed == {r \in Counted(s) : /\ request[r].ticket \in Forward
                                         /\ request[r].target = "RESOLVED"}
           f == [r \in accepted |-> request[r].ticket]
           g == [r \in closed |-> request[r].ticket]
<1>1. /\ RunInv /\ TypeOK /\ ForwardRuns /\ WinnersAlone /\ TargetsKept
      /\ s # Nobody
  BY NobodyAssumption DEF PerformanceInv, ForwardInv, HolderInv
<1>2. \A r \in Counted(s) : /\ r \in Requests /\ request[r].won
                            /\ request[r].holder = s /\ request[r].ticket \in Tickets
  BY <1>1 DEF Counted, RunInv, RunsInOrder, TypeOK, RequestState
<1>3. /\ IsFiniteSet(Counted(s)) /\ IsFiniteSet(CountedResolved(s))
      /\ IsFiniteSet(Effective) /\ IsFiniteSet(Held)
  BY <1>1, CountedFinite DEF CountedFinitely, RunInv, FinitelyMany
<1>4. \A r \in Counted(s) : request[r].ticket \in Forward =>
        /\ assignee[request[r].ticket] = s
        /\ request[r].target \in {"ACCEPTED", "RESOLVED"}
        /\ request[r].target = "RESOLVED" => status[request[r].ticket] = "RESOLVED"
  BY <1>1, <1>2 DEF ForwardRuns, TargetsKept, Targets, Forward
<1>5. /\ f \in [accepted -> held]
      /\ \A p, q \in accepted : f[p] = f[q] => p = q
  BY <1>1, <1>2, <1>4 DEF WinnersAlone
<1>6. /\ g \in [closed -> resolved]
      /\ \A p, q \in closed : g[p] = g[q] => p = q
  BY <1>1, <1>2, <1>4 DEF WinnersAlone
<1>7. /\ held \subseteq Held /\ resolved \subseteq held
      /\ anything \subseteq Effective /\ Overtaken(held) \subseteq Effective
      /\ accepted \subseteq Counted(s) /\ closed \subseteq Counted(s)
  BY <1>1 DEF Held, Forward, Effective, Overtaken
<1>8. /\ Counted(s) \subseteq (accepted \cup closed) \cup anything
      /\ CountedResolved(s) \subseteq (closed \cup Overtaken(held)) \cup anything
  BY <1>2, <1>4 DEF Forward, CountedResolved, Overtaken
<1> HIDE DEF held, resolved, anything, accepted, closed, f, g
<1>9. /\ IsFiniteSet(held) /\ IsFiniteSet(resolved) /\ IsFiniteSet(anything)
      /\ IsFiniteSet(accepted) /\ IsFiniteSet(closed) /\ IsFiniteSet(Overtaken(held))
  BY <1>3, <1>7, SubsetCount
<1>10. /\ Cardinality(accepted) <= Cardinality(held)
       /\ Cardinality(closed) <= Cardinality(resolved)
  BY <1>5, <1>6, <1>9, ToldApart
<1>11. Cardinality(Counted(s))
         <= Cardinality(accepted) + Cardinality(closed) + Cardinality(anything)
  <2>1. /\ IsFiniteSet(accepted \cup closed)
        /\ Cardinality(accepted \cup closed)
             <= Cardinality(accepted) + Cardinality(closed)
    BY <1>9, UnionCount
  <2>2. /\ IsFiniteSet((accepted \cup closed) \cup anything)
        /\ Cardinality((accepted \cup closed) \cup anything)
             <= Cardinality(accepted \cup closed) + Cardinality(anything)
    BY <1>9, <2>1, UnionCount
  <2>3. Cardinality(Counted(s))
          <= Cardinality((accepted \cup closed) \cup anything)
    BY <1>8, <2>2, SubsetCount
  <2>4. /\ Cardinality(Counted(s)) \in Nat /\ Cardinality(accepted) \in Nat
        /\ Cardinality(closed) \in Nat /\ Cardinality(anything) \in Nat
        /\ Cardinality(accepted \cup closed) \in Nat
        /\ Cardinality((accepted \cup closed) \cup anything) \in Nat
    BY <1>3, <1>9, <2>1, <2>2, FS_CardinalityType
  <2>. QED
    BY <2>1, <2>2, <2>3, <2>4
<1>12. Cardinality(CountedResolved(s))
         <= Cardinality(closed) + Cardinality(Overtaken(held)) + Cardinality(anything)
  <2>1. /\ IsFiniteSet(closed \cup Overtaken(held))
        /\ Cardinality(closed \cup Overtaken(held))
             <= Cardinality(closed) + Cardinality(Overtaken(held))
    BY <1>9, UnionCount
  <2>2. /\ IsFiniteSet((closed \cup Overtaken(held)) \cup anything)
        /\ Cardinality((closed \cup Overtaken(held)) \cup anything)
             <= Cardinality(closed \cup Overtaken(held)) + Cardinality(anything)
    BY <1>9, <2>1, UnionCount
  <2>3. Cardinality(CountedResolved(s))
          <= Cardinality((closed \cup Overtaken(held)) \cup anything)
    BY <1>8, <2>2, SubsetCount
  <2>4. /\ Cardinality(CountedResolved(s)) \in Nat /\ Cardinality(closed) \in Nat
        /\ Cardinality(Overtaken(held)) \in Nat /\ Cardinality(anything) \in Nat
        /\ Cardinality(closed \cup Overtaken(held)) \in Nat
        /\ Cardinality((closed \cup Overtaken(held)) \cup anything) \in Nat
    BY <1>3, <1>9, <2>1, <2>2, FS_CardinalityType
  <2>. QED
    BY <2>1, <2>2, <2>3, <2>4
<1>13. /\ performance[s].responded <= Cardinality(Counted(s))
       /\ performance[s].resolved <= Cardinality(CountedResolved(s))
  BY DEF PerformanceInv, CountsBacked
<1>14. /\ performance[s].responded \in Nat /\ performance[s].resolved \in Nat
  BY <1>1 DEF TypeOK
<1>15. /\ Cardinality(Counted(s)) \in Nat /\ Cardinality(CountedResolved(s)) \in Nat
       /\ Cardinality(accepted) \in Nat /\ Cardinality(closed) \in Nat
       /\ Cardinality(anything) \in Nat /\ Cardinality(held) \in Nat
       /\ Cardinality(resolved) \in Nat /\ Cardinality(Overtaken(held)) \in Nat
  BY <1>3, <1>9, FS_CardinalityType
<1>16. /\ performance[s].resolved <= Cardinality(resolved)
            + Cardinality(Overtaken(held)) + Cardinality(anything)
       /\ performance[s].responded <= Cardinality(held) + Cardinality(resolved)
            + Cardinality(anything)
  BY <1>10, <1>11, <1>12, <1>13, <1>14, <1>15
<1>. QED
  BY <1>16 DEF held, resolved, anything

\* A ticket nobody reopens is rewarded for its resolution and for an acceptance
\* that the resolution overtook.
LEMMA RewardsCharged ==
  ASSUME PerformanceInv, NEW t \in Forward
  PROVE  rewards[t] <= IF status[t] = "RESOLVED"
                       THEN 1 + Cardinality(Overtaken({t})) ELSE 0
<1> DEFINE closed == {r \in Rewarded(t) : request[r].target = "RESOLVED"}
           f == [r \in closed |-> t]
<1>1. /\ RunInv /\ TypeOK /\ ForwardRuns /\ WinnersAlone /\ TargetsKept
      /\ t \in Tickets
  BY DEF PerformanceInv, ForwardInv, HolderInv, Forward
<1>2. rewards[t] <= Cardinality(Rewarded(t)) /\ rewards[t] \in Nat
  BY <1>1 DEF PerformanceInv, CountsBacked, TypeOK
<1>3. IsFiniteSet(Rewarded(t)) /\ IsFiniteSet(Effective)
  BY <1>1, CountedFinite DEF CountedFinitely, RunInv, FinitelyMany
<1>4. \A r \in Rewarded(t) :
        /\ r \in Requests /\ request[r].won /\ request[r].ticket = t
        /\ request[r].read = "RESOLVED" /\ status[t] = "RESOLVED"
        /\ request[r].target \in {"ACCEPTED", "RESOLVED"}
  BY <1>1 DEF Rewarded, RunInv, RunsInOrder, ForwardRuns, TargetsKept, Targets, Forward
<1>5. CASE status[t] # "RESOLVED"
  <2>1. Rewarded(t) = {}
    BY <1>4, <1>5
  <2>. QED
    BY <1>2, <1>5, <2>1, FS_EmptySet
<1>6. CASE status[t] = "RESOLVED"
  <2>1. f \in [closed -> {t}] /\ \A p, q \in closed : f[p] = f[q] => p = q
    BY <1>1, <1>4 DEF WinnersAlone
  <2>2. /\ Rewarded(t) \subseteq closed \cup Overtaken({t})
        /\ closed \subseteq Rewarded(t) /\ Overtaken({t}) \subseteq Effective
    BY <1>4 DEF Overtaken, Effective
  <2> HIDE DEF closed, f
  <2>3. IsFiniteSet(closed) /\ IsFiniteSet(Overtaken({t}))
    BY <1>3, <2>2, SubsetCount
  <2>4. Cardinality(closed) <= 1
    <3>1. IsFiniteSet({t}) /\ Cardinality({t}) = 1
      BY FS_Singleton
    <3>2. Cardinality(closed) <= Cardinality({t})
      BY <2>1, <3>1, ToldApart
    <3>. QED
      BY <3>1, <3>2
  <2>5. /\ IsFiniteSet(closed \cup Overtaken({t}))
        /\ Cardinality(closed \cup Overtaken({t}))
             <= Cardinality(closed) + Cardinality(Overtaken({t}))
    BY <2>3, UnionCount
  <2>6. Cardinality(Rewarded(t)) <= Cardinality(closed \cup Overtaken({t}))
    BY <2>2, <2>5, SubsetCount
  <2>7. /\ Cardinality(Rewarded(t)) \in Nat /\ Cardinality(closed) \in Nat
        /\ Cardinality(Overtaken({t})) \in Nat
        /\ Cardinality(closed \cup Overtaken({t})) \in Nat
    BY <1>3, <2>3, <2>5, FS_CardinalityType
  <2>. QED
    BY <1>2, <1>6, <2>4, <2>5, <2>6, <2>7
<1>. QED
  BY <1>5, <1>6

\* A member's counters never claim more than the tickets held and resolved,
\* but for what reopened tickets and overtaken acceptances add, whatever
\* updates race and wherever they are cut off.
THEOREM CountsAreBacked == Spec => []PerformanceBacked
<1>1. ASSUME PerformanceInv PROVE PerformanceBacked
  BY <1>1, CountsCharged, RewardsCharged DEF PerformanceBacked
<1>. QED
  BY <1>1, InitPerformance, NextPerformance, PTL DEF Spec

=============================================================================
