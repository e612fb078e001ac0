-------------------------- MODULE OnboardingProofs --------------------------
(***************************************************************************)
(* Theorems about Onboarding for every set of applications, phone numbers  *)
(* and approvals.                                                          *)
(***************************************************************************)
EXTENDS Onboarding, TLAPS

-----------------------------------------------------------------------------
(* Types, and the shop an approval has made by the time it needs it. *)

ShopsMade ==
  \A r \in Requests :
    /\ request[r].pc = "manager" => r \in shops
    /\ request[r].pc = "decide" => r \in Staffed

IInv == TypeOK /\ ShopsMade

LEMMA InitInv == Init => IInv
<1> SUFFICES ASSUME Init PROVE IInv
  OBVIOUS
<1>1. request \in [Requests -> RequestState]
      /\ \A r \in Requests : request[r].pc = "idle"
  BY DEF Init, RequestState
<1>. QED
  BY <1>1 DEF Init, IInv, TypeOK, ShopsMade, Statuses, Taken

\* An execution only moves its program counter.
LEMMA GotoType ==
  ASSUME TypeOK, NEW r \in Requests, NEW pc \in {"idle"} \cup Running \cup Ends, Goto(r, pc)
  PROVE  /\ request' \in [Requests -> RequestState]
         /\ request'[r].pc = pc
         /\ request'[r].application = request[r].application
         /\ request'[r].phone = request[r].phone
         /\ \A q \in Requests : q # r => request'[q] = request[q]
<1>1. request[r] \in RequestState
  BY DEF TypeOK
<1>2. [request[r] EXCEPT !.pc = pc] \in RequestState
  BY <1>1 DEF RequestState
<1>. QED
  BY <1>1, <1>2 DEF Goto, TypeOK, RequestState

\* A shop stays staffed when its people keep a number.
LEMMA StaffedMember == \A n \in Phones : Taken(n) => staff[n].shop \in Staffed
BY DEF Staffed

LEMMA NextInv == IInv /\ [Next]_vars => IInv'
<1> SUFFICES ASSUME IInv, [Next]_vars PROVE IInv'
  OBVIOUS
<1> USE DEF IInv
<1>1. ASSUME NEW a \in Applications, Submit(a) \/ Reject(a) PROVE IInv'
  <2>1. application' \in [Applications -> [status: Statuses, shop: Requests \cup {None}]]
    BY <1>1 DEF Submit, Reject, TypeOK, Statuses
  <2>2. \A b \in Applications : application'[b].status = "APPROVED" <=> application'[b].shop # None
    BY <1>1 DEF Submit, Reject, TypeOK, Statuses
  <2>3. audit' \in [Decisions -> SUBSET Applications]
    BY <1>1 DEF Submit, Reject, TypeOK, Entered, Decisions
  <2>4. overlapped' \subseteq Requests
    BY <1>1 DEF Submit, Reject, TypeOK, Deciding
  <2>5. UNCHANGED <<shops, staff, request>>
    BY <1>1 DEF Submit, Reject
  <2>6. TypeOK'
    BY <2>1, <2>2, <2>3, <2>4, <2>5 DEF TypeOK, Taken
  <2>. QED
    BY <2>5, <2>6 DEF ShopsMade, Staffed, Taken
<1>2. ASSUME NEW r \in Requests,
             Approve(r) \/ Refuse(r) \/ PhoneTaken(r) \/ Audit(r) \/ Cut(r)
      PROVE  IInv'
  <2>1. \E pc \in {"shop", "refused", "phone taken", "ok", "cut"} : Goto(r, pc)
    BY <1>2 DEF Approve, Refuse, PhoneTaken, Audit, Cut
  <2>2. PICK pc \in {"shop", "refused", "phone taken", "ok", "cut"} : Goto(r, pc)
    BY <2>1
  <2>3. pc \in {"idle"} \cup Running \cup Ends
    BY DEF Running, Ends
  <2>4. /\ request' \in [Requests -> RequestState] /\ request'[r].pc = pc
        /\ \A q \in Requests : q # r => request'[q] = request[q]
    BY <2>2, <2>3, GotoType
  <2>5. request[r].application \in Applications
    BY DEF TypeOK, RequestState
  <2>6. audit' \in [Decisions -> SUBSET Applications]
    <3>1. audit \in [Decisions -> SUBSET Applications]
      BY DEF TypeOK
    <3>2. Entered("APPROVED", request[r].application) \in [Decisions -> SUBSET Applications]
      BY <2>5, <3>1 DEF Entered, Decisions
    <3>3. audit' = audit \/ audit' = Entered("APPROVED", request[r].application)
      BY <1>2 DEF Approve, Refuse, PhoneTaken, Audit, Cut
    <3>. QED
      BY <3>1, <3>2, <3>3
  <2>7. overlapped' \subseteq Requests
    BY <1>2 DEF Approve, Refuse, PhoneTaken, Audit, Cut, TypeOK, Deciding
  <2>8. UNCHANGED <<application, shops, staff>>
    BY <1>2 DEF Approve, Refuse, PhoneTaken, Audit, Cut
  <2>9. TypeOK'
    BY <2>4, <2>6, <2>7, <2>8 DEF TypeOK, Taken
  <2>10. Staffed' = Staffed
    BY <2>8 DEF Staffed, Taken
  <2>11. ShopsMade'
    BY <2>4, <2>8, <2>10 DEF ShopsMade
  <2>. QED
    BY <2>9, <2>11
<1>3. ASSUME NEW r \in Requests, CreateShop(r) PROVE IInv'
  <2>1. /\ request' \in [Requests -> RequestState] /\ request'[r].pc = "manager"
        /\ \A q \in Requests : q # r => request'[q] = request[q]
    BY <1>3, GotoType DEF CreateShop, Running
  <2>2. TypeOK'
    BY <1>3, <2>1 DEF CreateShop, TypeOK, Taken
  <2>3. Staffed' = Staffed
    BY <1>3 DEF CreateShop, Staffed, Taken
  <2>4. ShopsMade'
    BY <1>3, <2>1, <2>3 DEF CreateShop, ShopsMade
  <2>. QED
    BY <2>2, <2>4
<1>4. ASSUME NEW r \in Requests, CreateManager(r) PROVE IInv'
  <2> DEFINE n == request[r].phone
             new == [shop |-> r, active |-> TRUE]
  <2>1. /\ request' \in [Requests -> RequestState] /\ request'[r].pc = "decide"
        /\ \A q \in Requests : q # r => request'[q] = request[q]
    BY <1>4, GotoType DEF CreateManager, Running
  <2>2. /\ n \in Phones /\ new \in Member /\ new # None /\ r \in shops
        /\ staff' = [staff EXCEPT ![n] = new] /\ staff[n] = None
        /\ UNCHANGED <<application, shops, audit, overlapped>>
    <3>1. new \in Member
      BY DEF Member
    <3>2. request[r].phone \in Phones
      BY DEF TypeOK, RequestState
    <3>3. r \in shops
      BY <1>4 DEF CreateManager, ShopsMade
    <3>. QED
      BY <1>4, <3>1, <3>2, <3>3, NoneAssumption DEF CreateManager, Taken
  <2>3. staff' \in [Phones -> Member \cup {None}] /\ staff'[n] = new
        /\ \A m \in Phones : m # n => staff'[m] = staff[m]
    BY <2>2 DEF TypeOK
  <2>4. \A m \in Phones : staff'[m] # None => staff'[m].shop \in shops'
    BY <2>2, <2>3 DEF TypeOK, Taken
  <2>5. TypeOK'
    BY <2>1, <2>2, <2>3, <2>4 DEF TypeOK, Taken
  <2>6. Staffed \subseteq Staffed' /\ r \in Staffed'
    BY <2>2, <2>3 DEF Staffed, Taken
  <2>7. ShopsMade'
    BY <2>1, <2>2, <2>6 DEF ShopsMade
  <2>. QED
    BY <2>5, <2>7
<1>5. ASSUME NEW r \in Requests, Decide(r) PROVE IInv'
  <2>1. /\ request' \in [Requests -> RequestState] /\ request'[r].pc = "audit"
        /\ \A q \in Requests : q # r => request'[q] = request[q]
        /\ request[r].application \in Applications
    BY <1>5, GotoType DEF Decide, Running, TypeOK, RequestState
  <2>2. application' \in [Applications -> [status: Statuses, shop: Requests \cup {None}]]
        /\ \A a \in Applications : application'[a].status = "APPROVED" <=> application'[a].shop # None
    BY <1>5, <2>1, NoneAssumption DEF Decide, Decided, TypeOK, Statuses
  <2>3. UNCHANGED <<shops, staff, audit, overlapped>>
    BY <1>5 DEF Decide
  <2>4. TypeOK'
    BY <2>1, <2>2, <2>3 DEF TypeOK, Taken
  <2>5. Staffed' = Staffed
    BY <2>3 DEF Staffed, Taken
  <2>6. ShopsMade'
    BY <2>1, <2>3, <2>5 DEF ShopsMade
  <2>. QED
    BY <2>4, <2>6
<1>6. ASSUME NEW n \in Phones,
             \/ \E s \in Requests : HireStaff(n, s)
             \/ \E new \in Phones : RenumberStaff(n, new)
             \/ \E on \in BOOLEAN : SetActive(n, on)
      PROVE  IInv'
  <2>1. UNCHANGED <<application, shops, audit, request, overlapped>>
    BY <1>6 DEF HireStaff, RenumberStaff, SetActive
  <2>2. /\ staff' \in [Phones -> Member \cup {None}]
        /\ \A m \in Phones : staff'[m] # None => staff'[m].shop \in Staffed
        /\ \A m \in Phones : Taken(m) =>
             \E k \in Phones : staff'[k] # None /\ staff'[k].shop = staff[m].shop
    <3>1. CASE \E s \in Requests : HireStaff(n, s)
      <4>1. PICK s \in Requests : HireStaff(n, s)
        BY <3>1
      <4>2. [shop |-> s, active |-> TRUE] \in Member
        BY DEF Member
      <4>. QED
        BY <4>1, <4>2, StaffedMember, NoneAssumption DEF HireStaff, TypeOK, Taken
    <3>2. CASE \E new \in Phones : RenumberStaff(n, new)
      <4>1. PICK new \in Phones : RenumberStaff(n, new)
        BY <3>2
      <4>2. new # n /\ staff[n] # None /\ staff[new] = None
        BY <4>1 DEF RenumberStaff, Taken
      <4>3. staff' = [staff EXCEPT ![n] = None, ![new] = staff[n]]
        BY <4>1 DEF RenumberStaff
      <4>. QED
        BY <4>2, <4>3, StaffedMember DEF TypeOK, Taken
    <3>3. CASE \E on \in BOOLEAN : SetActive(n, on)
      <4>1. PICK on \in BOOLEAN : SetActive(n, on)
        BY <3>3
      <4>2. staff[n] \in Member /\ staff[n] # None
        BY <4>1 DEF SetActive, Taken, TypeOK
      <4>3. [staff[n] EXCEPT !.active = on] \in Member
            /\ [staff[n] EXCEPT !.active = on].shop = staff[n].shop
        BY <4>2 DEF Member
      <4>4. staff' = [staff EXCEPT ![n] = [staff[n] EXCEPT !.active = on]]
        BY <4>1 DEF SetActive
      <4>. QED
        BY <4>2, <4>3, <4>4, StaffedMember, NoneAssumption DEF TypeOK, Taken
    <3>. QED
      BY <1>6, <3>1, <3>2, <3>3
  <2>3. Staffed \subseteq shops
    BY DEF Staffed, TypeOK
  <2>4. TypeOK'
    BY <2>1, <2>2, <2>3 DEF TypeOK, Taken
  <2>5. Staffed \subseteq Staffed'
    BY <2>2 DEF Staffed, Taken
  <2>6. ShopsMade'
    BY <2>1, <2>5 DEF ShopsMade
  <2>. QED
    BY <2>4, <2>6
<1>7. CASE UNCHANGED vars
  BY <1>7 DEF vars, TypeOK, ShopsMade, Staffed, Taken
<1>. QED
  BY <1>1, <1>2, <1>3, <1>4, <1>5, <1>6, <1>7 DEF Next

\* Rows keep their shape, members belong to shops that exist, and an
\* application names a shop exactly when it is approved.
THEOREM TypeCorrectness == Spec => []TypeOK
<1>1. IInv => TypeOK
  BY DEF IInv
<1>. QED
  BY <1>1, InitInv, NextInv, PTL DEF Spec

-----------------------------------------------------------------------------
(* The refinement. *)

LEMMA StepKeepsThePromise == IInv /\ [Next]_vars => [Promise!Next]_(Promise!vars)
<1> SUFFICES ASSUME IInv, [Next]_vars PROVE [Promise!Next]_(Promise!vars)
  OBVIOUS
<1> USE DEF IInv
<1>0. application \in [Applications -> [status: Statuses, shop: Requests \cup {None}]]
  BY DEF TypeOK
<1>1. ASSUME NEW a \in Applications, Submit(a) PROVE Promise!Submit(a)
  BY <1>0, <1>1 DEF Submit, Promise!Submit, Staffed, Taken
<1>2. ASSUME NEW a \in Applications, Reject(a) PROVE Promise!Reject(a)
  BY <1>0, <1>2 DEF Reject, Promise!Reject, Staffed, Taken
<1>3. ASSUME NEW r \in Requests, CreateManager(r) PROVE Promise!Hire(r)
  <2>1. /\ request[r].phone \in Phones /\ [shop |-> r, active |-> TRUE] # None
        /\ staff' = [staff EXCEPT ![request[r].phone] = [shop |-> r, active |-> TRUE]]
        /\ staff[request[r].phone] = None
        /\ staff \in [Phones -> Member \cup {None}]
        /\ UNCHANGED application
    <3>1. [shop |-> r, active |-> TRUE] \in Member
      BY DEF Member
    <3>2. request[r].phone \in Phones
      BY DEF TypeOK, RequestState
    <3>. QED
      BY <1>3, <3>1, <3>2, NoneAssumption DEF CreateManager, Taken, TypeOK
  <2>2. Staffed' = Staffed \cup {r}
    BY <2>1 DEF Staffed, Taken
  <2>. QED
    BY <2>1, <2>2 DEF Promise!Hire
<1>4. ASSUME NEW r \in Requests, Decide(r)
      PROVE  Promise!Approve(request[r].application, r) \/ UNCHANGED Promise!vars
  <2>1. r \in Staffed /\ request[r].application \in Applications
    BY <1>4 DEF Decide, ShopsMade, TypeOK, RequestState
  <2>2. Staffed' = Staffed
    BY <1>4 DEF Decide, Staffed, Taken
  <2>3. CASE Pending(request[r].application)
    BY <1>0, <1>4, <2>1, <2>2, <2>3 DEF Decide, Pending, Decided, Promise!Approve
  <2>4. CASE ~Pending(request[r].application)
    BY <1>4, <2>2, <2>4 DEF Decide, Promise!vars
  <2>. QED
    BY <2>3, <2>4
<1>5. ASSUME NEW r \in Requests,
             \/ Approve(r) \/ Refuse(r) \/ CreateShop(r) \/ PhoneTaken(r)
             \/ Audit(r) \/ Cut(r)
      PROVE  UNCHANGED Promise!vars
  <2>1. UNCHANGED <<application, staff>>
    BY <1>5 DEF Approve, Refuse, CreateShop, PhoneTaken, Audit, Cut
  <2>. QED
    BY <2>1 DEF Promise!vars, Staffed, Taken
<1>6. ASSUME NEW n \in Phones,
             \/ \E s \in Requests : HireStaff(n, s)
             \/ \E new \in Phones : RenumberStaff(n, new)
             \/ \E on \in BOOLEAN : SetActive(n, on)
      PROVE  UNCHANGED Promise!vars
  <2>1. UNCHANGED application
    BY <1>6 DEF HireStaff, RenumberStaff, SetActive
  <2>2. Staffed' = Staffed
    <3>0. staff \in [Phones -> Member \cup {None}]
      BY DEF TypeOK
    <3>1. CASE \E s \in Requests : HireStaff(n, s)
      <4>1. PICK s \in Requests : HireStaff(n, s)
        BY <3>1
      <4>2. [shop |-> s, active |-> TRUE] # None
        <5>1. [shop |-> s, active |-> TRUE] \in Member
          BY DEF Member
        <5>. QED
          BY <5>1, NoneAssumption
      <4>3. /\ staff' = [staff EXCEPT ![n] = [shop |-> s, active |-> TRUE]]
            /\ staff[n] = None
            /\ \E m \in Phones : staff[m] # None /\ staff[m].shop = s
        BY <4>1 DEF HireStaff, Staffed, Taken
      <4>. QED
        BY <3>0, <4>2, <4>3 DEF Staffed, Taken
    <3>2. CASE \E new \in Phones : RenumberStaff(n, new)
      <4>1. PICK new \in Phones : RenumberStaff(n, new)
        BY <3>2
      <4>2. /\ staff' = [staff EXCEPT ![n] = None, ![new] = staff[n]]
            /\ staff[n] # None /\ staff[new] = None
        BY <4>1 DEF RenumberStaff, Taken
      <4>. QED
        BY <3>0, <4>2 DEF Staffed, Taken
    <3>3. CASE \E on \in BOOLEAN : SetActive(n, on)
      <4>1. PICK on \in BOOLEAN : SetActive(n, on)
        BY <3>3
      <4>2. staff[n] \in Member /\ staff[n] # None
        BY <3>0, <4>1 DEF SetActive, Taken
      <4>3. /\ [staff[n] EXCEPT !.active = on] # None
            /\ [staff[n] EXCEPT !.active = on].shop = staff[n].shop
        BY <4>2, NoneAssumption DEF Member
      <4>4. staff' = [staff EXCEPT ![n] = [staff[n] EXCEPT !.active = on]]
        BY <4>1 DEF SetActive
      <4>. QED
        BY <3>0, <4>2, <4>3, <4>4 DEF Staffed, Taken
    <3>. QED
      BY <1>6, <3>1, <3>2, <3>3
  <2>. QED
    BY <2>1, <2>2 DEF Promise!vars
<1>7. UNCHANGED vars => UNCHANGED Promise!vars
  BY DEF vars, Promise!vars, Staffed, Taken
<1>8. \A r \in Requests : request[r].application \in Applications
  BY DEF TypeOK, RequestState
<1>9. ASSUME NEW a \in Applications, Submit(a) \/ Reject(a) PROVE Promise!Next
  BY <1>1, <1>2, <1>9 DEF Promise!Next, Promise!Submit, Promise!Reject
<1>10. ASSUME NEW r \in Requests, CreateManager(r) \/ Decide(r)
       PROVE  Promise!Next \/ UNCHANGED Promise!vars
  BY <1>3, <1>4, <1>8, <1>10 DEF Promise!Next, Promise!Hire, Promise!Approve
<1>. QED
  BY <1>5, <1>6, <1>7, <1>9, <1>10 DEF Next

LEMMA InitKeepsThePromise == Init => Promise!Init
BY DEF Init, Promise!Init, Staffed, Taken

\* Whatever approvals, rejections and staff changes race or crash, applications
\* implement dev-freeze 4.4.
THEOREM PromiseKept == Spec => KeepsThePromise
BY InitInv, NextInv, StepKeepsThePromise, InitKeepsThePromise,
   PTL DEF Spec, KeepsThePromise, Promise!Spec

-----------------------------------------------------------------------------
(* Answers.  Two approvals of one application under way overlap; one that    *)
(* overlaps nothing finds its application PENDING until it decides.          *)

OverlapsKnown ==
  \A r, q \in Requests :
    r # q /\ InFlight(r) /\ InFlight(q) /\ request[r].application = request[q].application
      => r \in overlapped

StillPending ==
  \A r \in Requests :
    request[r].pc \in {"shop", "manager", "decide"} /\ r \notin overlapped
      => application[request[r].application].status = "PENDING"

OkMeansDecided ==
  \A r \in Requests : request[r].pc \in {"audit", "ok"} /\ r \notin overlapped =>
    application[request[r].application] = Decided(r)

EntriesTrue ==
  /\ \A a \in audit["REJECTED"] : application[a].status = "REJECTED"
  /\ \A a \in audit["APPROVED"] :
       application[a].status = "APPROVED" \/ \E r \in overlapped : request[r].application = a

AnswersInv == IInv /\ OverlapsKnown /\ StillPending /\ OkMeansDecided /\ EntriesTrue

LEMMA InitAnswers == Init => AnswersInv
<1> SUFFICES ASSUME Init PROVE AnswersInv
  OBVIOUS
<1>1. \A r \in Requests : request[r].pc = "idle"
  BY DEF Init
<1>. QED
  BY <1>1, InitInv DEF Init, Decisions, AnswersInv, OverlapsKnown, StillPending, OkMeansDecided,
                       EntriesTrue, InFlight, Running

LEMMA NextAnswers == AnswersInv /\ [Next]_vars => AnswersInv'
<1> SUFFICES ASSUME AnswersInv, [Next]_vars PROVE AnswersInv'
  OBVIOUS
<1>0. IInv /\ IInv' /\ TypeOK
  BY NextInv DEF AnswersInv, IInv
<1>00. /\ \A r \in Requests : request[r].application \in Applications
       /\ application \in [Applications -> [status: Statuses, shop: Requests \cup {None}]]
       /\ \A a \in Applications : application[a].status = "APPROVED" <=> application[a].shop # None
       /\ shops \subseteq Requests /\ overlapped \subseteq Requests
       /\ audit["APPROVED"] \subseteq Applications /\ audit["REJECTED"] \subseteq Applications
  BY <1>0 DEF TypeOK, RequestState, Decisions
<1>000. ASSUME NEW r \in Requests, \A q \in Requests : q # r => request'[q] = request[q],
               request'[r].application = request[r].application
        PROVE  /\ \A q \in Requests : request'[q].application = request[q].application
               /\ \A q \in Requests : q # r => (InFlight(q)' <=> InFlight(q))
  BY <1>000 DEF InFlight
<1> USE DEF AnswersInv
\* A row that is not PENDING keeps its decision, whoever else steps.
<1>1. ASSUME NEW a \in Applications, Submit(a) PROVE AnswersInv'
  <2>1. /\ UNCHANGED <<audit, request, overlapped>>
        /\ application[a].status = "NONE" /\ application'[a].status = "PENDING"
        /\ application'[a].shop = application[a].shop
        /\ \A b \in Applications : b # a => application'[b] = application[b]
    BY <1>1, <1>00 DEF Submit
  <2>2. OverlapsKnown' /\ StillPending'
    BY <1>00, <2>1 DEF OverlapsKnown, StillPending, InFlight
  <2>3. OkMeansDecided'
    BY <1>00, <2>1 DEF OkMeansDecided, Decided
  <2>3a. EntriesTrue'
    BY <1>00, <2>1 DEF EntriesTrue
  <2>. QED
    BY <1>0, <2>2, <2>3, <2>3a
<1>2. ASSUME NEW a \in Applications, Reject(a) PROVE AnswersInv'
  <2>1. /\ UNCHANGED request
        /\ application[a].status = "PENDING" /\ application'[a].status = "REJECTED"
        /\ application'[a].shop = application[a].shop
        /\ \A b \in Applications : b # a => application'[b] = application[b]
        /\ audit'["REJECTED"] \subseteq audit["REJECTED"] \cup {a}
        /\ audit'["APPROVED"] = audit["APPROVED"]
        /\ overlapped \subseteq overlapped'
        /\ \A r \in Requests : InFlight(r) /\ request[r].application = a => r \in overlapped'
    BY <1>0, <1>2, <1>00 DEF Reject, Deciding, Entered, Decisions, TypeOK
  <2>2. OverlapsKnown'
    BY <2>1 DEF OverlapsKnown, InFlight
  <2>3. StillPending'
    BY <1>00, <2>1 DEF StillPending, InFlight, Running
  <2>4. OkMeansDecided'
    BY <1>00, <2>1 DEF OkMeansDecided, Decided
  <2>4a. EntriesTrue'
    BY <1>00, <2>1 DEF EntriesTrue
  <2>. QED
    BY <1>0, <2>2, <2>3, <2>4, <2>4a
<1>3. ASSUME NEW r \in Requests, Approve(r) PROVE AnswersInv'
  <2>1. /\ request'[r].pc = "shop" /\ request'[r].application = request[r].application
        /\ \A q \in Requests : q # r => request'[q] = request[q]
    BY <1>0, <1>3, GotoType DEF Approve, Running
  <2>2. /\ request[r].pc = "idle"
        /\ application[request[r].application].status = "PENDING"
        /\ UNCHANGED <<application, audit>>
        /\ overlapped \subseteq overlapped'
    BY <1>3 DEF Approve, MayApprove
  <2>3. ASSUME NEW q \in Requests, InFlight(q),
               request[q].application = request[r].application
        PROVE  q \in overlapped' /\ r \in overlapped'
    BY <1>3, <2>3 DEF Approve, Deciding
  <2>4. \A q \in Requests : q # r => (InFlight(q)' <=> InFlight(q))
    BY <2>1 DEF InFlight
  <2>5. OverlapsKnown'
    BY <2>1, <2>2, <2>3, <2>4 DEF OverlapsKnown
  <2>6. StillPending'
    BY <2>1, <2>2 DEF StillPending
  <2>7. OkMeansDecided'
    BY <1>00, <2>1, <2>2 DEF OkMeansDecided, Decided
  <2>7a. EntriesTrue'
    BY <1>00, <2>1, <2>2 DEF EntriesTrue
  <2>. QED
    BY <1>0, <2>5, <2>6, <2>7, <2>7a
<1>4. ASSUME NEW r \in Requests,
             Refuse(r) \/ CreateShop(r) \/ CreateManager(r) \/ PhoneTaken(r) \/ Cut(r)
      PROVE  AnswersInv'
  <2>1. \E pc \in {"refused", "manager", "decide", "phone taken", "cut"} :
          /\ Goto(r, pc)
          /\ pc = "refused" => request[r].pc = "idle"
          /\ pc = "manager" => request[r].pc = "shop"
          /\ pc = "decide" => request[r].pc = "manager"
          /\ pc \in {"phone taken", "cut"} => InFlight(r)
    BY <1>4 DEF Refuse, CreateShop, CreateManager, PhoneTaken, Cut, InFlight, Running
  <2>2. PICK pc \in {"refused", "manager", "decide", "phone taken", "cut"} :
          /\ Goto(r, pc)
          /\ pc = "refused" => request[r].pc = "idle"
          /\ pc = "manager" => request[r].pc = "shop"
          /\ pc = "decide" => request[r].pc = "manager"
          /\ pc \in {"phone taken", "cut"} => InFlight(r)
    BY <2>1
  <2>3. pc \in {"idle"} \cup Running \cup Ends
    BY DEF Running, Ends
  <2>4. /\ request'[r].pc = pc /\ request'[r].application = request[r].application
        /\ \A q \in Requests : q # r => request'[q] = request[q]
    BY <1>0, <2>2, <2>3, GotoType
  <2>5. UNCHANGED <<application, audit, overlapped>>
    BY <1>4 DEF Refuse, CreateShop, CreateManager, PhoneTaken, Cut, Running
  <2>6. InFlight(r)' => InFlight(r)
    BY <2>2, <2>4 DEF InFlight, Running
  <2>7. OverlapsKnown'
    BY <2>4, <2>5, <2>6 DEF OverlapsKnown, InFlight
  <2>8. StillPending'
    BY <2>2, <2>4, <2>5 DEF StillPending
  <2>9. OkMeansDecided'
    BY <1>00, <2>4, <2>5 DEF OkMeansDecided, Decided
  <2>9a. EntriesTrue'
    <3>1. \A q \in Requests : request'[q].application = request[q].application
      BY <1>000, <2>4
    <3>. QED
      <4>1. ASSUME NEW a \in audit["APPROVED"]
            PROVE  \/ application'[a].status = "APPROVED"
                   \/ \E q \in overlapped' : request'[q].application = a
        <5>1. CASE application[a].status = "APPROVED"
          BY <2>5, <5>1
        <5>2. CASE \E q \in overlapped : request[q].application = a
          BY <1>00, <2>5, <3>1, <5>2
        <5>. QED
          BY <4>1, <5>1, <5>2 DEF EntriesTrue
      <4>2. \A a \in audit["REJECTED"] : application'[a].status = "REJECTED"
        BY <2>5 DEF EntriesTrue
      <4>. QED
        BY <2>5, <4>1, <4>2 DEF EntriesTrue
  <2>. QED
    BY <1>0, <2>7, <2>8, <2>9, <2>9a
<1>5. ASSUME NEW r \in Requests, Decide(r) PROVE AnswersInv'
  <2> DEFINE a == request[r].application
  <2>1. /\ request'[r].pc = "audit" /\ request'[r].application = a /\ a \in Applications
        /\ \A q \in Requests : q # r => request'[q] = request[q]
    BY <1>0, <1>00, <1>5, GotoType DEF Decide, Running
  <2>2. request[r].pc = "decide" /\ UNCHANGED <<audit, overlapped>> /\ InFlight(r)
    BY <1>5 DEF Decide, InFlight, Running
  <2>3. /\ \A b \in Applications : b # a => application'[b] = application[b]
        /\ application[a].status = "PENDING" => application'[a] = Decided(r)
        /\ application[a].status # "PENDING" => application'[a] = application[a]
    BY <1>5, <1>00 DEF Decide, Pending
  <2>4. OverlapsKnown'
    BY <2>1, <2>2 DEF OverlapsKnown, InFlight
  <2>5. StillPending'
    <3>1. ASSUME NEW q \in Requests, q # r, request[q].pc \in {"shop", "manager", "decide"},
                 request[q].application = a
          PROVE  q \in overlapped
      BY <2>2, <3>1 DEF OverlapsKnown, InFlight, Running
    <3>. QED
      BY <1>00, <2>1, <2>2, <2>3, <3>1 DEF StillPending
  <2>6. OkMeansDecided' /\ EntriesTrue'
    <3>1. r \notin overlapped => application'[a] = Decided(r)
      BY <2>2, <2>3 DEF StillPending
    <3>2. application[a].status = "PENDING" => application'[a].status = "APPROVED"
      BY <2>3 DEF Decided
    <3>3. OkMeansDecided'
      BY <1>00, <2>1, <2>2, <2>3, <3>1 DEF OkMeansDecided, Decided
    <3>4. EntriesTrue'
      BY <1>00, <2>1, <2>2, <2>3, <3>2 DEF EntriesTrue
    <3>. QED
      BY <3>3, <3>4
  <2>. QED
    BY <1>0, <2>4, <2>5, <2>6
<1>6. ASSUME NEW r \in Requests, Audit(r) PROVE AnswersInv'
  <2>1. /\ request'[r].pc = "ok" /\ request'[r].application = request[r].application
        /\ \A q \in Requests : q # r => request'[q] = request[q]
    BY <1>0, <1>6, GotoType DEF Audit, Ends
  <2>2. /\ request[r].pc = "audit" /\ UNCHANGED <<application, overlapped>>
        /\ audit'["APPROVED"] \subseteq audit["APPROVED"] \cup {request[r].application}
        /\ audit'["REJECTED"] = audit["REJECTED"]
    BY <1>0, <1>6 DEF Audit, Entered, Decisions, TypeOK
  <2>3. r \notin overlapped => application[request[r].application] = Decided(r)
    BY <1>00, <2>2 DEF OkMeansDecided
  <2>4. OverlapsKnown'
    BY <2>1, <2>2 DEF OverlapsKnown, InFlight, Running
  <2>5. StillPending'
    BY <2>1, <2>2 DEF StillPending
  <2>6. OkMeansDecided'
    BY <1>00, <2>1, <2>2, <2>3 DEF OkMeansDecided, Decided
  <2>6a. EntriesTrue'
    BY <1>00, <1>000, <2>1, <2>2, <2>3 DEF EntriesTrue, Decided
  <2>. QED
    BY <1>0, <2>4, <2>5, <2>6, <2>6a
<1>7. ASSUME UNCHANGED <<application, audit, request, overlapped>> PROVE AnswersInv'
  BY <1>0, <1>7 DEF OverlapsKnown, StillPending, OkMeansDecided, EntriesTrue,
                    InFlight, Decided
<1>8. ASSUME NEW n \in Phones,
             \/ \E s \in Requests : HireStaff(n, s)
             \/ \E new \in Phones : RenumberStaff(n, new)
             \/ \E on \in BOOLEAN : SetActive(n, on)
      PROVE  AnswersInv'
  BY <1>7, <1>8 DEF HireStaff, RenumberStaff, SetActive
<1>9. CASE UNCHANGED vars
  BY <1>7, <1>9 DEF vars
<1>. QED
  BY <1>1, <1>2, <1>3, <1>4, <1>5, <1>6, <1>8, <1>9 DEF Next

\* An approval that overlapped no other decision is answered ok only when its
\* shop is the one the row names, and audit entries name outcomes that happened.
THEOREM AnswersTrue == Spec => []AnswersAreTrue
<1>1. AnswersInv => AnswersAreTrue
  BY DEF AnswersInv, AnswersAreTrue, OkMeansDecided, EntriesTrue
<1>. QED
  BY <1>1, InitAnswers, NextAnswers, PTL DEF Spec

=============================================================================
