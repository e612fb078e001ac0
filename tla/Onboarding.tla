----------------------------- MODULE Onboarding -----------------------------
(***************************************************************************)
(* Shop applications (apps/order-service/src/admin/admin.service.ts) and   *)
(* the staff rows they compete with.  approveShopApplication creates the   *)
(* shop, its manager and the decision in three statements without a        *)
(* transaction; Staff.phone is unique over all shops.  Approvals overlap   *)
(* with each other, with rejections and with the shops' own staff pages.   *)
(***************************************************************************)
EXTENDS Naturals

CONSTANTS
  Applications, Phones, None,
  Requests    \* executions of approveShopApplication, each of which makes at
              \* most one shop: a shop is named by its execution

VARIABLES
  application, \* ShopApplication rows: status (NONE before it is submitted) and
               \* createdShopId
  shops,       \* Shop rows
  staff,       \* the Staff row of each phone number
  audit,       \* the applications that platform audit entries of each kind name
  request,     \* local state of each execution
  overlapped   \* executions that overlapped another decision on their row

vars == <<application, shops, staff, audit, request, overlapped>>

Statuses == {"NONE", "PENDING", "APPROVED", "REJECTED"}
Running == {"shop", "manager", "decide", "audit"}
Ends == {"ok", "refused", "phone taken", "cut"}
Decisions == {"APPROVED", "REJECTED"}
Member == [shop: Requests, active: BOOLEAN]
RequestState ==
  [pc: {"idle"} \cup Running \cup Ends, application: Applications, phone: Phones]

ASSUME NoneAssumption == None \notin Requests /\ None \notin Member

Init ==
  /\ application = [a \in Applications |-> [status |-> "NONE", shop |-> None]]
  /\ shops = {}
  /\ staff = [n \in Phones |-> None]
  /\ audit = [d \in Decisions |-> {}]
  /\ request \in [Requests -> [pc: {"idle"}, application: Applications, phone: Phones]]
  /\ overlapped = {}

InFlight(r) == request[r].pc \in Running
Deciding(a) == {r \in Requests : InFlight(r) /\ request[r].application = a}
Entered(d, a) == [audit EXCEPT ![d] = @ \cup {a}]
Goto(r, pc) == request' = [request EXCEPT ![r].pc = pc]

-----------------------------------------------------------------------------
Submit(a) ==
  /\ application[a].status = "NONE"
  /\ application' = [application EXCEPT ![a].status = "PENDING"]
  /\ UNCHANGED <<shops, staff, audit, request, overlapped>>

\* Mutant: the status is not looked at.
MayApproveAnything(a) == application[a].status # "NONE"

\* approveShopApplication, the first read.
MayApprove(a) == application[a].status = "PENDING"

Approve(r) ==
  LET a == request[r].application IN
  /\ request[r].pc = "idle"
  /\ MayApprove(a)
  /\ Goto(r, "shop")
  /\ overlapped' = IF Deciding(a) = {} THEN overlapped
                   ELSE overlapped \cup Deciding(a) \cup {r}
  /\ UNCHANGED <<application, shops, staff, audit>>

\* Decided already: ok is false, and the answer names the shop of the row.
Refuse(r) ==
  LET a == request[r].application IN
  /\ request[r].pc = "idle"
  /\ application[a].status # "NONE" /\ ~MayApprove(a)
  /\ Goto(r, "refused")
  /\ UNCHANGED <<application, shops, staff, audit, overlapped>>

CreateShop(r) ==
  /\ request[r].pc = "shop"
  /\ shops' = shops \cup {r}
  /\ Goto(r, "manager")
  /\ UNCHANGED <<application, staff, audit, overlapped>>

\* The unique index on Staff.phone.
Taken(n) == staff[n] # None

CreateManager(r) ==
  LET n == request[r].phone IN
  /\ request[r].pc = "manager"
  /\ ~Taken(n)
  /\ staff' = [staff EXCEPT ![n] = [shop |-> r, active |-> TRUE]]
  /\ Goto(r, "decide")
  /\ UNCHANGED <<application, shops, audit, overlapped>>

\* The insert fails, nothing catches it, and the shop stays.
PhoneTaken(r) ==
  /\ request[r].pc = "manager"
  /\ Taken(request[r].phone)
  /\ Goto(r, "phone taken")
  /\ UNCHANGED <<application, shops, staff, audit, overlapped>>

\* Mutant: the update names the application alone.
PendingAlways(a) == TRUE

\* updateMany WHERE status = PENDING.
Pending(a) == application[a].status = "PENDING"

\* Mutant: createdShopId is not written.
DecidedWithoutShop(r) == [status |-> "APPROVED", shop |-> None]

Decided(r) == [status |-> "APPROVED", shop |-> r]

\* How many rows the update met is not looked at.
Decide(r) ==
  LET a == request[r].application IN
  /\ request[r].pc = "decide"
  /\ application' = IF Pending(a) THEN [application EXCEPT ![a] = Decided(r)]
                    ELSE application
  /\ Goto(r, "audit")
  /\ UNCHANGED <<shops, staff, audit, overlapped>>

\* recordAudit swallows its errors; then ok is true.
Audit(r) ==
  /\ request[r].pc = "audit"
  /\ audit' \in {audit, Entered("APPROVED", request[r].application)}
  /\ Goto(r, "ok")
  /\ UNCHANGED <<application, shops, staff, overlapped>>

\* The process dies or an await throws.
Cut(r) ==
  /\ InFlight(r)
  /\ Goto(r, "cut")
  /\ UNCHANGED <<application, shops, staff, audit, overlapped>>

\* rejectShopApplication: one conditional statement, then its audit.
Reject(a) ==
  /\ application[a].status = "PENDING"
  /\ application' = [application EXCEPT ![a].status = "REJECTED"]
  /\ audit' \in {audit, Entered("REJECTED", a)}
  /\ overlapped' = overlapped \cup Deciding(a)
  /\ UNCHANGED <<shops, staff, request>>

-----------------------------------------------------------------------------
(* Staff pages of a shop: createStaff and createStaffAccount, updateStaff,  *)
(* deleteStaff and deleteStaffUser.  Nothing deletes a row.                 *)

Staffed == {staff[n].shop : n \in {n \in Phones : Taken(n)}}

HireStaff(n, s) ==
  /\ s \in Staffed
  /\ ~Taken(n)
  /\ staff' = [staff EXCEPT ![n] = [shop |-> s, active |-> TRUE]]
  /\ UNCHANGED <<application, shops, audit, request, overlapped>>

\* updateStaff with a phone number.
RenumberStaff(n, new) ==
  /\ Taken(n) /\ ~Taken(new)
  /\ staff' = [staff EXCEPT ![n] = None, ![new] = staff[n]]
  /\ UNCHANGED <<application, shops, audit, request, overlapped>>

\* updateStaff with a status, and the two deletions, which are INACTIVE.
SetActive(n, on) ==
  /\ Taken(n)
  /\ staff[n].active # on
  /\ staff' = [staff EXCEPT ![n].active = on]
  /\ UNCHANGED <<application, shops, audit, request, overlapped>>

Next ==
  \/ \E a \in Applications : Submit(a) \/ Reject(a)
  \/ \E r \in Requests :
       \/ Approve(r) \/ Refuse(r) \/ CreateShop(r) \/ CreateManager(r) \/ PhoneTaken(r)
       \/ Decide(r) \/ Audit(r) \/ Cut(r)
  \/ \E n \in Phones :
       \/ \E s \in Requests : HireStaff(n, s)
       \/ \E new \in Phones : RenumberStaff(n, new)
       \/ \E on \in BOOLEAN : SetActive(n, on)

Spec == Init /\ [][Next]_vars

-----------------------------------------------------------------------------
\* Rows and executions keep their shape, every member's shop exists, and an
\* application names a shop exactly when it is approved.
TypeOK ==
  /\ application \in [Applications -> [status: Statuses, shop: Requests \cup {None}]]
  /\ \A a \in Applications : application[a].status = "APPROVED" <=> application[a].shop # None
  /\ shops \subseteq Requests
  /\ staff \in [Phones -> Member \cup {None}]
  /\ \A n \in Phones : Taken(n) => staff[n].shop \in shops
  /\ audit \in [Decisions -> SUBSET Applications]
  /\ request \in [Requests -> RequestState]
  /\ overlapped \subseteq Requests

\* dev-freeze 4.4, as an abstract specification: whatever overlaps, crashes or
\* loses its phone number, an application is decided once, and an approval
\* names a shop with staff, whom no page of a shop takes away.
Promise == INSTANCE OnboardingPromise WITH
             Shops <- Requests,
             decision <- [a \in Applications |-> application[a].status],
             opened <- [a \in Applications |-> application[a].shop],
             staffed <- Staffed
KeepsThePromise == Promise!Spec

\* Answers and audit entries are true: an approval that overlapped no other
\* decision is answered ok only when it is the decision, and an entry names an
\* outcome the application has, unless the approval that wrote it overlapped.
AnswersAreTrue ==
  /\ \A r \in Requests : request[r].pc \in {"audit", "ok"} /\ r \notin overlapped =>
       application[request[r].application] = Decided(r)
  /\ \A a \in audit["REJECTED"] : application[a].status = "REJECTED"
  /\ \A a \in audit["APPROVED"] :
       application[a].status = "APPROVED" \/ \E r \in overlapped : request[r].application = a

=============================================================================
