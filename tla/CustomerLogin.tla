--------------------------- MODULE CustomerLogin ---------------------------
(***************************************************************************)
(* The account of one phone number: one-time codes and passkeys (apps/     *)
(* order-service/src/customer/customer-auth.service.ts) and the customer's *)
(* page (apps/customer-web, useCustomerAccount.ts).  A finish reads the    *)
(* newest unused row and writes it by id several awaits later; messages    *)
(* are late or lost, submissions overlap and die.  A code and a passkey    *)
(* challenge are the same kind of row and differ in what a finish does.    *)
(***************************************************************************)
EXTENDS Naturals, Sequences, FiniteSets

CONSTANTS
  Requests,     \* executions of a finish; each opens at most one session,
                \* which is named by it
  None,
  AttemptLimit, \* mistakes a code forgives: 5 in the code
  MaxRows       \* bound: rows of each way

Ways == {"otp", "registration", "passkey"}

ASSUME LoginAssumption ==
  /\ None \notin Requests
  /\ AttemptLimit \in Nat
  /\ MaxRows \in [Ways -> Nat]

VARIABLES
  rows,       \* CustomerOtpCode and CustomerAuthChallenge rows, oldest first
  known,      \* the rows whose message has reached the customer
  verified,   \* User.phoneVerifiedAt
  passkeys,   \* credentials, named by the challenge they were registered with
  sessions,   \* live sessions
  request,
  overlapped, \* finishes that met another one on their row
  page,       \* the access token in localStorage and the refresh cookie
  left        \* the server carried out a logout and no login followed

vars == <<rows, known, verified, passkeys, sessions, request, overlapped, page, left>>

Row == [attempts: Nat, used: BOOLEAN, expired: BOOLEAN]
Fresh == [attempts |-> 0, used |-> FALSE, expired |-> FALSE]
Running == {"mistake", "save", "spend", "verify", "open", "answer"}
RequestState == [pc: {"idle", "done"} \cup Running, way: Ways, row: Nat]
Page == [token: {"none", "good", "stale"}, cookie: Requests \cup {None}]

Init ==
  /\ rows = [w \in Ways |-> << >>]
  /\ known = [w \in Ways |-> {}]
  /\ verified = FALSE
  /\ passkeys = {} /\ sessions = {} /\ overlapped = {}
  /\ request = [r \in Requests |-> [pc |-> "idle", way |-> "otp", row |-> 0]]
  /\ page = [token |-> "none", cookie |-> None]
  /\ left = FALSE

InFlight(r) == request[r].pc \in Running
Goto(r, pc) == request' = [request EXCEPT ![r].pc = pc]

-----------------------------------------------------------------------------
(* Beginnings: requestOtp, beginPasskeyRegistration, beginPasskeyLogin.  The *)
(* row is there before its message, which may never arrive: a code whose SMS *)
(* failed replaces the delivered one all the same.                           *)

\* Mutant: a passkey login does not ask for a verified phone or a credential.
MayBeginAny(w) == TRUE

MayBegin(w) ==
  /\ w # "otp" => verified
  /\ w = "passkey" => passkeys # {}

Begin(w) ==
  /\ MayBegin(w)
  /\ Len(rows[w]) < MaxRows[w]
  /\ rows' = [rows EXCEPT ![w] = Append(@, Fresh)]
  /\ UNCHANGED <<known, verified, passkeys, sessions, request, overlapped, page, left>>

MessageArrives(w, i) ==
  /\ i \in DOMAIN rows[w] \ known[w]
  /\ known' = [known EXCEPT ![w] = @ \cup {i}]
  /\ UNCHANGED <<rows, verified, passkeys, sessions, request, overlapped, page, left>>

\* Ten minutes for a code, five for a challenge: older rows expire first.
Expire(w, i) ==
  /\ i \in DOMAIN rows[w] /\ ~rows[w][i].expired
  /\ \A j \in 1..(i - 1) : rows[w][j].expired
  /\ rows' = [rows EXCEPT ![w][i].expired = TRUE]
  /\ UNCHANGED <<known, verified, passkeys, sessions, request, overlapped, page, left>>

-----------------------------------------------------------------------------
(* Finishes: verifyOtp, finishPasskeyRegistration, finishPasskeyLogin.       *)

\* Mutant: used rows are found too.
UnusedWithUsed(w) == DOMAIN rows[w]

Unused(w) == {i \in DOMAIN rows[w] : ~rows[w][i].used}

\* findFirst, newest first.
Newest(w, i) == i \in Unused(w) /\ \A j \in Unused(w) : j <= i

\* The newest row, if it can still be answered.
Open(w, i) == Newest(w, i) /\ ~rows[w][i].expired /\ rows[w][i].attempts < AttemptLimit

SameRow(w, i) == {q \in Requests : InFlight(q) /\ request[q].way = w /\ request[q].row = i}

FirstStep(w) == IF w = "otp" THEN "spend" ELSE "save"

\* The customer answers the message of row i.  Another row than the newest is
\* a mistake, which only a code counts.
Find(r, w, i) ==
  /\ request[r].pc = "idle"
  /\ \E n \in DOMAIN rows[w] :
       /\ Open(w, n)
       /\ i = n \/ w = "otp"
       /\ request' = [request EXCEPT ![r] =
            [pc |-> IF i = n THEN FirstStep(w) ELSE "mistake", way |-> w, row |-> n]]
       /\ overlapped' = IF SameRow(w, n) = {} THEN overlapped
                        ELSE overlapped \cup SameRow(w, n) \cup {r}
  /\ UNCHANGED <<rows, known, verified, passkeys, sessions, page, left>>

\* 0 is a mistyped code.
Answers(w) == known[w] \cup (IF w = "otp" THEN {0} ELSE {})

\* An atomic increment, and Unauthorized.
Mistake(r) ==
  /\ request[r].pc = "mistake"
  /\ rows' = [rows EXCEPT ![request[r].way][request[r].row].attempts = @ + 1]
  /\ Goto(r, "done")
  /\ UNCHANGED <<known, verified, passkeys, sessions, overlapped, page, left>>

\* A new credential, whose id is unique, or the counter of a known one.
Save(r) ==
  /\ request[r].pc = "save"
  /\ \/ /\ request[r].way = "registration" /\ request[r].row \notin passkeys
        /\ passkeys' = passkeys \cup {request[r].row}
     \/ request[r].way = "passkey" /\ UNCHANGED passkeys
  /\ Goto(r, "spend")
  /\ UNCHANGED <<rows, known, verified, sessions, overlapped, page, left>>

\* By id: the row may have been spent since it was found.
Spend(r) ==
  /\ request[r].pc = "spend"
  /\ rows' = [rows EXCEPT ![request[r].way][request[r].row].used = TRUE]
  /\ Goto(r, IF request[r].way = "otp" THEN "verify" ELSE "open")
  /\ UNCHANGED <<known, verified, passkeys, sessions, overlapped, page, left>>

VerifyUser(r) ==
  /\ request[r].pc = "verify"
  /\ verified' = TRUE
  /\ Goto(r, "open")
  /\ UNCHANGED <<rows, known, passkeys, sessions, overlapped, page, left>>

OpenSession(r) ==
  /\ request[r].pc = "open"
  /\ sessions' = sessions \cup {r}
  /\ Goto(r, "answer")
  /\ UNCHANGED <<rows, known, verified, passkeys, overlapped, page, left>>

\* The answer sets the cookie, and the page keeps the token.
Land(r) ==
  /\ request[r].pc = "answer"
  /\ page' = [token |-> "good", cookie |-> r]
  /\ left' = FALSE
  /\ Goto(r, "done")
  /\ UNCHANGED <<rows, known, verified, passkeys, sessions, overlapped>>

\* The process dies, an await throws (a credential id that exists), or the
\* answer is lost.
Cut(r) ==
  /\ InFlight(r)
  /\ Goto(r, "done")
  /\ UNCHANGED <<rows, known, verified, passkeys, sessions, overlapped, page, left>>

-----------------------------------------------------------------------------
(* The page, once signed in. *)

TokenExpires ==
  /\ page.token = "good"
  /\ page' = [page EXCEPT !.token = "stale"]
  /\ UNCHANGED <<rows, known, verified, passkeys, sessions, request, overlapped, left>>

\* The effect that runs while there is no token.
Restore ==
  /\ page.token = "none" /\ page.cookie \in sessions
  /\ page' = [page EXCEPT !.token = "good"]
  /\ UNCHANGED <<rows, known, verified, passkeys, sessions, request, overlapped, left>>

\* Mutant: the cookie is cleared and its session lives on, for a cookie that
\* the browser still sends.
RevokesNothing == sessions

\* customerLogout, which needs a token that is good.
RevokesCookie == sessions \ {page.cookie}

Logout ==
  /\ page.token = "good" /\ page.cookie \in sessions
  /\ sessions' = RevokesCookie
  /\ \E cleared \in {page.cookie, None} :   \* the answer may be lost
       page' = [token |-> "none", cookie |-> cleared]
  /\ left' = TRUE
  /\ UNCHANGED <<rows, known, verified, passkeys, request, overlapped>>

\* The call fails, or the token is stale: the page forgets the token anyway.
LogoutFails ==
  /\ page.token # "none"
  /\ page' = [page EXCEPT !.token = "none"]
  /\ UNCHANGED <<rows, known, verified, passkeys, sessions, request, overlapped, left>>

Next ==
  \/ \E w \in Ways :
       \/ Begin(w)
       \/ \E i \in DOMAIN rows[w] : MessageArrives(w, i) \/ Expire(w, i)
       \/ \E r \in Requests, i \in Answers(w) : Find(r, w, i)
  \/ \E r \in Requests :
       Mistake(r) \/ Save(r) \/ Spend(r) \/ VerifyUser(r) \/ OpenSession(r) \/ Land(r) \/ Cut(r)
  \/ TokenExpires \/ Restore \/ Logout \/ LogoutFails

Spec == Init /\ [][Next]_vars

-----------------------------------------------------------------------------
\* Rows and finishes keep their shape, and whoever has a passkey or a session
\* has a verified phone, although the three are written by separate statements.
TypeOK ==
  /\ rows \in [Ways -> Seq(Row)]
  /\ \A w \in Ways : known[w] \subseteq DOMAIN rows[w]
  /\ verified \in BOOLEAN /\ left \in BOOLEAN
  /\ passkeys \subseteq DOMAIN rows["registration"]
  /\ sessions \subseteq Requests /\ overlapped \subseteq Requests
  /\ request \in [Requests -> RequestState]
  /\ page \in Page
  /\ passkeys # {} \/ sessions # {} => verified

\* A code or a challenge admits once: of two finishes that got past the read
\* with one row, both overlapped.
Admitted(r) == request[r].pc \in {"verify", "open", "answer"} \/ r \in sessions
SpentOnce ==
  \A r, q \in Requests :
    /\ Admitted(r) /\ Admitted(q) /\ r # q
    /\ request[r].way = request[q].way /\ request[r].row = request[q].row
    => r \in overlapped /\ q \in overlapped

\* A logout the server carried out holds: the page is not signed in again by
\* its own restoring effect, even when the answer that clears the cookie is
\* lost and whatever logins died half way.
LogoutHolds == left => page.token # "good"

=============================================================================
