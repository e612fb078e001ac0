------------------------ MODULE CustomerLoginProofs ------------------------
(***************************************************************************)
(* Theorems about CustomerLogin for every number of finishes, rows and     *)
(* forgiven mistakes.                                                      *)
(***************************************************************************)
EXTENDS CustomerLogin, TLAPS

-----------------------------------------------------------------------------
(* What a finish in flight knows of its row, and what a page knows of its    *)
(* cookie.                                                                   *)

\* The row a finish found is there.
RowsFound ==
  \A r \in Requests : InFlight(r) => request[r].row \in DOMAIN rows[request[r].way]

\* Only a code verifies the phone; the other ways need it verified.
VerifiedFirst ==
  /\ \A w \in Ways : w # "otp" /\ DOMAIN rows[w] # {} => verified
  /\ \A r \in Requests : request[r].pc \in {"open", "answer"} => verified

\* Whoever got past the write by id has spent its row, and keeps it.
AdmittedSpent ==
  \A r \in Requests : Admitted(r) =>
    /\ request[r].row \in DOMAIN rows[request[r].way]
    /\ rows[request[r].way][request[r].row].used
    /\ request[r].pc \in {"verify", "open", "answer", "done"}

\* Finishes on one row, as long as both may admit or have admitted, met on it.
MetOnTheRow ==
  \A r, q \in Requests :
    /\ InFlight(r) \/ Admitted(r)
    /\ InFlight(q) \/ Admitted(q)
    /\ r # q
    /\ request[r].way = request[q].way /\ request[r].row = request[q].row
    => r \in overlapped /\ q \in overlapped

\* The cookie is of a finish that is over, so nobody opens its session again.
CookieDone == page.cookie # None => request[page.cookie].pc = "done"
LeftForGood == left => page.token # "good" /\ page.cookie \notin sessions

IInv ==
  /\ TypeOK /\ RowsFound /\ VerifiedFirst /\ AdmittedSpent /\ MetOnTheRow
  /\ CookieDone /\ LeftForGood

-----------------------------------------------------------------------------
LEMMA InitInv == Init => IInv
<1> SUFFICES ASSUME Init PROVE IInv
  OBVIOUS
<1> USE LoginAssumption
<1>1. rows \in [Ways -> Seq(Row)] /\ \A w \in Ways : DOMAIN rows[w] = {}
  BY DEF Init
<1>2. request \in [Requests -> RequestState] /\ \A r \in Requests : request[r].pc = "idle"
  BY DEF Init, RequestState, Ways
<1>3. page \in Page /\ page.cookie = None /\ page.token = "none"
  BY DEF Init, Page
<1>4. \A w \in Ways : known[w] = {}
  BY DEF Init
<1>5. TypeOK
  BY <1>1, <1>2, <1>3, <1>4 DEF Init, TypeOK
<1>. QED
  BY <1>1, <1>2, <1>3, <1>5
     DEF Init, IInv, RowsFound, VerifiedFirst, AdmittedSpent, MetOnTheRow, CookieDone,
         LeftForGood, InFlight, Admitted, Running

\* A program counter moves and nothing else of the execution does.
LEMMA GotoType ==
  ASSUME TypeOK, NEW r \in Requests, NEW pc \in {"idle", "done"} \cup Running, Goto(r, pc)
  PROVE  /\ request' \in [Requests -> RequestState]
         /\ request'[r].pc = pc
         /\ request'[r].way = request[r].way
         /\ request'[r].row = request[r].row
         /\ \A q \in Requests : q # r => request'[q] = request[q]
<1>1. request[r] \in RequestState
  BY DEF TypeOK
<1>2. [request[r] EXCEPT !.pc = pc] \in RequestState
  BY <1>1 DEF RequestState
<1>. QED
  BY <1>1, <1>2 DEF Goto, TypeOK, RequestState

\* A row that is replaced by a row leaves the rows in shape.
LEMMA RowWritten ==
  ASSUME rows \in [Ways -> Seq(Row)], NEW w \in Ways, NEW i \in DOMAIN rows[w], NEW new \in Row,
         rows' = [rows EXCEPT ![w] = [rows[w] EXCEPT ![i] = new]]
  PROVE  /\ rows' \in [Ways -> Seq(Row)]
         /\ \A v \in Ways : DOMAIN rows'[v] = DOMAIN rows[v]
         /\ rows'[w][i] = new
         /\ \A v \in Ways : \A j \in DOMAIN rows[v] :
              v # w \/ j # i => rows'[v][j] = rows[v][j]
<1>1. rows[w] \in Seq(Row)
  OBVIOUS
<1>2. [rows[w] EXCEPT ![i] = new] \in Seq(Row)
  BY <1>1
<1>. QED
  BY <1>1, <1>2

\* A step that leaves the executions and the sessions alone and loses no row
\* keeps what executions know.
LEMMA QuietStep ==
  ASSUME IInv, TypeOK', UNCHANGED <<request, sessions, overlapped>>,
         verified' = verified,
         \A w \in Ways : DOMAIN rows[w] \subseteq DOMAIN rows'[w],
         \A w \in Ways, i \in Nat : i \in DOMAIN rows[w] /\ rows[w][i].used => rows'[w][i].used,
         \A w \in Ways : w # "otp" /\ DOMAIN rows'[w] # {} => verified
  PROVE  RowsFound' /\ VerifiedFirst' /\ AdmittedSpent' /\ MetOnTheRow'
<1> USE DEF IInv
<1>0. \A r \in Requests : request[r].way \in Ways /\ request[r].row \in Nat
  BY DEF TypeOK, RequestState
<1>1. RowsFound'
  BY <1>0 DEF RowsFound, InFlight
<1>2. VerifiedFirst'
  BY DEF VerifiedFirst
<1>3. AdmittedSpent'
  BY <1>0 DEF AdmittedSpent, Admitted
<1>4. MetOnTheRow'
  BY DEF MetOnTheRow, InFlight, Admitted
<1>. QED
  BY <1>1, <1>2, <1>3, <1>4

\* A finish that moves to its next step, on rows that only got spent.
LEMMA MoveStep ==
  ASSUME IInv, TypeOK', NEW r \in Requests, InFlight(r), NEW pc \in {"done"} \cup Running,
         Goto(r, pc), sessions' \subseteq sessions \cup {r}, sessions \subseteq sessions',
         overlapped' = overlapped,
         verified => verified', pc \in {"open", "answer"} => verified',
         \A w \in Ways : DOMAIN rows'[w] = DOMAIN rows[w],
         \A w \in Ways, i \in Nat : i \in DOMAIN rows[w] /\ rows[w][i].used => rows'[w][i].used,
         Admitted(r)' => /\ rows'[request[r].way][request[r].row].used
                         /\ pc \in {"verify", "open", "answer", "done"}
  PROVE  RowsFound' /\ VerifiedFirst' /\ AdmittedSpent' /\ MetOnTheRow'
<1> USE DEF IInv
<1>0. \A q \in Requests : request[q].way \in Ways /\ request[q].row \in Nat
  BY DEF TypeOK, RequestState
<1>1. /\ request'[r].pc = pc /\ request'[r].way = request[r].way
      /\ request'[r].row = request[r].row
      /\ \A q \in Requests : q # r => request'[q] = request[q]
  BY GotoType
<1>2. request[r].row \in DOMAIN rows[request[r].way]
  BY DEF RowsFound
<1>3. RowsFound'
  BY <1>0, <1>1, <1>2 DEF RowsFound, InFlight
<1>4. VerifiedFirst'
  BY <1>1 DEF VerifiedFirst
<1>5. \A q \in Requests : q # r => (Admitted(q)' <=> Admitted(q)) /\ (InFlight(q)' <=> InFlight(q))
  BY <1>1 DEF Admitted, InFlight
<1>6. AdmittedSpent'
  <2> SUFFICES ASSUME NEW q \in Requests, Admitted(q)'
               PROVE  /\ request'[q].row \in DOMAIN rows'[request'[q].way]
                      /\ rows'[request'[q].way][request'[q].row].used
                      /\ request'[q].pc \in {"verify", "open", "answer", "done"}
    BY DEF AdmittedSpent
  <2>1. CASE q = r
    BY <2>1, <1>0, <1>1, <1>2
  <2>2. CASE q # r
    BY <2>2, <1>0, <1>1, <1>5 DEF AdmittedSpent
  <2>. QED
    BY <2>1, <2>2
<1>7. MetOnTheRow'
  BY <1>1, <1>5 DEF MetOnTheRow
<1>. QED
  BY <1>3, <1>4, <1>6, <1>7

-----------------------------------------------------------------------------
(* Beginnings, messages and the expiry of rows. *)

LEMMA BeginInv == ASSUME IInv, NEW w \in Ways, Begin(w) PROVE IInv'
<1> USE DEF IInv
<1>0. rows \in [Ways -> Seq(Row)] /\ rows[w] \in Seq(Row) /\ Fresh \in Row
  BY DEF TypeOK, Fresh, Row
<1>1. rows' = [rows EXCEPT ![w] = Append(rows[w], Fresh)]
      /\ UNCHANGED <<known, verified, passkeys, sessions, request, overlapped, page, left>>
  BY DEF Begin
<1>2. /\ Append(rows[w], Fresh) \in Seq(Row)
      /\ DOMAIN Append(rows[w], Fresh) = 1..(Len(rows[w]) + 1)
      /\ DOMAIN rows[w] = 1..Len(rows[w])
      /\ \A i \in 1..Len(rows[w]) : Append(rows[w], Fresh)[i] = rows[w][i]
  BY <1>0
<1>3. /\ rows' \in [Ways -> Seq(Row)]
      /\ \A v \in Ways : DOMAIN rows[v] \subseteq DOMAIN rows'[v]
      /\ \A v \in Ways, i \in Nat : i \in DOMAIN rows[v] => rows'[v][i] = rows[v][i]
      /\ \A v \in Ways \ {w} : rows'[v] = rows[v]
  BY <1>0, <1>1, <1>2
<1>4. "registration" \in Ways
  BY DEF Ways
<1>5. TypeOK'
  BY <1>1, <1>3, <1>4 DEF TypeOK
<1>6. \A v \in Ways : v # "otp" /\ DOMAIN rows'[v] # {} => verified
  BY <1>3 DEF Begin, MayBegin, VerifiedFirst
<1>7. RowsFound' /\ VerifiedFirst' /\ AdmittedSpent' /\ MetOnTheRow'
  BY <1>1, <1>3, <1>5, <1>6, QuietStep
<1>. QED
  BY <1>1, <1>5, <1>7 DEF CookieDone, LeftForGood

LEMMA MessageInv ==
  ASSUME IInv, NEW w \in Ways, NEW i \in DOMAIN rows[w], MessageArrives(w, i) PROVE IInv'
<1> USE DEF IInv
<1>1. TypeOK'
  BY DEF MessageArrives, TypeOK
<1>2. RowsFound' /\ VerifiedFirst' /\ AdmittedSpent' /\ MetOnTheRow'
  BY <1>1, QuietStep DEF MessageArrives, VerifiedFirst
<1>. QED
  BY <1>1, <1>2 DEF MessageArrives, CookieDone, LeftForGood

LEMMA ExpireInv ==
  ASSUME IInv, NEW w \in Ways, NEW i \in DOMAIN rows[w], Expire(w, i) PROVE IInv'
<1> USE DEF IInv
<1> DEFINE new == [rows[w][i] EXCEPT !.expired = TRUE]
<1>0. rows \in [Ways -> Seq(Row)] /\ rows[w] \in Seq(Row) /\ rows[w][i] \in Row
  BY DEF TypeOK
<1>1. new \in Row /\ new.used = rows[w][i].used
  BY <1>0 DEF Row
<1>2. rows' = [rows EXCEPT ![w] = [rows[w] EXCEPT ![i] = new]]
  BY DEF Expire
<1>3. UNCHANGED <<known, verified, passkeys, sessions, request, overlapped, page, left>>
  BY DEF Expire
<1> HIDE DEF new
<1>4. /\ rows' \in [Ways -> Seq(Row)]
      /\ \A v \in Ways : DOMAIN rows'[v] = DOMAIN rows[v]
      /\ rows'[w][i] = new
      /\ \A v \in Ways : \A j \in DOMAIN rows[v] :
           v # w \/ j # i => rows'[v][j] = rows[v][j]
  BY <1>0, <1>1, <1>2, RowWritten
<1>5. \A v \in Ways, j \in Nat : j \in DOMAIN rows[v] /\ rows[v][j].used => rows'[v][j].used
  BY <1>1, <1>4
<1>6. TypeOK'
  BY <1>3, <1>4 DEF TypeOK, Ways
<1>7. RowsFound' /\ VerifiedFirst' /\ AdmittedSpent' /\ MetOnTheRow'
  BY <1>3, <1>4, <1>5, <1>6, QuietStep DEF VerifiedFirst
<1>. QED
  BY <1>3, <1>6, <1>7 DEF CookieDone, LeftForGood

-----------------------------------------------------------------------------
(* Finishes. *)

\* A finish that finds a row nobody has spent meets whoever else is on it.
LEMMA FindInv ==
  ASSUME IInv, NEW r \in Requests, NEW w \in Ways, NEW i \in Answers(w), Find(r, w, i)
  PROVE  IInv'
<1> USE DEF IInv
<1>0. PICK n \in DOMAIN rows[w] :
        /\ Open(w, n)
        /\ i = n \/ w = "otp"
        /\ request' = [request EXCEPT ![r] =
             [pc |-> IF i = n THEN FirstStep(w) ELSE "mistake", way |-> w, row |-> n]]
        /\ overlapped' = IF SameRow(w, n) = {} THEN overlapped
                         ELSE overlapped \cup SameRow(w, n) \cup {r}
  BY DEF Find
<1>1. rows[w] \in Seq(Row) /\ n \in Nat /\ ~rows[w][n].used
  BY <1>0 DEF TypeOK, Open, Newest, Unused
<1>2. UNCHANGED <<rows, known, verified, passkeys, sessions, page, left>>
  BY DEF Find
<1>3. /\ request \in [Requests -> RequestState]
      /\ \A q \in Requests : request[q].way \in Ways /\ request[q].row \in Nat
  BY DEF TypeOK, RequestState
<1>4. /\ request'[r].pc \in {"mistake", "save", "spend"}
      /\ request'[r].way = w /\ request'[r].row = n
      /\ \A q \in Requests : q # r => request'[q] = request[q]
  BY <1>0, <1>3 DEF FirstStep
<1>5. request' \in [Requests -> RequestState]
  <2>1. [pc |-> IF i = n THEN FirstStep(w) ELSE "mistake", way |-> w, row |-> n] \in RequestState
    BY <1>1 DEF RequestState, FirstStep, Running
  <2>. QED
    BY <1>0, <1>3, <2>1
<1>6. overlapped' \subseteq Requests /\ overlapped \subseteq overlapped'
  BY <1>0 DEF TypeOK, SameRow
<1>7. TypeOK'
  BY <1>2, <1>5, <1>6 DEF TypeOK
<1>8. request[r].pc = "idle"
  BY DEF Find
<1>9. r \notin sessions
  BY <1>8 DEF AdmittedSpent, Admitted
<1>10. \A q \in Requests : q # r => (Admitted(q)' <=> Admitted(q)) /\ (InFlight(q)' <=> InFlight(q))
  BY <1>2, <1>4 DEF Admitted, InFlight
<1>11. ~Admitted(r)'
  BY <1>2, <1>4, <1>9 DEF Admitted
<1>12. RowsFound'
  BY <1>2, <1>4 DEF RowsFound, InFlight
<1>13. VerifiedFirst'
  BY <1>2, <1>4 DEF VerifiedFirst
<1>14. AdmittedSpent'
  BY <1>2, <1>4, <1>10, <1>11 DEF AdmittedSpent
<1>15. \A q \in Requests :
         q # r /\ (InFlight(q) \/ Admitted(q)) /\ request[q].way = w /\ request[q].row = n
         => q \in overlapped' /\ r \in overlapped'
  <2> SUFFICES ASSUME NEW q \in Requests, q # r, InFlight(q) \/ Admitted(q),
                      request[q].way = w, request[q].row = n
               PROVE  q \in overlapped' /\ r \in overlapped'
    OBVIOUS
  <2>1. ~Admitted(q)
    BY <1>1 DEF AdmittedSpent
  <2>2. q \in SameRow(w, n)
    BY <2>1 DEF SameRow
  <2>. QED
    BY <1>0, <2>2
<1>16. MetOnTheRow'
  <2> SUFFICES ASSUME NEW p \in Requests, NEW q \in Requests,
                      (InFlight(p) \/ Admitted(p))', (InFlight(q) \/ Admitted(q))', p # q,
                      request'[p].way = request'[q].way, request'[p].row = request'[q].row
               PROVE  p \in overlapped' /\ q \in overlapped'
    BY DEF MetOnTheRow
  <2>1. CASE p # r /\ q # r
    BY <2>1, <1>4, <1>6, <1>10 DEF MetOnTheRow
  <2>2. CASE p = r
    BY <2>2, <1>4, <1>10, <1>15
  <2>3. CASE q = r
    BY <2>3, <1>4, <1>10, <1>15
  <2>. QED
    BY <2>1, <2>2, <2>3
<1>17. CookieDone'
  BY <1>2, <1>4, <1>8 DEF CookieDone, TypeOK, Page
<1>. QED
  BY <1>2, <1>7, <1>12, <1>13, <1>14, <1>16, <1>17 DEF LeftForGood

\* What every step of a finish begins with.
LEMMA Finish ==
  ASSUME IInv, NEW r \in Requests, InFlight(r)
  PROVE  /\ request[r].way \in Ways /\ rows[request[r].way] \in Seq(Row)
         /\ request[r].row \in DOMAIN rows[request[r].way]
         /\ rows[request[r].way][request[r].row] \in Row
         /\ request[r].row \in Nat
BY DEF IInv, TypeOK, RequestState, RowsFound

LEMMA MistakeInv == ASSUME IInv, NEW r \in Requests, Mistake(r) PROVE IInv'
<1> USE DEF IInv
<1> DEFINE w == request[r].way
           i == request[r].row
           new == [rows[w][i] EXCEPT !.attempts = rows[w][i].attempts + 1]
<1>0. InFlight(r) /\ Goto(r, "done")
  BY DEF Mistake, InFlight, Running
<1>1. w \in Ways /\ i \in DOMAIN rows[w] /\ rows[w][i] \in Row /\ i \in Nat
  BY <1>0, Finish
<1>2. new \in Row /\ new.used = rows[w][i].used
  BY <1>1 DEF Row
<1>3. rows' = [rows EXCEPT ![w] = [rows[w] EXCEPT ![i] = new]]
  BY DEF Mistake
<1>4. UNCHANGED <<known, verified, passkeys, sessions, overlapped, page, left>>
  BY DEF Mistake
<1>5. ~Admitted(r)'
  <2>1. r \notin sessions
    BY DEF Mistake, AdmittedSpent, Admitted
  <2>2. request'[r].pc = "done"
    BY <1>0, GotoType
  <2>. QED
    BY <1>4, <2>1, <2>2 DEF Admitted
<1>5a. request' \in [Requests -> RequestState]
  BY <1>0, GotoType
<1>5b. rows \in [Ways -> Seq(Row)]
  BY DEF TypeOK
<1> HIDE DEF new, w, i
<1>6. /\ rows' \in [Ways -> Seq(Row)]
      /\ \A v \in Ways : DOMAIN rows'[v] = DOMAIN rows[v]
      /\ rows'[w][i] = new
      /\ \A v \in Ways : \A j \in DOMAIN rows[v] :
           v # w \/ j # i => rows'[v][j] = rows[v][j]
  BY <1>1, <1>2, <1>3, <1>5b, RowWritten
<1>7. \A v \in Ways, j \in Nat : j \in DOMAIN rows[v] /\ rows[v][j].used => rows'[v][j].used
  BY <1>2, <1>6
<1>8. TypeOK'
  BY <1>4, <1>5a, <1>6 DEF TypeOK, Ways
<1>9. RowsFound' /\ VerifiedFirst' /\ AdmittedSpent' /\ MetOnTheRow'
  BY <1>0, <1>4, <1>5, <1>6, <1>7, <1>8, MoveStep
<1>10. CookieDone'
  BY <1>0, <1>4, GotoType DEF CookieDone, TypeOK, Page
<1>. QED
  BY <1>4, <1>8, <1>9, <1>10 DEF LeftForGood

LEMMA SpendInv == ASSUME IInv, NEW r \in Requests, Spend(r) PROVE IInv'
<1> USE DEF IInv
<1> DEFINE w == request[r].way
           i == request[r].row
           new == [rows[w][i] EXCEPT !.used = TRUE]
           pc == IF w = "otp" THEN "verify" ELSE "open"
<1>0. InFlight(r) /\ Goto(r, pc)
  BY DEF Spend, InFlight, Running
<1>1. w \in Ways /\ i \in DOMAIN rows[w] /\ rows[w][i] \in Row /\ i \in Nat
  BY <1>0, Finish
<1>2. new \in Row /\ new.used
  BY <1>1 DEF Row
<1>3. rows' = [rows EXCEPT ![w] = [rows[w] EXCEPT ![i] = new]]
  BY DEF Spend
<1>4. UNCHANGED <<known, verified, passkeys, sessions, overlapped, page, left>>
  BY DEF Spend
<1>5. pc \in {"verify", "open"} /\ (pc = "open" => verified)
  BY <1>1 DEF VerifiedFirst
<1>5a. request' \in [Requests -> RequestState] /\ request'[r].pc = pc
       /\ \A q \in Requests : q # r => request'[q] = request[q]
  BY <1>0, <1>5, GotoType DEF Running
<1>5b. rows \in [Ways -> Seq(Row)]
  BY DEF TypeOK
<1> HIDE DEF new, pc
<1>6. /\ rows' \in [Ways -> Seq(Row)]
      /\ \A v \in Ways : DOMAIN rows'[v] = DOMAIN rows[v]
      /\ rows'[w][i] = new
      /\ \A v \in Ways : \A j \in DOMAIN rows[v] :
           v # w \/ j # i => rows'[v][j] = rows[v][j]
  <2> HIDE DEF w, i
  <2>. QED
    BY <1>1, <1>2, <1>3, <1>5b, RowWritten
<1>7. \A v \in Ways, j \in Nat : j \in DOMAIN rows[v] /\ rows[v][j].used => rows'[v][j].used
  BY <1>2, <1>6
<1>8. TypeOK'
  BY <1>4, <1>5a, <1>6 DEF TypeOK, Ways
<1>9. RowsFound' /\ VerifiedFirst' /\ AdmittedSpent' /\ MetOnTheRow'
  BY <1>0, <1>2, <1>4, <1>5, <1>6, <1>7, <1>8, MoveStep DEF Running
<1>10. CookieDone'
  BY <1>4, <1>5a DEF CookieDone, TypeOK, Page, Spend
<1>. QED
  BY <1>4, <1>8, <1>9, <1>10 DEF LeftForGood

LEMMA SaveInv == ASSUME IInv, NEW r \in Requests, Save(r) PROVE IInv'
<1> USE DEF IInv
<1>0. InFlight(r) /\ Goto(r, "spend")
  BY DEF Save, InFlight, Running
<1>1. UNCHANGED <<rows, known, verified, sessions, overlapped, page, left>>
  BY DEF Save
<1>2. request' \in [Requests -> RequestState] /\ request'[r].pc = "spend"
      /\ \A q \in Requests : q # r => request'[q] = request[q]
  BY <1>0, GotoType DEF Running
<1>3. passkeys' \subseteq DOMAIN rows["registration"] /\ (passkeys' # {} => verified)
  BY <1>0, Finish DEF Save, TypeOK, VerifiedFirst
<1>4. TypeOK'
  BY <1>1, <1>2, <1>3 DEF TypeOK
<1>5. ~Admitted(r)'
  BY <1>1, <1>2 DEF Save, AdmittedSpent, Admitted
<1>6. RowsFound' /\ VerifiedFirst' /\ AdmittedSpent' /\ MetOnTheRow'
  BY <1>0, <1>1, <1>4, <1>5, MoveStep DEF Running
<1>7. CookieDone'
  BY <1>1, <1>2 DEF CookieDone, TypeOK, Page, Save
<1>. QED
  BY <1>1, <1>4, <1>6, <1>7 DEF LeftForGood

LEMMA VerifyInv == ASSUME IInv, NEW r \in Requests, VerifyUser(r) PROVE IInv'
<1> USE DEF IInv
<1>0. InFlight(r) /\ Goto(r, "open")
  BY DEF VerifyUser, InFlight, Running
<1>1. verified' = TRUE /\ UNCHANGED <<rows, known, passkeys, sessions, overlapped, page, left>>
  BY DEF VerifyUser
<1>2. request' \in [Requests -> RequestState] /\ request'[r].pc = "open"
      /\ \A q \in Requests : q # r => request'[q] = request[q]
  BY <1>0, GotoType DEF Running
<1>3. TypeOK'
  BY <1>1, <1>2 DEF TypeOK
<1>4. rows[request[r].way][request[r].row].used
  BY DEF VerifyUser, AdmittedSpent, Admitted
<1>5. RowsFound' /\ VerifiedFirst' /\ AdmittedSpent' /\ MetOnTheRow'
  BY <1>0, <1>1, <1>3, <1>4, MoveStep DEF Running
<1>6. CookieDone'
  BY <1>1, <1>2 DEF CookieDone, TypeOK, Page, VerifyUser
<1>. QED
  BY <1>1, <1>3, <1>5, <1>6 DEF LeftForGood

LEMMA OpenSessionInv == ASSUME IInv, NEW r \in Requests, OpenSession(r) PROVE IInv'
<1> USE DEF IInv
<1>0. InFlight(r) /\ Goto(r, "answer")
  BY DEF OpenSession, InFlight, Running
<1>1. /\ sessions' = sessions \cup {r}
      /\ UNCHANGED <<rows, known, verified, passkeys, overlapped, page, left>>
  BY DEF OpenSession
<1>2. request' \in [Requests -> RequestState] /\ request'[r].pc = "answer"
      /\ \A q \in Requests : q # r => request'[q] = request[q]
  BY <1>0, GotoType DEF Running
<1>3. verified
  BY DEF OpenSession, VerifiedFirst
<1>4. TypeOK'
  BY <1>1, <1>2, <1>3 DEF TypeOK
<1>5. rows[request[r].way][request[r].row].used
  BY DEF OpenSession, AdmittedSpent, Admitted
<1>6. RowsFound' /\ VerifiedFirst' /\ AdmittedSpent' /\ MetOnTheRow'
  BY <1>0, <1>1, <1>3, <1>4, <1>5, MoveStep DEF Running
<1>7. page.cookie # r
  BY LoginAssumption DEF OpenSession, CookieDone
<1>8. CookieDone'
  BY <1>1, <1>2, <1>7 DEF CookieDone, TypeOK, Page
<1>. QED
  BY <1>1, <1>4, <1>6, <1>7, <1>8 DEF LeftForGood

LEMMA LandInv == ASSUME IInv, NEW r \in Requests, Land(r) PROVE IInv'
<1> USE DEF IInv
<1>0. InFlight(r) /\ Goto(r, "done")
  BY DEF Land, InFlight, Running
<1>1. /\ page' = [token |-> "good", cookie |-> r] /\ left' = FALSE
      /\ UNCHANGED <<rows, known, verified, passkeys, sessions, overlapped>>
  BY DEF Land
<1>2. request' \in [Requests -> RequestState] /\ request'[r].pc = "done"
  BY <1>0, GotoType
<1>3. TypeOK'
  BY <1>1, <1>2 DEF TypeOK, Page
<1>4. rows[request[r].way][request[r].row].used
  BY DEF Land, AdmittedSpent, Admitted
<1>5. RowsFound' /\ VerifiedFirst' /\ AdmittedSpent' /\ MetOnTheRow'
  BY <1>0, <1>1, <1>3, <1>4, MoveStep
<1>. QED
  BY <1>1, <1>2, <1>3, <1>5 DEF CookieDone, LeftForGood

LEMMA CutInv == ASSUME IInv, NEW r \in Requests, Cut(r) PROVE IInv'
<1> USE DEF IInv
<1>0. InFlight(r) /\ Goto(r, "done")
  BY DEF Cut
<1>1. UNCHANGED <<rows, known, verified, passkeys, sessions, overlapped, page, left>>
  BY DEF Cut
<1>2. request' \in [Requests -> RequestState] /\ request'[r].pc = "done"
      /\ \A q \in Requests : q # r => request'[q] = request[q]
  BY <1>0, GotoType
<1>3. TypeOK'
  BY <1>1, <1>2 DEF TypeOK
<1>4. Admitted(r)' => rows[request[r].way][request[r].row].used
  BY <1>1, <1>2 DEF AdmittedSpent, Admitted
<1>5. RowsFound' /\ VerifiedFirst' /\ AdmittedSpent' /\ MetOnTheRow'
  BY <1>0, <1>1, <1>3, <1>4, MoveStep
<1>6. CookieDone'
  BY <1>1, <1>2 DEF CookieDone, TypeOK, Page
<1>. QED
  BY <1>1, <1>3, <1>5, <1>6 DEF LeftForGood

-----------------------------------------------------------------------------
(* The page. *)

LEMMA PageInv ==
  ASSUME IInv, TokenExpires \/ Restore \/ LogoutFails PROVE IInv'
<1> USE DEF IInv
<1>1. UNCHANGED <<rows, known, verified, passkeys, sessions, request, overlapped, left>>
  BY DEF TokenExpires, Restore, LogoutFails
<1>2. page' \in Page /\ page'.cookie = page.cookie
      /\ (page'.token = "good" => page.cookie \in sessions)
  BY DEF TokenExpires, Restore, LogoutFails, TypeOK, Page
<1>3. TypeOK'
  BY <1>1, <1>2 DEF TypeOK
<1>4. RowsFound' /\ VerifiedFirst' /\ AdmittedSpent' /\ MetOnTheRow'
  BY <1>1, <1>3, QuietStep DEF VerifiedFirst
<1>. QED
  BY <1>1, <1>2, <1>3, <1>4 DEF CookieDone, LeftForGood

\* The session of the cookie is gone whether or not the cookie is.
LEMMA LogoutInv == ASSUME IInv, Logout PROVE IInv'
<1> USE DEF IInv
<1>1. /\ sessions' = sessions \ {page.cookie}
      /\ UNCHANGED <<rows, known, verified, passkeys, request, overlapped>>
  BY DEF Logout, RevokesCookie
<1>2. page' \in Page /\ page'.token = "none" /\ page'.cookie \in {page.cookie, None}
  BY DEF Logout, TypeOK, Page
<1>3. TypeOK'
  BY <1>1, <1>2 DEF TypeOK, Logout
<1>4. RowsFound' /\ VerifiedFirst' /\ AdmittedSpent' /\ MetOnTheRow'
  BY <1>1 DEF RowsFound, VerifiedFirst, AdmittedSpent, MetOnTheRow, InFlight, Admitted
<1>5. CookieDone'
  BY <1>1, <1>2 DEF CookieDone
<1>6. page'.cookie \notin sessions'
  BY <1>1, <1>2, LoginAssumption DEF TypeOK
<1>. QED
  BY <1>2, <1>3, <1>4, <1>5, <1>6 DEF LeftForGood

LEMMA NextInv == IInv /\ [Next]_vars => IInv'
<1> SUFFICES ASSUME IInv, [Next]_vars PROVE IInv'
  OBVIOUS
<1>1. ASSUME UNCHANGED vars PROVE IInv'
  BY <1>1 DEF vars, IInv, TypeOK, RowsFound, VerifiedFirst, AdmittedSpent, MetOnTheRow,
              CookieDone, LeftForGood, InFlight, Admitted
<1>. QED
  BY <1>1, BeginInv, MessageInv, ExpireInv, FindInv, MistakeInv, SaveInv, SpendInv, VerifyInv,
     OpenSessionInv, LandInv, CutInv, PageInv, LogoutInv DEF Next

\* What codes, challenges and sessions go through keeps this invariant.
THEOREM Invariance == Spec => []IInv
BY InitInv, NextInv, PTL DEF Spec

\* Rows and finishes keep their types, and no passkey and no session is there
\* without a verified phone.
THEOREM TypeCorrectness == Spec => []TypeOK
<1>1. IInv => TypeOK
  BY DEF IInv
<1>. QED
  BY <1>1, Invariance, PTL

\* Two finishes that one code or one challenge admits have met on its row.
THEOREM CodesAreSpentOnce == Spec => []SpentOnce
<1>1. IInv => SpentOnce
  BY DEF IInv, MetOnTheRow, SpentOnce
<1>. QED
  BY <1>1, Invariance, PTL

\* After a logout the server carried out, only a new login signs the page in.
THEOREM LogoutsHold == Spec => []LogoutHolds
<1>1. IInv => LogoutHolds
  BY DEF IInv, LeftForGood, LogoutHolds
<1>. QED
  BY <1>1, Invariance, PTL

=============================================================================
